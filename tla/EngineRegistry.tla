--------------------------- MODULE EngineRegistry ---------------------------
(***************************************************************************)
(* The table of message-queue engines kept by engine.c.                    *)
(*                                                                         *)
(* Any number of threads register and unregister engines, and look one up  *)
(* by the scheme of a URI to construct a connection.  The table is an      *)
(* array of slots guarded by the rwlock `enginelock'; the first look-up    *)
(* runs mq_init_() through pthread_once().  A slot is either vacant (all   *)
(* zero, after an unregistration) or holds a scheme, the constructor that  *)
(* serves it and the handle of the module that registered it.              *)
(*                                                                         *)
(* Every loop over the table is one action per iteration.  The last write  *)
(* of a function and its pthread_rwlock_unlock() are one action: nobody    *)
(* else may look at the table between the two.                             *)
(***************************************************************************)
EXTENDS Integers, Sequences, FiniteSets

CONSTANTS
    Threads,             \* the threads of the process
    Schemes,             \* the URI schemes (strings without a colon)
    Constructors,        \* the engines' constructor functions
    Handles,             \* the module handles; Null is one of them
    Builtins,            \* the schemes mq_init_() registers, in order
    BuiltinConstructor,  \* mq_proton_construct_
    Null                 \* the NULL pointer

ASSUME RegistryAssumption ==
    /\ IsFiniteSet(Schemes)
    /\ Null \notin Schemes
    /\ Null \notin Threads
    /\ Null \in Handles
    /\ BuiltinConstructor \in Constructors
    /\ Builtins \in Seq(Schemes)

VARIABLES
    engines,  \* the array of slots; enginecount is its length
    writer,   \* the thread that holds enginelock for writing, or Null
    readers,  \* the threads that hold enginelock for reading
    once,     \* the progress of mq_init_once_
    runner,   \* the thread that runs mq_init_(), or Null
    booted,   \* how many of Builtins mq_init_() has started to register
    pc,       \* where each thread is
    op,       \* the registration function each thread is in
    arg,      \* its scheme, construct and handle arguments
    uri,      \* the scheme of the URI each thread passed to mq_create_()
    c,        \* the loop index (from 1)
    spare,    \* the spare slot found so far, 0 for (size_t) -1
    count,    \* the number of slots cleared so far
    ret,      \* what a registration call returns, Null while it has not
    found     \* the slot whose constructor mq_create_() calls, EmptySlot
              \* when it returns NULL, Null before that

vars == <<engines, writer, readers, once, runner, booted,
          pc, op, arg, uri, c, spare, count, ret, found>>

Slot      == [scheme : Schemes, construct : Constructors, handle : Handles]
EmptySlot == [scheme |-> Null, construct |-> Null, handle |-> Null]

(* The arguments of a registration function, Null for those it lacks.      *)
Args == [scheme : Schemes \cup {Null}, construct : Constructors \cup {Null}, handle : Handles]

Ops == {"none", "register", "unregister", "unregister_constructor", "unregister_all"}
PCs == {"idle", "wrlock", "scan", "insert",
        "once", "init", "rdlock", "lookup", "construct", "return"}

-----------------------------------------------------------------------------
(* What the functions read from a slot.                                    *)

Vacant(slot) == slot.scheme = Null

UnregisterMatch(slot, a) == slot.scheme = a.scheme /\ slot.handle = a.handle

UnregisterConstructorMatch(slot, a) == ~Vacant(slot) /\ slot.construct = a.construct

(* Seeded fault: the `continue' on a vacant slot is missing.               *)
UnregisterAllMatch_CountsVacant(slot, a) == slot.handle = a.handle

UnregisterAllMatch(slot, a) == ~Vacant(slot) /\ slot.handle = a.handle

PurgeMatch(slot, o, a) ==
    \/ o = "unregister_constructor" /\ UnregisterConstructorMatch(slot, a)
    \/ o = "unregister_all" /\ UnregisterAllMatch(slot, a)

(* pthread_rwlock_unlock() by the writer, the end of its locals, and the   *)
(* return of a registration function with result r.                        *)
Return(t, r) ==
    /\ writer' = Null
    /\ pc'    = [pc EXCEPT ![t] = "return"]
    /\ ret'   = [ret EXCEPT ![t] = r]
    /\ op'    = [op EXCEPT ![t] = "none"]
    /\ arg'   = [arg EXCEPT ![t] = EmptySlot]
    /\ c'     = [c EXCEPT ![t] = 1]
    /\ spare' = [spare EXCEPT ![t] = 0]
    /\ count' = [count EXCEPT ![t] = 0]
    /\ UNCHANGED <<readers, once, runner, booted, uri, found>>

NextSlot(t) ==
    /\ c' = [c EXCEPT ![t] = @ + 1]
    /\ UNCHANGED <<writer, readers, once, runner, booted, pc, op, arg, uri, ret, found>>

-----------------------------------------------------------------------------
(* The calls a thread makes: from the application when it is idle, or from *)
(* the mq_entry() of a plug-in while it runs the rest of mq_init_().       *)

MayCall(t) ==
    \/ pc[t] = "idle"
    \/ pc[t] = "init" /\ booted = Len(Builtins)

Invoke(t, o, a) ==
    /\ pc'  = [pc EXCEPT ![t] = "wrlock"]
    /\ op'  = [op EXCEPT ![t] = o]
    /\ arg' = [arg EXCEPT ![t] = a]
    /\ UNCHANGED <<engines, writer, readers, once, runner, uri, c, spare, count, ret, found>>

CallRegister(t) ==
    /\ MayCall(t)
    /\ \E a \in Slot : Invoke(t, "register", a)
    /\ UNCHANGED booted

CallUnregister(t) ==
    /\ MayCall(t)
    /\ \E s \in Schemes, h \in Handles :
          Invoke(t, "unregister", [EmptySlot EXCEPT !.scheme = s, !.handle = h])
    /\ UNCHANGED booted

CallUnregisterConstructor(t) ==
    /\ MayCall(t)
    /\ \E k \in Constructors :
          Invoke(t, "unregister_constructor", [EmptySlot EXCEPT !.construct = k])
    /\ UNCHANGED booted

CallUnregisterAll(t) ==
    /\ MayCall(t)
    /\ \E h \in Handles :
          Invoke(t, "unregister_all", [EmptySlot EXCEPT !.handle = h])
    /\ UNCHANGED booted

CallCreate(t) ==
    /\ pc[t] = "idle"
    /\ pc' = [pc EXCEPT ![t] = "once"]
    /\ \E s \in Schemes : uri' = [uri EXCEPT ![t] = s]
    /\ UNCHANGED <<engines, writer, readers, once, runner, booted,
                   op, arg, c, spare, count, ret, found>>

-----------------------------------------------------------------------------
(* The registration functions.                                             *)

(* Seeded fault: the writer does not wait for the readers.                 *)
WrLock_IgnoresReaders(t) ==
    /\ pc[t] = "wrlock"
    /\ writer = Null
    /\ writer' = t
    /\ pc' = [pc EXCEPT ![t] = "scan"]
    /\ UNCHANGED <<engines, readers, once, runner, booted,
                   op, arg, uri, c, spare, count, ret, found>>

WrLock(t) ==
    /\ pc[t] = "wrlock"
    /\ writer = Null /\ readers = {}
    /\ writer' = t
    /\ pc' = [pc EXCEPT ![t] = "scan"]
    /\ UNCHANGED <<engines, readers, once, runner, booted,
                   op, arg, uri, c, spare, count, ret, found>>

InLoop(t, o) == pc[t] = "scan" /\ op[t] = o /\ c[t] <= Len(engines)

LoopDone(t, o) == pc[t] = "scan" /\ op[t] = o /\ c[t] > Len(engines)

(* Seeded fault: the scan stops at the first spare slot.                   *)
RegisterSpare_StopsScan(t) ==
    /\ InLoop(t, "register")
    /\ Vacant(engines[c[t]])
    /\ spare' = [spare EXCEPT ![t] = c[t]]
    /\ pc' = [pc EXCEPT ![t] = "insert"]
    /\ UNCHANGED <<engines, writer, readers, once, runner, booted,
                   op, arg, uri, c, count, ret, found>>

RegisterSpare(t) ==
    /\ InLoop(t, "register")
    /\ Vacant(engines[c[t]])
    /\ spare' = [spare EXCEPT ![t] = c[t]]
    /\ NextSlot(t)
    /\ UNCHANGED <<engines, count>>

RegisterReplace(t) ==
    /\ InLoop(t, "register")
    /\ engines[c[t]].scheme = arg[t].scheme
    /\ engines' = [engines EXCEPT ![c[t]].construct = arg[t].construct,
                                  ![c[t]].handle = arg[t].handle]
    /\ Return(t, 0)

RegisterSkip(t) ==
    /\ InLoop(t, "register")
    /\ ~Vacant(engines[c[t]])
    /\ engines[c[t]].scheme # arg[t].scheme
    /\ NextSlot(t)
    /\ UNCHANGED <<engines, spare, count>>

RegisterAbsent(t) ==
    /\ LoopDone(t, "register")
    /\ pc' = [pc EXCEPT ![t] = "insert"]
    /\ UNCHANGED <<engines, writer, readers, once, runner, booted,
                   op, arg, uri, c, spare, count, ret, found>>

(* Seeded fault: the error path returns without unlocking.                 *)
RegisterNoMemory_KeepsLock(t) ==
    /\ pc[t] = "insert"
    /\ pc'    = [pc EXCEPT ![t] = "return"]
    /\ ret'   = [ret EXCEPT ![t] = -1]
    /\ op'    = [op EXCEPT ![t] = "none"]
    /\ arg'   = [arg EXCEPT ![t] = EmptySlot]
    /\ c'     = [c EXCEPT ![t] = 1]
    /\ spare' = [spare EXCEPT ![t] = 0]
    /\ count' = [count EXCEPT ![t] = 0]
    /\ UNCHANGED <<engines, writer, readers, once, runner, booted, uri, found>>

(* strdup() fails, or realloc() when there is no spare slot.               *)
RegisterNoMemory(t) ==
    /\ pc[t] = "insert"
    /\ Return(t, -1)
    /\ UNCHANGED engines

(* Seeded fault: the spare slot is never reused.                           *)
RegisterInsert_AlwaysGrows(t) ==
    /\ pc[t] = "insert"
    /\ engines' = Append(engines, arg[t])
    /\ Return(t, 0)

RegisterInsert(t) ==
    /\ pc[t] = "insert"
    /\ engines' = IF spare[t] = 0
                  THEN Append(engines, arg[t])
                  ELSE [engines EXCEPT ![spare[t]] = arg[t]]
    /\ Return(t, 0)

(* Seeded fault: the scheme is freed and the rest of the slot is left.     *)
UnregisterClear_KeepsHandle(t) ==
    /\ InLoop(t, "unregister")
    /\ UnregisterMatch(engines[c[t]], arg[t])
    /\ engines' = [engines EXCEPT ![c[t]].scheme = Null]
    /\ Return(t, 1)

UnregisterClear(t) ==
    /\ InLoop(t, "unregister")
    /\ UnregisterMatch(engines[c[t]], arg[t])
    /\ engines' = [engines EXCEPT ![c[t]] = EmptySlot]
    /\ Return(t, 1)

UnregisterSkip(t) ==
    /\ InLoop(t, "unregister")
    /\ ~UnregisterMatch(engines[c[t]], arg[t])
    /\ NextSlot(t)
    /\ UNCHANGED <<engines, spare, count>>

UnregisterAbsent(t) ==
    /\ LoopDone(t, "unregister")
    /\ Return(t, 0)
    /\ UNCHANGED engines

PurgeOps == {"unregister_constructor", "unregister_all"}

PurgeClear(t) ==
    /\ \E o \in PurgeOps : InLoop(t, o)
    /\ PurgeMatch(engines[c[t]], op[t], arg[t])
    /\ engines' = [engines EXCEPT ![c[t]] = EmptySlot]
    /\ count' = [count EXCEPT ![t] = @ + 1]
    /\ NextSlot(t)
    /\ UNCHANGED spare

PurgeSkip(t) ==
    /\ \E o \in PurgeOps : InLoop(t, o)
    /\ ~PurgeMatch(engines[c[t]], op[t], arg[t])
    /\ NextSlot(t)
    /\ UNCHANGED <<engines, spare, count>>

PurgeDone(t) ==
    /\ \E o \in PurgeOps : LoopDone(t, o)
    /\ Return(t, count[t])
    /\ UNCHANGED engines

-----------------------------------------------------------------------------
(* pthread_once() and mq_init_().                                          *)

OnceRun(t) ==
    /\ pc[t] = "once" /\ once = "fresh"
    /\ once' = "running"
    /\ runner' = t
    /\ pc' = [pc EXCEPT ![t] = "init"]
    /\ UNCHANGED <<engines, writer, readers, booted,
                   op, arg, uri, c, spare, count, ret, found>>

(* Seeded fault: a flag set at the start stands in for pthread_once().     *)
OnceSkip_FlagOnly(t) ==
    /\ pc[t] = "once" /\ once # "fresh"
    /\ pc' = [pc EXCEPT ![t] = "rdlock"]
    /\ UNCHANGED <<engines, writer, readers, once, runner, booted,
                   op, arg, uri, c, spare, count, ret, found>>

OnceSkip(t) ==
    /\ pc[t] = "once" /\ once = "done"
    /\ pc' = [pc EXCEPT ![t] = "rdlock"]
    /\ UNCHANGED <<engines, writer, readers, once, runner, booted,
                   op, arg, uri, c, spare, count, ret, found>>

InitBuiltin(t) ==
    /\ pc[t] = "init" /\ booted < Len(Builtins)
    /\ booted' = booted + 1
    /\ Invoke(t, "register", [scheme    |-> Builtins[booted + 1],
                              construct |-> BuiltinConstructor,
                              handle    |-> Null])

(* mq_plugin_init_() has returned: mq_init_() and pthread_once() return.   *)
InitDone(t) ==
    /\ pc[t] = "init" /\ booted = Len(Builtins)
    /\ once' = "done"
    /\ runner' = Null
    /\ pc' = [pc EXCEPT ![t] = "rdlock"]
    /\ UNCHANGED <<engines, writer, readers, booted,
                   op, arg, uri, c, spare, count, ret, found>>

-----------------------------------------------------------------------------
(* The look-up of mq_create_().                                            *)

RdLock(t) ==
    /\ pc[t] = "rdlock"
    /\ writer = Null
    /\ readers' = readers \cup {t}
    /\ pc' = [pc EXCEPT ![t] = "lookup"]
    /\ UNCHANGED <<engines, writer, once, runner, booted,
                   op, arg, uri, c, spare, count, ret, found>>

(* Seeded fault: the read lock is dropped before the constructor runs.     *)
LookupHit_Unlocks(t) ==
    /\ pc[t] = "lookup" /\ c[t] <= Len(engines)
    /\ engines[c[t]].scheme = uri[t]
    /\ found' = [found EXCEPT ![t] = engines[c[t]]]
    /\ readers' = readers \ {t}
    /\ pc' = [pc EXCEPT ![t] = "construct"]
    /\ UNCHANGED <<engines, writer, once, runner, booted,
                   op, arg, uri, c, spare, count, ret>>

(* The constructor is read from the slot and entered, under the read lock. *)
LookupHit(t) ==
    /\ pc[t] = "lookup" /\ c[t] <= Len(engines)
    /\ engines[c[t]].scheme = uri[t]
    /\ found' = [found EXCEPT ![t] = engines[c[t]]]
    /\ pc' = [pc EXCEPT ![t] = "construct"]
    /\ UNCHANGED <<engines, writer, readers, once, runner, booted,
                   op, arg, uri, c, spare, count, ret>>

LookupSkip(t) ==
    /\ pc[t] = "lookup" /\ c[t] <= Len(engines)
    /\ engines[c[t]].scheme # uri[t]
    /\ NextSlot(t)
    /\ UNCHANGED <<engines, spare, count>>

EndCreate(t, f) ==
    /\ readers' = readers \ {t}
    /\ pc'    = [pc EXCEPT ![t] = "return"]
    /\ c'     = [c EXCEPT ![t] = 1]
    /\ uri'   = [uri EXCEPT ![t] = Null]
    /\ found' = [found EXCEPT ![t] = f]
    /\ UNCHANGED <<engines, writer, once, runner, booted, op, arg, spare, count, ret>>

(* No engine serves the scheme: errno is EINVAL, NULL is returned.         *)
LookupMiss(t) ==
    /\ pc[t] = "lookup" /\ c[t] > Len(engines)
    /\ EndCreate(t, EmptySlot)

(* The constructor returns a connection.                                   *)
Construct(t) ==
    /\ pc[t] = "construct"
    /\ EndCreate(t, found[t])

(* The constructor cannot allocate one.                                    *)
ConstructFails(t) ==
    /\ pc[t] = "construct"
    /\ EndCreate(t, EmptySlot)

(* The caller gets the result: the application or, if the call was made    *)
(* while mq_init_() runs, mq_init_() or the plug-in it has entered.        *)
Collect(t) ==
    /\ pc[t] = "return"
    /\ pc'    = [pc EXCEPT ![t] = IF runner = t THEN "init" ELSE "idle"]
    /\ ret'   = [ret EXCEPT ![t] = Null]
    /\ found' = [found EXCEPT ![t] = Null]
    /\ UNCHANGED <<engines, writer, readers, once, runner, booted,
                   op, arg, uri, c, spare, count>>

-----------------------------------------------------------------------------
Init ==
    /\ engines = <<>>
    /\ writer  = Null
    /\ readers = {}
    /\ once    = "fresh"
    /\ runner  = Null
    /\ booted  = 0
    /\ pc      = [t \in Threads |-> "idle"]
    /\ op      = [t \in Threads |-> "none"]
    /\ arg     = [t \in Threads |-> EmptySlot]
    /\ uri     = [t \in Threads |-> Null]
    /\ c       = [t \in Threads |-> 1]
    /\ spare   = [t \in Threads |-> 0]
    /\ count   = [t \in Threads |-> 0]
    /\ ret     = [t \in Threads |-> Null]
    /\ found   = [t \in Threads |-> Null]

Call(t) ==
    \/ CallRegister(t) \/ CallUnregister(t)
    \/ CallUnregisterConstructor(t) \/ CallUnregisterAll(t)
    \/ CallCreate(t)

(* A step of engine.c's own, which waits for nothing but the lock and the  *)
(* initialisation.                                                         *)
TableStep(t) ==
    \/ WrLock(t)
    \/ RegisterSpare(t) \/ RegisterReplace(t) \/ RegisterSkip(t)
    \/ RegisterAbsent(t) \/ RegisterNoMemory(t) \/ RegisterInsert(t)
    \/ UnregisterClear(t) \/ UnregisterSkip(t) \/ UnregisterAbsent(t)
    \/ PurgeClear(t) \/ PurgeSkip(t) \/ PurgeDone(t)
    \/ OnceRun(t) \/ OnceSkip(t) \/ InitBuiltin(t)
    \/ RdLock(t) \/ LookupHit(t) \/ LookupSkip(t) \/ LookupMiss(t)
    \/ Construct(t) \/ ConstructFails(t)

Step(t) == TableStep(t) \/ InitDone(t) \/ Collect(t)

Next == \E t \in Threads : Call(t) \/ Step(t)

Spec == Init /\ [][Next]_vars

-----------------------------------------------------------------------------
(* Correctness.                                                            *)

Occupied == {i \in 1..Len(engines) : ~Vacant(engines[i])}

(* Every variable has its type.                                            *)
TypeOK ==
    /\ engines \in Seq(Slot \cup {EmptySlot})
    /\ writer \in Threads \cup {Null}
    /\ readers \in SUBSET Threads
    /\ once \in {"fresh", "running", "done"}
    /\ runner \in Threads \cup {Null}
    /\ booted \in 0..Len(Builtins)
    /\ pc \in [Threads -> PCs]
    /\ op \in [Threads -> Ops]
    /\ arg \in [Threads -> Args]
    /\ uri \in [Threads -> Schemes \cup {Null}]
    /\ c \in [Threads -> Nat \ {0}]
    /\ spare \in [Threads -> Nat]
    /\ count \in [Threads -> Nat]
    /\ ret \in [Threads -> Int \cup {Null}]
    /\ found \in [Threads -> Slot \cup {EmptySlot, Null}]

(* No two slots of the table hold the same scheme, whatever the calls of   *)
(* the threads and of mq_init_() do between the scan of                    *)
(* mq_register_internal_() and its insertion: otherwise mq_unregister()    *)
(* would leave an engine behind.                                           *)
SchemesUnique ==
    \A i, j \in Occupied : engines[i].scheme = engines[j].scheme => i = j

(* The table never outgrows the number of schemes in use: a module that    *)
(* registers and unregisters its schemes for ever reuses the slots it left.*)
SlotsBounded == Len(engines) <= Cardinality(Schemes)

(* While a thread is inside the constructor of an engine, the engine stays *)
(* registered: a module that has unregistered its handlers can be unloaded *)
(* without a thread still running, or about to run, its code.              *)
ConstructorPinned ==
    \A t \in Threads :
       pc[t] = "construct" => \E i \in Occupied : engines[i] = found[t]

(* No thread looks an engine up before mq_init_() has registered the       *)
(* built-in engines and loaded the plug-ins, even if another thread is the *)
(* one that runs it.                                                       *)
InitBeforeLookup ==
    \A t \in Threads :
       pc[t] \in {"rdlock", "lookup", "construct"} =>
          once = "done" /\ booted = Len(Builtins)

(* A thread that cannot go on: in pthread_rwlock_wrlock(), in              *)
(* pthread_rwlock_rdlock(), even of a lock that lets writers go first, and *)
(* in pthread_once().                                                      *)
Blocked(t) ==
    \/ pc[t] = "wrlock" /\ (writer # Null \/ readers # {})
    \/ pc[t] = "rdlock" /\ (writer # Null \/ \E u \in Threads : pc[u] = "wrlock")
    \/ pc[t] = "once" /\ once = "running"

(* Threads never wait for one another in a circle, nor for a thread that   *)
(* has left the library with the lock: mq_init_() calls mq_register(),     *)
(* which waits for the lock, while others wait for mq_init_().             *)
NobodyStuck ==
    \A t \in Threads :
       Blocked(t) => \E u \in Threads : pc[u] # "idle" /\ ~Blocked(u)

-----------------------------------------------------------------------------
(* The strengthening that is inductive.                                    *)

(* The lock: its holders are the threads in a critical section.            *)
LockInv ==
    /\ \A t \in Threads : pc[t] \in {"scan", "insert"} <=> writer = t
    /\ \A t \in Threads : pc[t] \in {"lookup", "construct"} <=> t \in readers
    /\ writer # Null => readers = {}

(* Only the runner of mq_init_() is in it; calls made from there return    *)
(* there, and the mq_create_() it has to finish is not forgotten.          *)
OnceInv ==
    /\ once = "running" <=> runner # Null
    /\ once = "done" => booted = Len(Builtins)
    /\ \A t \in Threads : pc[t] = "init" => runner = t
    /\ \A t \in Threads : runner = t => uri[t] \in Schemes
    /\ \A t \in Threads :
          pc[t] \in {"idle", "once", "rdlock", "lookup", "construct"} => runner # t
    /\ \A t \in Threads :
          pc[t] \in {"rdlock", "lookup", "construct"} => once = "done"

(* The registration call of each thread, its arguments and its locals.     *)
CallFrame(t) ==
    /\ pc[t] \in {"wrlock", "scan", "insert"} <=> op[t] # "none"
    /\ pc[t] = "insert" => op[t] = "register"
    /\ op[t] = "register" => arg[t] \in Slot
    /\ op[t] = "unregister" => arg[t].scheme \in Schemes
    /\ op[t] = "unregister_constructor" => arg[t].construct \in Constructors
    /\ pc[t] \notin {"scan", "insert", "lookup", "construct"} => c[t] = 1
    /\ pc[t] \notin {"scan", "insert"} => spare[t] = 0
    /\ ~(pc[t] = "scan" /\ op[t] \in PurgeOps) => count[t] = 0
    /\ pc[t] \in {"once", "rdlock", "lookup", "construct"} => uri[t] \in Schemes

CallInv == \A t \in Threads : CallFrame(t)

(* What the loop of mq_register_internal_() has established of the slots   *)
(* before c.                                                               *)
RegisterLoop(t) ==
    pc[t] \in {"scan", "insert"} /\ op[t] = "register" =>
       /\ c[t] <= Len(engines) + 1
       /\ pc[t] = "insert" => c[t] = Len(engines) + 1
       /\ \A i \in 1..(c[t] - 1) : engines[i].scheme # arg[t].scheme
       /\ spare[t] = 0 => \A i \in 1..(c[t] - 1) : ~Vacant(engines[i])
       /\ spare[t] # 0 => spare[t] \in 1..(c[t] - 1) /\ Vacant(engines[spare[t]])

RegisterInv == \A t \in Threads : RegisterLoop(t)

(* What the removal loops have established: nothing before c still matches.*)
RemoveLoop(t) ==
    /\ pc[t] = "scan" /\ op[t] = "unregister" =>
          /\ c[t] <= Len(engines) + 1
          /\ \A i \in 1..(c[t] - 1) : ~UnregisterMatch(engines[i], arg[t])
    /\ pc[t] = "scan" /\ op[t] \in PurgeOps =>
          /\ c[t] <= Len(engines) + 1
          /\ \A i \in 1..(c[t] - 1) : ~PurgeMatch(engines[i], op[t], arg[t])

RemoveInv == \A t \in Threads : RemoveLoop(t)

(* What the look-up loop has established, and that the engine it found is  *)
(* the one in the slot.                                                    *)
LookupLoop(t) ==
    /\ pc[t] \in {"lookup", "construct"} =>
          /\ c[t] <= Len(engines) + 1
          /\ \A i \in 1..(c[t] - 1) : engines[i].scheme # uri[t]
    /\ pc[t] = "construct" =>
          c[t] <= Len(engines) /\ found[t] = engines[c[t]] /\ found[t] \in Slot

LookupInv == \A t \in Threads : LookupLoop(t)

(* The invariants above are inductive together: uniqueness needs what the  *)
(* loop has seen, which stays true because the lock excludes the others.   *)
IInv ==
    /\ TypeOK
    /\ LockInv
    /\ OnceInv
    /\ CallInv
    /\ RegisterInv
    /\ RemoveInv
    /\ LookupInv
    /\ SchemesUnique
    /\ SlotsBounded

-----------------------------------------------------------------------------
(* The table implements the map of EngineMap.                              *)

(* A removal takes effect when it acquires the lock: from then on the map  *)
(* does not show the engines it is going to clear.                         *)
Doomed(slot) == writer # Null /\ PurgeMatch(slot, op[writer], arg[writer])

Shown(s) == {i \in Occupied : engines[i].scheme = s /\ ~Doomed(engines[i])}

AnyOf(S) == CHOOSE i \in S : TRUE

regBar ==
    [s \in Schemes |-> IF Shown(s) = {} THEN EmptySlot ELSE engines[AnyOf(Shown(s))]]

(* The schemes a removal has still to clear.                               *)
Pending(t) ==
    {s \in Schemes : \E i \in c[t]..Len(engines) :
                        engines[i].scheme = s /\ PurgeMatch(engines[i], op[t], arg[t])}

tallyBar ==
    [t \in Threads |-> IF writer = t /\ op[t] \in PurgeOps
                       THEN count[t] + Cardinality(Pending(t)) ELSE 0]

Map == INSTANCE EngineMap WITH reg <- regBar, tally <- tallyBar

(* Every call on the table takes effect at one instant, as the map says,   *)
(* and returns what the map says: libmq-engine.h's mq_register(),          *)
(* mq_unregister(), mq_unregister_constructor(), mq_unregister_all(), and  *)
(* the look-up of mq_create_().                                            *)
MapSpec == Map!Spec
=============================================================================
