------------------------ MODULE EngineRegistryProofs ------------------------
(***************************************************************************)
(* The invariants of EngineRegistry, for any number of threads, schemes,   *)
(* constructors and handles.                                               *)
(*                                                                         *)
(* The table is safe because its writers exclude one another and the       *)
(* readers: what the loop of one thread has seen of the slots is still     *)
(* true when it acts on it.  RegisterInv, RemoveInv and LookupInv say what *)
(* has been seen, LockInv that nobody changes it, CallInv and OnceInv that *)
(* the threads are where these say.  Each part of IInv has a lemma below;  *)
(* `t' is the thread that makes the step and `u' any thread.               *)
(***************************************************************************)
EXTENDS EngineRegistry, TLAPS, FiniteSetTheorems

-----------------------------------------------------------------------------
(* What a step leaves alone.                                               *)

(* The locals of a function are those of its thread.                       *)
LEMMA OthersKept ==
    ASSUME TypeOK, NEW t \in Threads, Call(t) \/ Step(t),
           NEW u \in Threads, u # t
    PROVE  UNCHANGED <<pc[u], op[u], arg[u], uri[u], c[u], spare[u], count[u], found[u]>>
<1>1. /\ pc \in [Threads -> PCs] /\ op \in [Threads -> Ops]
      /\ arg \in [Threads -> Args] /\ uri \in [Threads -> Schemes \cup {Null}]
      /\ c \in [Threads -> Nat \ {0}] /\ spare \in [Threads -> Nat]
      /\ count \in [Threads -> Nat]
      /\ found \in [Threads -> Slot \cup {EmptySlot, Null}]
  BY DEF TypeOK
<1> QED
  BY <1>1
  DEF Call, Step, TableStep, CallRegister, CallUnregister,
      CallUnregisterConstructor, CallUnregisterAll, CallCreate, WrLock,
      RegisterSpare, RegisterReplace, RegisterSkip, RegisterAbsent,
      RegisterNoMemory, RegisterInsert, UnregisterClear, UnregisterSkip,
      UnregisterAbsent, PurgeClear, PurgeSkip, PurgeDone, OnceRun, OnceSkip,
      InitBuiltin, RdLock, LookupHit, LookupSkip, LookupMiss, Construct,
      ConstructFails, InitDone, Collect, Invoke, Return, NextSlot, EndCreate

(* Only four actions write to the table, all of them under the write lock. *)
LEMMA TableWriters ==
    ASSUME NEW t \in Threads, Call(t) \/ Step(t)
    PROVE  \/ engines' = engines
           \/ RegisterReplace(t) \/ RegisterInsert(t)
           \/ UnregisterClear(t) \/ PurgeClear(t)
  BY
  DEF Call, Step, TableStep, CallRegister, CallUnregister,
      CallUnregisterConstructor, CallUnregisterAll, CallCreate, WrLock,
      RegisterSpare, RegisterReplace, RegisterSkip, RegisterAbsent,
      RegisterNoMemory, RegisterInsert, UnregisterClear, UnregisterSkip,
      UnregisterAbsent, PurgeClear, PurgeSkip, PurgeDone, OnceRun, OnceSkip,
      InitBuiltin, RdLock, LookupHit, LookupSkip, LookupMiss, Construct,
      ConstructFails, InitDone, Collect, Invoke, Return, NextSlot, EndCreate

(* The table does not change under a thread that looks at it.              *)
LEMMA TableKept ==
    ASSUME LockInv, NEW t \in Threads, Call(t) \/ Step(t),
           NEW u \in Threads, u # t,
           pc[u] \in {"scan", "insert", "lookup", "construct"}
    PROVE  engines' = engines
<1>1. pc[t] \notin {"scan", "insert"}
  BY RegistryAssumption DEF LockInv
<1> QED
  BY <1>1, TableWriters
  DEF RegisterReplace, RegisterInsert, UnregisterClear, PurgeClear, InLoop

-----------------------------------------------------------------------------
(* Types.                                                                  *)

LEMMA ArgsBuilt ==
    /\ EmptySlot \in Args /\ Slot \subseteq Args
    /\ \A s \in Schemes, h \in Handles :
          [EmptySlot EXCEPT !.scheme = s, !.handle = h] \in Args
    /\ \A k \in Constructors : [EmptySlot EXCEPT !.construct = k] \in Args
    /\ \A h \in Handles : [EmptySlot EXCEPT !.handle = h] \in Args
  BY RegistryAssumption DEF EmptySlot, Slot, Args

LEMMA LenType ==
    ASSUME TypeOK
    PROVE  Len(engines) \in Nat
<1>1. engines \in Seq(Slot \cup {EmptySlot})
  BY DEF TypeOK
<1> QED
  BY <1>1

LEMMA InvokeType ==
    ASSUME TypeOK, NEW t \in Threads, NEW o \in Ops, NEW a \in Args,
           Invoke(t, o, a), booted' \in 0..Len(Builtins)
    PROVE  TypeOK'
  BY DEF TypeOK, Invoke, PCs

LEMMA ReturnType ==
    ASSUME TypeOK, NEW t \in Threads, NEW r \in Int, Return(t, r),
           engines' \in Seq(Slot \cup {EmptySlot})
    PROVE  TypeOK'
<1>1. EmptySlot \in Args
  BY ArgsBuilt
<1> QED
  BY <1>1 DEF TypeOK, Return, PCs, Ops

LEMMA NextSlotType ==
    ASSUME TypeOK, NEW t \in Threads, NextSlot(t),
           engines' \in Seq(Slot \cup {EmptySlot}),
           spare' \in [Threads -> Nat], count' \in [Threads -> Nat]
    PROVE  TypeOK'
<1>1. c \in [Threads -> Nat \ {0}]
  BY DEF TypeOK
<1>2. c[t] + 1 \in Nat \ {0}
  BY <1>1
<1>3. c' \in [Threads -> Nat \ {0}]
  BY <1>1, <1>2 DEF NextSlot
<1> QED
  BY <1>3 DEF TypeOK, NextSlot

LEMMA EndCreateType ==
    ASSUME TypeOK, NEW t \in Threads, NEW f \in Slot \cup {EmptySlot, Null},
           EndCreate(t, f)
    PROVE  TypeOK'
<1>1. c' \in [Threads -> Nat \ {0}]
  BY DEF TypeOK, EndCreate
<1> QED
  BY <1>1 DEF TypeOK, EndCreate, PCs

(* The four writers put whole slots or empty ones into the table.          *)
LEMMA TableType ==
    ASSUME TypeOK, CallInv, RegisterInv, NEW t \in Threads, Call(t) \/ Step(t)
    PROVE  engines' \in Seq(Slot \cup {EmptySlot})
<1>0. /\ engines \in Seq(Slot \cup {EmptySlot})
      /\ c[t] \in Nat \ {0} /\ spare[t] \in Nat
  BY DEF TypeOK
<1>1. CASE engines' = engines
  BY <1>0, <1>1
<1>2. CASE RegisterReplace(t)
  <2> DEFINE slot == [engines[c[t]] EXCEPT !.construct = arg[t].construct,
                                           !.handle = arg[t].handle]
  <2>1. arg[t] \in Slot /\ c[t] \in 1..Len(engines)
    BY <1>0, <1>2 DEF CallInv, CallFrame, RegisterReplace, InLoop
  <2>2. engines[c[t]] \in Slot
    BY <1>0, <1>2, <2>1, RegistryAssumption DEF RegisterReplace, Slot, EmptySlot
  <2>3. slot \in Slot
    BY <2>1, <2>2 DEF Slot
  <2>4. engines' = [engines EXCEPT ![c[t]] = slot]
    BY <1>2 DEF RegisterReplace
  <2> HIDE DEF slot
  <2> QED
    BY <1>0, <2>1, <2>3, <2>4
<1>3. CASE RegisterInsert(t)
  <2>1. arg[t] \in Slot /\ (spare[t] # 0 => spare[t] \in 1..Len(engines))
    BY <1>0, <1>3
    DEF CallInv, CallFrame, RegisterInv, RegisterLoop, RegisterInsert
  <2>2. CASE spare[t] = 0
    BY <1>0, <1>3, <2>1, <2>2 DEF RegisterInsert
  <2>3. CASE spare[t] # 0
    BY <1>0, <1>3, <2>1, <2>3 DEF RegisterInsert
  <2> QED
    BY <2>2, <2>3
<1>4. CASE UnregisterClear(t) \/ PurgeClear(t)
  BY <1>0, <1>4 DEF UnregisterClear, PurgeClear, InLoop
<1> QED
  BY <1>1, <1>2, <1>3, <1>4, TableWriters

LEMMA TypeStep ==
    ASSUME TypeOK, CallInv, RegisterInv, LookupInv,
           NEW t \in Threads, Call(t) \/ Step(t)
    PROVE  TypeOK'
<1>1. engines' \in Seq(Slot \cup {EmptySlot})
  BY TableType
<1>2. CASE CallRegister(t) \/ CallUnregister(t)
  BY <1>2, ArgsBuilt, InvokeType
  DEF CallRegister, CallUnregister, Ops, TypeOK
<1>3. CASE CallUnregisterConstructor(t) \/ CallUnregisterAll(t)
  BY <1>3, ArgsBuilt, InvokeType
  DEF CallUnregisterConstructor, CallUnregisterAll, Ops, TypeOK
<1>4. CASE InitBuiltin(t)
  <2>1. [scheme    |-> Builtins[booted + 1],
         construct |-> BuiltinConstructor,
         handle    |-> Null] \in Slot
    BY <1>4, RegistryAssumption DEF InitBuiltin, TypeOK, Slot
  <2>2. booted' \in 0..Len(Builtins)
    BY <1>4, RegistryAssumption DEF InitBuiltin, TypeOK
  <2> QED
    BY <1>4, <2>1, <2>2, ArgsBuilt, InvokeType DEF InitBuiltin, Ops
<1>5. CASE RegisterReplace(t) \/ RegisterNoMemory(t) \/ RegisterInsert(t)
  BY <1>1, <1>5, ReturnType DEF RegisterReplace, RegisterNoMemory, RegisterInsert
<1>6. CASE UnregisterClear(t) \/ UnregisterAbsent(t) \/ PurgeDone(t)
  <2>1. count[t] \in Int
    BY DEF TypeOK
  <2> QED
    BY <1>1, <1>6, <2>1, ReturnType DEF UnregisterClear, UnregisterAbsent, PurgeDone
<1>7. CASE RegisterSpare(t) \/ RegisterSkip(t)
  <2>1. spare' \in [Threads -> Nat] /\ count' \in [Threads -> Nat]
    BY <1>7 DEF TypeOK, RegisterSpare, RegisterSkip
  <2> QED
    BY <1>1, <1>7, <2>1, NextSlotType DEF RegisterSpare, RegisterSkip
<1>8. CASE UnregisterSkip(t) \/ PurgeSkip(t) \/ LookupSkip(t)
  <2>1. spare' \in [Threads -> Nat] /\ count' \in [Threads -> Nat]
    BY <1>8 DEF TypeOK, UnregisterSkip, PurgeSkip, LookupSkip
  <2> QED
    BY <1>1, <1>8, <2>1, NextSlotType DEF UnregisterSkip, PurgeSkip, LookupSkip
<1>9. CASE LookupHit(t)
  <2>1. engines[c[t]] \in Slot \cup {EmptySlot}
    BY <1>9 DEF TypeOK, LookupHit
  <2> QED
    BY <1>9, <2>1 DEF TypeOK, LookupHit, PCs
<1>10. CASE LookupMiss(t) \/ Construct(t) \/ ConstructFails(t)
  <2>1. found[t] \in Slot \cup {EmptySlot, Null}
    BY DEF TypeOK
  <2> QED
    BY <1>10, <2>1, EndCreateType DEF LookupMiss, Construct, ConstructFails
<1>11. CASE CallCreate(t)
  BY <1>11 DEF TypeOK, CallCreate, PCs
<1>16. CASE WrLock(t)
  BY <1>16 DEF TypeOK, WrLock, PCs
<1>12. CASE RegisterAbsent(t) \/ RdLock(t)
  BY <1>12 DEF TypeOK, RegisterAbsent, RdLock, PCs
<1>13. CASE OnceRun(t) \/ OnceSkip(t)
  BY <1>13 DEF TypeOK, OnceRun, OnceSkip, PCs
<1>14. CASE InitDone(t) \/ Collect(t)
  BY <1>14 DEF TypeOK, InitDone, Collect, PCs
<1>15. CASE PurgeClear(t)
  <2>1. count[t] + 1 \in Nat
    BY DEF TypeOK
  <2>2. spare' \in [Threads -> Nat] /\ count' \in [Threads -> Nat]
    BY <1>15, <2>1 DEF TypeOK, PurgeClear
  <2> QED
    BY <1>1, <1>15, <2>2, NextSlotType DEF PurgeClear
<1> QED
  BY <1>2, <1>3, <1>4, <1>5, <1>6, <1>7, <1>8, <1>9, <1>10, <1>11, <1>12,
     <1>13, <1>14, <1>15, <1>16
  DEF Call, Step, TableStep

-----------------------------------------------------------------------------
(* Where the threads are.                                                  *)

LEMMA LockStep ==
    ASSUME TypeOK, LockInv, CallInv, NEW t \in Threads, Call(t) \/ Step(t)
    PROVE  LockInv'
<1>0. /\ pc \in [Threads -> PCs] /\ op \in [Threads -> Ops]
      /\ writer \in Threads \cup {Null} /\ readers \in SUBSET Threads
  BY DEF TypeOK
<1>1. CASE CallRegister(t)
  BY <1>1, <1>0, RegistryAssumption
  DEF CallRegister, MayCall, Invoke, PCs, LockInv, CallInv
<1>2. CASE CallUnregister(t)
  BY <1>2, <1>0, RegistryAssumption
  DEF CallUnregister, MayCall, Invoke, PCs, LockInv, CallInv
<1>3. CASE CallUnregisterConstructor(t)
  BY <1>3, <1>0, RegistryAssumption
  DEF CallUnregisterConstructor, MayCall, Invoke, PCs, LockInv, CallInv
<1>4. CASE CallUnregisterAll(t)
  BY <1>4, <1>0, RegistryAssumption
  DEF CallUnregisterAll, MayCall, Invoke, PCs, LockInv, CallInv
<1>5. CASE CallCreate(t)
  BY <1>5, <1>0, RegistryAssumption
  DEF CallCreate, PCs, LockInv, CallInv
<1>6. CASE WrLock(t)
  BY <1>6, <1>0, RegistryAssumption
  DEF WrLock, PCs, LockInv, CallInv
<1>7. CASE RegisterSpare(t)
  BY <1>7, <1>0, RegistryAssumption
  DEF RegisterSpare, InLoop, NextSlot, PCs, LockInv, CallInv
<1>8. CASE RegisterReplace(t)
  BY <1>8, <1>0, RegistryAssumption
  DEF RegisterReplace, InLoop, Return, PCs, LockInv, CallInv
<1>9. CASE RegisterSkip(t)
  BY <1>9, <1>0, RegistryAssumption
  DEF RegisterSkip, InLoop, NextSlot, PCs, LockInv, CallInv
<1>10. CASE RegisterAbsent(t)
  BY <1>10, <1>0, RegistryAssumption
  DEF RegisterAbsent, LoopDone, PCs, LockInv, CallInv
<1>11. CASE RegisterNoMemory(t)
  BY <1>11, <1>0, RegistryAssumption
  DEF RegisterNoMemory, Return, PCs, LockInv, CallInv
<1>12. CASE RegisterInsert(t)
  BY <1>12, <1>0, RegistryAssumption
  DEF RegisterInsert, Return, PCs, LockInv, CallInv
<1>13. CASE UnregisterClear(t)
  BY <1>13, <1>0, RegistryAssumption
  DEF UnregisterClear, InLoop, Return, PCs, LockInv, CallInv
<1>14. CASE UnregisterSkip(t)
  BY <1>14, <1>0, RegistryAssumption
  DEF UnregisterSkip, InLoop, NextSlot, PCs, LockInv, CallInv
<1>15. CASE UnregisterAbsent(t)
  BY <1>15, <1>0, RegistryAssumption
  DEF UnregisterAbsent, LoopDone, Return, PCs, LockInv, CallInv
<1>16. CASE PurgeClear(t)
  BY <1>16, <1>0, RegistryAssumption
  DEF PurgeClear, InLoop, NextSlot, PCs, LockInv, CallInv
<1>17. CASE PurgeSkip(t)
  BY <1>17, <1>0, RegistryAssumption
  DEF PurgeSkip, InLoop, NextSlot, PCs, LockInv, CallInv
<1>18. CASE PurgeDone(t)
  BY <1>18, <1>0, RegistryAssumption
  DEF PurgeDone, LoopDone, Return, PCs, LockInv, CallInv
<1>19. CASE OnceRun(t)
  BY <1>19, <1>0, RegistryAssumption
  DEF OnceRun, PCs, LockInv, CallInv
<1>20. CASE OnceSkip(t)
  BY <1>20, <1>0, RegistryAssumption
  DEF OnceSkip, PCs, LockInv, CallInv
<1>21. CASE InitBuiltin(t)
  BY <1>21, <1>0, RegistryAssumption
  DEF InitBuiltin, Invoke, PCs, LockInv, CallInv
<1>22. CASE RdLock(t)
  BY <1>22, <1>0, RegistryAssumption
  DEF RdLock, PCs, LockInv, CallInv
<1>23. CASE LookupHit(t)
  BY <1>23, <1>0, RegistryAssumption
  DEF LookupHit, PCs, LockInv, CallInv
<1>24. CASE LookupSkip(t)
  BY <1>24, <1>0, RegistryAssumption
  DEF LookupSkip, NextSlot, PCs, LockInv, CallInv
<1>25. CASE LookupMiss(t)
  BY <1>25, <1>0, RegistryAssumption
  DEF LookupMiss, EndCreate, PCs, LockInv, CallInv
<1>26. CASE Construct(t)
  BY <1>26, <1>0, RegistryAssumption
  DEF Construct, EndCreate, PCs, LockInv, CallInv
<1>27. CASE ConstructFails(t)
  BY <1>27, <1>0, RegistryAssumption
  DEF ConstructFails, EndCreate, PCs, LockInv, CallInv
<1>28. CASE InitDone(t)
  BY <1>28, <1>0, RegistryAssumption
  DEF InitDone, PCs, LockInv, CallInv
<1>29. CASE Collect(t)
  BY <1>29, <1>0, RegistryAssumption
  DEF Collect, PCs, LockInv, CallInv
<1> QED
  BY <1>1, <1>2, <1>3, <1>4, <1>5, <1>6, <1>7, <1>8, <1>9, <1>10, <1>11,
     <1>12, <1>13, <1>14, <1>15, <1>16, <1>17, <1>18, <1>19, <1>20, <1>21,
     <1>22, <1>23, <1>24, <1>25, <1>26, <1>27, <1>28, <1>29
  DEF Call, Step, TableStep

LEMMA OnceStep ==
    ASSUME TypeOK, LockInv, OnceInv, CallInv, NEW t \in Threads, Call(t) \/ Step(t)
    PROVE  OnceInv'
<1>0. /\ pc \in [Threads -> PCs] /\ booted \in 0..Len(Builtins)
      /\ once \in {"fresh", "running", "done"} /\ runner \in Threads \cup {Null}
      /\ uri \in [Threads -> Schemes \cup {Null}]
  BY DEF TypeOK
<1>a. pc[t] = "once" => uri[t] \in Schemes
  BY DEF CallInv, CallFrame
<1>1. CASE CallRegister(t)
  BY <1>1, <1>0, <1>a, RegistryAssumption
  DEF CallRegister, MayCall, Invoke, PCs, LockInv, OnceInv
<1>2. CASE CallUnregister(t)
  BY <1>2, <1>0, <1>a, RegistryAssumption
  DEF CallUnregister, MayCall, Invoke, PCs, LockInv, OnceInv
<1>3. CASE CallUnregisterConstructor(t)
  BY <1>3, <1>0, <1>a, RegistryAssumption
  DEF CallUnregisterConstructor, MayCall, Invoke, PCs, LockInv, OnceInv
<1>4. CASE CallUnregisterAll(t)
  BY <1>4, <1>0, <1>a, RegistryAssumption
  DEF CallUnregisterAll, MayCall, Invoke, PCs, LockInv, OnceInv
<1>5. CASE CallCreate(t)
  BY <1>5, <1>0, <1>a, RegistryAssumption
  DEF CallCreate, PCs, LockInv, OnceInv
<1>6. CASE WrLock(t)
  BY <1>6, <1>0, <1>a, RegistryAssumption
  DEF WrLock, PCs, LockInv, OnceInv
<1>7. CASE RegisterSpare(t)
  BY <1>7, <1>0, <1>a, RegistryAssumption
  DEF RegisterSpare, InLoop, NextSlot, PCs, LockInv, OnceInv
<1>8. CASE RegisterReplace(t)
  BY <1>8, <1>0, <1>a, RegistryAssumption
  DEF RegisterReplace, InLoop, Return, PCs, LockInv, OnceInv
<1>9. CASE RegisterSkip(t)
  BY <1>9, <1>0, <1>a, RegistryAssumption
  DEF RegisterSkip, InLoop, NextSlot, PCs, LockInv, OnceInv
<1>10. CASE RegisterAbsent(t)
  BY <1>10, <1>0, <1>a, RegistryAssumption
  DEF RegisterAbsent, LoopDone, PCs, LockInv, OnceInv
<1>11. CASE RegisterNoMemory(t)
  BY <1>11, <1>0, <1>a, RegistryAssumption
  DEF RegisterNoMemory, Return, PCs, LockInv, OnceInv
<1>12. CASE RegisterInsert(t)
  BY <1>12, <1>0, <1>a, RegistryAssumption
  DEF RegisterInsert, Return, PCs, LockInv, OnceInv
<1>13. CASE UnregisterClear(t)
  BY <1>13, <1>0, <1>a, RegistryAssumption
  DEF UnregisterClear, InLoop, Return, PCs, LockInv, OnceInv
<1>14. CASE UnregisterSkip(t)
  BY <1>14, <1>0, <1>a, RegistryAssumption
  DEF UnregisterSkip, InLoop, NextSlot, PCs, LockInv, OnceInv
<1>15. CASE UnregisterAbsent(t)
  BY <1>15, <1>0, <1>a, RegistryAssumption
  DEF UnregisterAbsent, LoopDone, Return, PCs, LockInv, OnceInv
<1>16. CASE PurgeClear(t)
  BY <1>16, <1>0, <1>a, RegistryAssumption
  DEF PurgeClear, InLoop, NextSlot, PCs, LockInv, OnceInv
<1>17. CASE PurgeSkip(t)
  BY <1>17, <1>0, <1>a, RegistryAssumption
  DEF PurgeSkip, InLoop, NextSlot, PCs, LockInv, OnceInv
<1>18. CASE PurgeDone(t)
  BY <1>18, <1>0, <1>a, RegistryAssumption
  DEF PurgeDone, LoopDone, Return, PCs, LockInv, OnceInv
<1>19. CASE OnceRun(t)
  BY <1>19, <1>0, <1>a, RegistryAssumption
  DEF OnceRun, PCs, LockInv, OnceInv
<1>20. CASE OnceSkip(t)
  BY <1>20, <1>0, <1>a, RegistryAssumption
  DEF OnceSkip, PCs, LockInv, OnceInv
<1>21. CASE InitBuiltin(t)
  BY <1>21, <1>0, <1>a, RegistryAssumption
  DEF InitBuiltin, Invoke, PCs, LockInv, OnceInv
<1>22. CASE RdLock(t)
  BY <1>22, <1>0, <1>a, RegistryAssumption
  DEF RdLock, PCs, LockInv, OnceInv
<1>23. CASE LookupHit(t)
  BY <1>23, <1>0, <1>a, RegistryAssumption
  DEF LookupHit, PCs, LockInv, OnceInv
<1>24. CASE LookupSkip(t)
  BY <1>24, <1>0, <1>a, RegistryAssumption
  DEF LookupSkip, NextSlot, PCs, LockInv, OnceInv
<1>25. CASE LookupMiss(t)
  BY <1>25, <1>0, <1>a, RegistryAssumption
  DEF LookupMiss, EndCreate, PCs, LockInv, OnceInv
<1>26. CASE Construct(t)
  BY <1>26, <1>0, <1>a, RegistryAssumption
  DEF Construct, EndCreate, PCs, LockInv, OnceInv
<1>27. CASE ConstructFails(t)
  BY <1>27, <1>0, <1>a, RegistryAssumption
  DEF ConstructFails, EndCreate, PCs, LockInv, OnceInv
<1>28. CASE InitDone(t)
  BY <1>28, <1>0, <1>a, RegistryAssumption
  DEF InitDone, PCs, LockInv, OnceInv
<1>29. CASE Collect(t)
  BY <1>29, <1>0, <1>a, RegistryAssumption
  DEF Collect, PCs, LockInv, OnceInv
<1> QED
  BY <1>1, <1>2, <1>3, <1>4, <1>5, <1>6, <1>7, <1>8, <1>9, <1>10, <1>11,
     <1>12, <1>13, <1>14, <1>15, <1>16, <1>17, <1>18, <1>19, <1>20, <1>21,
     <1>22, <1>23, <1>24, <1>25, <1>26, <1>27, <1>28, <1>29
  DEF Call, Step, TableStep

LEMMA CallStep ==
    ASSUME TypeOK, OnceInv, CallInv, NEW t \in Threads, Call(t) \/ Step(t)
    PROVE  CallInv'
<1> SUFFICES ASSUME NEW u \in Threads
             PROVE  CallFrame(u)'
  BY DEF CallInv
<1>0. /\ pc \in [Threads -> PCs] /\ op \in [Threads -> Ops]
      /\ arg \in [Threads -> Args] /\ uri \in [Threads -> Schemes \cup {Null}]
      /\ c \in [Threads -> Nat \ {0}] /\ spare \in [Threads -> Nat]
      /\ count \in [Threads -> Nat] /\ booted \in 0..Len(Builtins)
  BY DEF TypeOK
<1>a. CASE u # t
  BY <1>a, OthersKept DEF CallInv, CallFrame
<1> SUFFICES ASSUME u = t
             PROVE  CallFrame(t)'
  BY <1>a
<1>b. /\ CallFrame(t)
      /\ pc[t] = "init" => uri[t] \in Schemes
  BY DEF CallInv, OnceInv
<1>1. CASE CallRegister(t)
  BY <1>1, <1>0, <1>b, RegistryAssumption
  DEF CallRegister, MayCall, Invoke, PCs, Ops, PurgeOps, CallFrame, Slot
<1>2. CASE CallUnregister(t)
  BY <1>2, <1>0, <1>b, RegistryAssumption
  DEF CallUnregister, MayCall, Invoke, PCs, Ops, PurgeOps, CallFrame, Slot
<1>3. CASE CallUnregisterConstructor(t)
  BY <1>3, <1>0, <1>b, RegistryAssumption
  DEF CallUnregisterConstructor, MayCall, Invoke, PCs, Ops, PurgeOps,
      CallFrame, Slot
<1>4. CASE CallUnregisterAll(t)
  BY <1>4, <1>0, <1>b, RegistryAssumption
  DEF CallUnregisterAll, MayCall, Invoke, PCs, Ops, PurgeOps, CallFrame, Slot
<1>5. CASE CallCreate(t)
  BY <1>5, <1>0, <1>b, RegistryAssumption
  DEF CallCreate, PCs, Ops, PurgeOps, CallFrame, Slot
<1>6. CASE WrLock(t)
  BY <1>6, <1>0, <1>b, RegistryAssumption
  DEF WrLock, PCs, Ops, PurgeOps, CallFrame, Slot
<1>7. CASE RegisterSpare(t)
  BY <1>7, <1>0, <1>b, RegistryAssumption
  DEF RegisterSpare, InLoop, NextSlot, PCs, Ops, PurgeOps, CallFrame, Slot
<1>8. CASE RegisterReplace(t)
  BY <1>8, <1>0, <1>b, RegistryAssumption
  DEF RegisterReplace, InLoop, Return, PCs, Ops, PurgeOps, CallFrame, Slot
<1>9. CASE RegisterSkip(t)
  BY <1>9, <1>0, <1>b, RegistryAssumption
  DEF RegisterSkip, InLoop, NextSlot, PCs, Ops, PurgeOps, CallFrame, Slot
<1>10. CASE RegisterAbsent(t)
  BY <1>10, <1>0, <1>b, RegistryAssumption
  DEF RegisterAbsent, LoopDone, PCs, Ops, PurgeOps, CallFrame, Slot
<1>11. CASE RegisterNoMemory(t)
  BY <1>11, <1>0, <1>b, RegistryAssumption
  DEF RegisterNoMemory, Return, PCs, Ops, PurgeOps, CallFrame, Slot
<1>12. CASE RegisterInsert(t)
  BY <1>12, <1>0, <1>b, RegistryAssumption
  DEF RegisterInsert, Return, PCs, Ops, PurgeOps, CallFrame, Slot
<1>13. CASE UnregisterClear(t)
  BY <1>13, <1>0, <1>b, RegistryAssumption
  DEF UnregisterClear, InLoop, Return, PCs, Ops, PurgeOps, CallFrame, Slot
<1>14. CASE UnregisterSkip(t)
  BY <1>14, <1>0, <1>b, RegistryAssumption
  DEF UnregisterSkip, InLoop, NextSlot, PCs, Ops, PurgeOps, CallFrame, Slot
<1>15. CASE UnregisterAbsent(t)
  BY <1>15, <1>0, <1>b, RegistryAssumption
  DEF UnregisterAbsent, LoopDone, Return, PCs, Ops, PurgeOps, CallFrame, Slot
<1>16. CASE PurgeClear(t)
  BY <1>16, <1>0, <1>b, RegistryAssumption
  DEF PurgeClear, InLoop, NextSlot, PCs, Ops, PurgeOps, CallFrame, Slot
<1>17. CASE PurgeSkip(t)
  BY <1>17, <1>0, <1>b, RegistryAssumption
  DEF PurgeSkip, InLoop, NextSlot, PCs, Ops, PurgeOps, CallFrame, Slot
<1>18. CASE PurgeDone(t)
  BY <1>18, <1>0, <1>b, RegistryAssumption
  DEF PurgeDone, LoopDone, Return, PCs, Ops, PurgeOps, CallFrame, Slot
<1>19. CASE OnceRun(t)
  BY <1>19, <1>0, <1>b, RegistryAssumption
  DEF OnceRun, PCs, Ops, PurgeOps, CallFrame, Slot
<1>20. CASE OnceSkip(t)
  BY <1>20, <1>0, <1>b, RegistryAssumption
  DEF OnceSkip, PCs, Ops, PurgeOps, CallFrame, Slot
<1>21. CASE InitBuiltin(t)
  BY <1>21, <1>0, <1>b, RegistryAssumption
  DEF InitBuiltin, Invoke, PCs, Ops, PurgeOps, CallFrame, Slot
<1>22. CASE RdLock(t)
  BY <1>22, <1>0, <1>b, RegistryAssumption
  DEF RdLock, PCs, Ops, PurgeOps, CallFrame, Slot
<1>23. CASE LookupHit(t)
  BY <1>23, <1>0, <1>b, RegistryAssumption
  DEF LookupHit, PCs, Ops, PurgeOps, CallFrame, Slot
<1>24. CASE LookupSkip(t)
  BY <1>24, <1>0, <1>b, RegistryAssumption
  DEF LookupSkip, NextSlot, PCs, Ops, PurgeOps, CallFrame, Slot
<1>25. CASE LookupMiss(t)
  BY <1>25, <1>0, <1>b, RegistryAssumption
  DEF LookupMiss, EndCreate, PCs, Ops, PurgeOps, CallFrame, Slot
<1>26. CASE Construct(t)
  BY <1>26, <1>0, <1>b, RegistryAssumption
  DEF Construct, EndCreate, PCs, Ops, PurgeOps, CallFrame, Slot
<1>27. CASE ConstructFails(t)
  <2>1. /\ pc[t] = "construct" /\ pc'[t] = "return" /\ c'[t] = 1
        /\ UNCHANGED <<op, arg, spare, count>>
    BY <1>27, <1>0 DEF ConstructFails, EndCreate
  <2> QED
    BY <1>b, <2>1 DEF CallFrame, PurgeOps
<1>28. CASE InitDone(t)
  BY <1>28, <1>0, <1>b, RegistryAssumption
  DEF InitDone, PCs, Ops, PurgeOps, CallFrame, Slot
<1>29. CASE Collect(t)
  BY <1>29, <1>0, <1>b, RegistryAssumption
  DEF Collect, PCs, Ops, PurgeOps, CallFrame, Slot
<1> QED
  BY <1>1, <1>2, <1>3, <1>4, <1>5, <1>6, <1>7, <1>8, <1>9, <1>10, <1>11,
     <1>12, <1>13, <1>14, <1>15, <1>16, <1>17, <1>18, <1>19, <1>20, <1>21,
     <1>22, <1>23, <1>24, <1>25, <1>26, <1>27, <1>28, <1>29
  DEF Call, Step, TableStep

-----------------------------------------------------------------------------
(* What the loops have seen.                                               *)

LEMMA RegisterStep ==
    ASSUME TypeOK, LockInv, CallInv, RegisterInv,
           NEW t \in Threads, Call(t) \/ Step(t)
    PROVE  RegisterInv'
<1> SUFFICES ASSUME NEW u \in Threads
             PROVE  RegisterLoop(u)'
  BY DEF RegisterInv
<1>0. /\ pc \in [Threads -> PCs] /\ op \in [Threads -> Ops]
      /\ c \in [Threads -> Nat \ {0}] /\ spare \in [Threads -> Nat]
      /\ arg \in [Threads -> Args] /\ Len(engines) \in Nat
  BY LenType DEF TypeOK
<1>1. RegisterLoop(u) /\ CallFrame(t)
  BY DEF RegisterInv, CallInv
<1>2. CASE u # t
  BY <1>1, <1>2, OthersKept, TableKept DEF RegisterLoop, Vacant
<1>3. CASE u = t /\ WrLock(t)
  <2>1. c[t] = 1 /\ spare[t] = 0
    BY <1>1, <1>3 DEF CallFrame, WrLock
  <2> QED
    BY <1>0, <1>3, <2>1 DEF RegisterLoop, WrLock
<1>4. CASE u = t /\ (RegisterSpare(t) \/ RegisterSkip(t))
  <2>0. u = t
    BY <1>4
  <2>1. /\ pc[t] = "scan" /\ op[t] = "register" /\ arg[t].scheme # Null
        /\ c[t] \in Nat \ {0} /\ c[t] <= Len(engines)
    BY <1>0, <1>1, <1>4, RegistryAssumption
    DEF CallFrame, Slot, RegisterSpare, RegisterSkip, InLoop
  <2>2. /\ engines' = engines /\ arg' = arg /\ op' = op /\ pc' = pc
        /\ c'[t] = c[t] + 1
    BY <1>0, <1>4 DEF RegisterSpare, RegisterSkip, NextSlot
  <2>3. \A i \in 1..c[t] : engines[i].scheme # arg[t].scheme
    BY <1>1, <1>4, <2>1 DEF RegisterLoop, RegisterSpare, RegisterSkip, Vacant
  <2>4. CASE RegisterSpare(t)
    <3>1. spare'[t] = c[t] /\ Vacant(engines[c[t]])
      BY <1>0, <2>4 DEF RegisterSpare
    <3>2. spare'[t] \in 1..(c'[t] - 1) /\ spare'[t] # 0
      BY <2>1, <2>2, <3>1
    <3>3. \A i \in 1..(c'[t] - 1) : engines'[i].scheme # arg'[t].scheme
      BY <2>1, <2>2, <2>3
    <3> QED
      BY <1>0, <2>0, <2>1, <2>2, <3>1, <3>2, <3>3 DEF RegisterLoop, Vacant
  <2>5. CASE RegisterSkip(t)
    <3>1. spare'[t] = spare[t] /\ ~Vacant(engines[c[t]])
      BY <2>5 DEF RegisterSkip
    <3> QED
      BY <1>0, <1>1, <2>0, <2>1, <2>2, <2>3, <3>1 DEF RegisterLoop, Vacant
  <2> QED
    BY <1>4, <2>4, <2>5
<1>5. CASE u = t /\ RegisterAbsent(t)
  BY <1>0, <1>1, <1>5 DEF RegisterLoop, RegisterAbsent, LoopDone, Vacant
<1>6. \/ WrLock(t) \/ RegisterSpare(t) \/ RegisterSkip(t) \/ RegisterAbsent(t)
      \/ ~(pc'[t] \in {"scan", "insert"} /\ op'[t] = "register")
  BY <1>0, <1>1, RegistryAssumption
  DEF Call, Step, TableStep, CallRegister, CallUnregister,
      CallUnregisterConstructor, CallUnregisterAll, CallCreate, WrLock,
      RegisterSpare, RegisterReplace, RegisterSkip, RegisterAbsent,
      RegisterNoMemory, RegisterInsert, UnregisterClear, UnregisterSkip,
      UnregisterAbsent, PurgeClear, PurgeSkip, PurgeDone, OnceRun, OnceSkip,
      InitBuiltin, RdLock, LookupHit, LookupSkip, LookupMiss, Construct,
      ConstructFails, InitDone, Collect, Invoke, Return, NextSlot, EndCreate,
      MayCall, InLoop, LoopDone, CallFrame, PurgeOps
<1> QED
  BY <1>2, <1>3, <1>4, <1>5, <1>6 DEF RegisterLoop

LEMMA RemoveStep ==
    ASSUME TypeOK, LockInv, CallInv, RemoveInv,
           NEW t \in Threads, Call(t) \/ Step(t)
    PROVE  RemoveInv'
<1> SUFFICES ASSUME NEW u \in Threads
             PROVE  RemoveLoop(u)'
  BY DEF RemoveInv
<1>0. /\ pc \in [Threads -> PCs] /\ op \in [Threads -> Ops]
      /\ c \in [Threads -> Nat \ {0}] /\ arg \in [Threads -> Args]
      /\ Len(engines) \in Nat
  BY LenType DEF TypeOK
<1>1. RemoveLoop(u) /\ CallFrame(t)
  BY DEF RemoveInv, CallInv
<1>2. CASE u # t
  <2>1. pc[u] = "scan" => engines' = engines
    BY <1>2, TableKept
  <2> QED
    BY <1>1, <1>2, <2>1, OthersKept DEF RemoveLoop
<1>3. CASE u = t /\ WrLock(t)
  <2>1. c[t] = 1
    BY <1>1, <1>3 DEF CallFrame, WrLock
  <2> QED
    BY <1>0, <1>3, <2>1 DEF RemoveLoop, WrLock
<1>4. CASE u = t /\ (UnregisterSkip(t) \/ PurgeSkip(t))
  <2>1. pc[t] = "scan" /\ c[t] \in Nat \ {0} /\ c[t] <= Len(engines)
    BY <1>0, <1>4 DEF UnregisterSkip, PurgeSkip, InLoop
  <2>2. /\ engines' = engines /\ arg' = arg /\ op' = op /\ pc' = pc
        /\ c'[t] = c[t] + 1
    BY <1>0, <1>4 DEF UnregisterSkip, PurgeSkip, NextSlot
  <2>3. CASE UnregisterSkip(t)
    <3>1. op[t] = "unregister" /\ ~UnregisterMatch(engines[c[t]], arg[t])
      BY <2>3 DEF UnregisterSkip, InLoop
    <3>2. \A i \in 1..c[t] : ~UnregisterMatch(engines[i], arg[t])
      BY <1>1, <1>4, <2>1, <3>1 DEF RemoveLoop
    <3> QED
      BY <1>0, <1>4, <2>1, <2>2, <3>1, <3>2 DEF RemoveLoop, PurgeOps
  <2>4. CASE PurgeSkip(t)
    <3>1. op[t] \in PurgeOps /\ ~PurgeMatch(engines[c[t]], op[t], arg[t])
      BY <2>4 DEF PurgeSkip, InLoop
    <3>2. \A i \in 1..c[t] : ~PurgeMatch(engines[i], op[t], arg[t])
      BY <1>1, <1>4, <2>1, <3>1 DEF RemoveLoop
    <3> QED
      BY <1>0, <1>4, <2>1, <2>2, <3>1, <3>2 DEF RemoveLoop, PurgeOps
  <2> QED
    BY <1>4, <2>3, <2>4
<1>5. CASE u = t /\ PurgeClear(t)
  <2>1. /\ pc[t] = "scan" /\ op[t] \in PurgeOps
        /\ c[t] \in Nat \ {0} /\ c[t] <= Len(engines)
    BY <1>0, <1>5 DEF PurgeClear, InLoop
  <2>2. /\ arg' = arg /\ op' = op /\ pc' = pc /\ c'[t] = c[t] + 1
        /\ engines' = [engines EXCEPT ![c[t]] = EmptySlot]
    BY <1>0, <1>5 DEF PurgeClear, NextSlot
  <2>3. Len(engines') = Len(engines) /\ engines'[c[t]] = EmptySlot
    BY <2>1, <2>2 DEF TypeOK
  <2>4. \A i \in 1..(c[t] - 1) : engines'[i] = engines[i]
    BY <2>1, <2>2 DEF TypeOK
  <2>5. ~PurgeMatch(EmptySlot, op[t], arg[t])
    BY DEF PurgeMatch, UnregisterConstructorMatch, UnregisterAllMatch, Vacant, EmptySlot
  <2>6. \A i \in 1..c[t] : ~PurgeMatch(engines'[i], op[t], arg[t])
    BY <1>1, <1>5, <2>1, <2>3, <2>4, <2>5 DEF RemoveLoop
  <2> QED
    BY <1>0, <1>5, <2>1, <2>2, <2>3, <2>6 DEF RemoveLoop, PurgeOps
<1>6. \/ WrLock(t) \/ UnregisterSkip(t) \/ PurgeSkip(t) \/ PurgeClear(t)
      \/ ~(pc'[t] = "scan" /\ op'[t] # "register")
  BY <1>0, <1>1, RegistryAssumption
  DEF Call, Step, TableStep, CallRegister, CallUnregister,
      CallUnregisterConstructor, CallUnregisterAll, CallCreate, WrLock,
      RegisterSpare, RegisterReplace, RegisterSkip, RegisterAbsent,
      RegisterNoMemory, RegisterInsert, UnregisterClear, UnregisterSkip,
      UnregisterAbsent, PurgeClear, PurgeSkip, PurgeDone, OnceRun, OnceSkip,
      InitBuiltin, RdLock, LookupHit, LookupSkip, LookupMiss, Construct,
      ConstructFails, InitDone, Collect, Invoke, Return, NextSlot, EndCreate,
      MayCall, InLoop, LoopDone, CallFrame
<1> QED
  BY <1>2, <1>3, <1>4, <1>5, <1>6 DEF RemoveLoop, PurgeOps

LEMMA LookupStep ==
    ASSUME TypeOK, LockInv, CallInv, LookupInv,
           NEW t \in Threads, Call(t) \/ Step(t)
    PROVE  LookupInv'
<1> SUFFICES ASSUME NEW u \in Threads
             PROVE  LookupLoop(u)'
  BY DEF LookupInv
<1>0. /\ pc \in [Threads -> PCs] /\ uri \in [Threads -> Schemes \cup {Null}]
      /\ c \in [Threads -> Nat \ {0}] /\ Len(engines) \in Nat
      /\ found \in [Threads -> Slot \cup {EmptySlot, Null}]
  BY LenType DEF TypeOK
<1>1. LookupLoop(u) /\ CallFrame(t)
  BY DEF LookupInv, CallInv
<1>2. CASE u # t
  BY <1>1, <1>2, OthersKept, TableKept DEF LookupLoop
<1>3. CASE u = t /\ RdLock(t)
  <2>1. c[t] = 1
    BY <1>1, <1>3 DEF CallFrame, RdLock
  <2> QED
    BY <1>0, <1>3, <2>1 DEF RdLock, LookupLoop
<1>4. CASE u = t /\ LookupSkip(t)
  <2>1. pc[t] = "lookup" /\ c[t] \in Nat \ {0} /\ c[t] <= Len(engines)
    BY <1>0, <1>4 DEF LookupSkip
  <2>2. engines' = engines /\ uri' = uri /\ pc' = pc /\ c'[t] = c[t] + 1
    BY <1>0, <1>4 DEF LookupSkip, NextSlot
  <2>3. \A i \in 1..c[t] : engines[i].scheme # uri[t]
    BY <1>1, <1>4, <2>1 DEF LookupLoop, LookupSkip
  <2>4. \A i \in 1..(c'[t] - 1) : engines'[i].scheme # uri'[t]
    BY <2>1, <2>2, <2>3
  <2>5. u = t
    BY <1>4
  <2> QED
    BY <1>0, <2>1, <2>2, <2>4, <2>5 DEF LookupLoop
<1>5. CASE u = t /\ LookupHit(t)
  <2>1. /\ c[t] \in 1..Len(engines) /\ uri[t] \in Schemes
        /\ engines[c[t]].scheme = uri[t]
    BY <1>0, <1>1, <1>5 DEF CallFrame, LookupHit
  <2>2. engines[c[t]] \in Slot
    BY <2>1, RegistryAssumption DEF TypeOK, EmptySlot
  <2>3. /\ engines' = engines /\ uri' = uri /\ c' = c
        /\ pc'[t] = "construct" /\ found'[t] = engines[c[t]]
    BY <1>0, <1>5 DEF LookupHit
  <2>4. pc[t] = "lookup"
    BY <1>5 DEF LookupHit
  <2> QED
    BY <1>0, <1>1, <1>5, <2>1, <2>2, <2>3, <2>4 DEF LookupLoop
<1>6. \/ RdLock(t) \/ LookupSkip(t) \/ LookupHit(t)
      \/ pc'[t] \notin {"lookup", "construct"}
  BY <1>0, <1>1
  DEF Call, Step, TableStep, CallRegister, CallUnregister,
      CallUnregisterConstructor, CallUnregisterAll, CallCreate, WrLock,
      RegisterSpare, RegisterReplace, RegisterSkip, RegisterAbsent,
      RegisterNoMemory, RegisterInsert, UnregisterClear, UnregisterSkip,
      UnregisterAbsent, PurgeClear, PurgeSkip, PurgeDone, OnceRun, OnceSkip,
      InitBuiltin, RdLock, LookupHit, LookupSkip, LookupMiss, Construct,
      ConstructFails, InitDone, Collect, Invoke, Return, NextSlot, EndCreate,
      MayCall, InLoop, LoopDone, CallFrame
<1> QED
  BY <1>2, <1>3, <1>4, <1>5, <1>6 DEF LookupLoop

-----------------------------------------------------------------------------
(* The table.                                                              *)

(* A slot that is cleared cannot break the uniqueness of the others.       *)
LEMMA ClearKeepsUnique ==
    ASSUME TypeOK, SchemesUnique, NEW k \in 1..Len(engines),
           engines' = [engines EXCEPT ![k] = EmptySlot]
    PROVE  SchemesUnique'
<1>1. Len(engines') = Len(engines) /\ engines'[k] = EmptySlot
  BY DEF TypeOK
<1>2. \A i \in 1..Len(engines) : i # k => engines'[i] = engines[i]
  BY DEF TypeOK
<1> QED
  BY <1>1, <1>2 DEF SchemesUnique, Occupied, Vacant, EmptySlot

LEMMA UniqueStep ==
    ASSUME TypeOK, CallInv, RegisterInv, SchemesUnique,
           NEW t \in Threads, Call(t) \/ Step(t)
    PROVE  SchemesUnique'
<1>0. /\ engines \in Seq(Slot \cup {EmptySlot}) /\ Len(engines) \in Nat
      /\ c[t] \in Nat \ {0} /\ spare[t] \in Nat
  BY DEF TypeOK
<1>1. CASE engines' = engines
  BY <1>1 DEF SchemesUnique, Occupied, Vacant
<1>2. CASE RegisterReplace(t)
  <2>1. c[t] \in 1..Len(engines)
    BY <1>0, <1>2 DEF RegisterReplace, InLoop
  <2>2. /\ Len(engines') = Len(engines)
        /\ \A i \in 1..Len(engines) : engines'[i].scheme = engines[i].scheme
    BY <1>0, <1>2, <2>1 DEF RegisterReplace, Slot, EmptySlot
  <2> QED
    BY <2>2 DEF SchemesUnique, Occupied, Vacant
<1>3. CASE RegisterInsert(t)
  <2>1. /\ c[t] = Len(engines) + 1
        /\ \A i \in 1..Len(engines) : engines[i].scheme # arg[t].scheme
        /\ spare[t] # 0 => spare[t] \in 1..Len(engines)
    BY <1>0, <1>3 DEF CallInv, CallFrame, RegisterInv, RegisterLoop, RegisterInsert
  <2>2. CASE spare[t] = 0
    <3>1. engines' = Append(engines, arg[t])
      BY <1>3, <2>2 DEF RegisterInsert
    <3>2. /\ Len(engines') = Len(engines) + 1
          /\ engines'[Len(engines) + 1] = arg[t]
          /\ \A i \in 1..Len(engines) : engines'[i] = engines[i]
      BY <1>0, <3>1
    <3> QED
      BY <1>0, <2>1, <3>2 DEF SchemesUnique, Occupied, Vacant
  <2>3. CASE spare[t] # 0
    <3>1. engines' = [engines EXCEPT ![spare[t]] = arg[t]]
      BY <1>3, <2>3 DEF RegisterInsert
    <3>2. /\ Len(engines') = Len(engines)
          /\ engines'[spare[t]] = arg[t]
          /\ \A i \in 1..Len(engines) : i # spare[t] => engines'[i] = engines[i]
      BY <1>0, <2>1, <2>3, <3>1
    <3> QED
      BY <2>1, <3>2 DEF SchemesUnique, Occupied, Vacant
  <2> QED
    BY <2>2, <2>3
<1>4. CASE UnregisterClear(t) \/ PurgeClear(t)
  <2>1. /\ c[t] \in 1..Len(engines)
        /\ engines' = [engines EXCEPT ![c[t]] = EmptySlot]
    BY <1>0, <1>4 DEF UnregisterClear, PurgeClear, InLoop
  <2> QED
    BY <2>1, ClearKeepsUnique
<1> QED
  BY <1>1, <1>2, <1>3, <1>4, TableWriters

(* A table without vacant slots in which no two schemes are the same and   *)
(* one more scheme is missing is shorter than the set of schemes.          *)
LEMMA FullTableHasRoom ==
    ASSUME TypeOK, SchemesUnique, NEW s \in Schemes,
           \A i \in 1..Len(engines) : ~Vacant(engines[i]) /\ engines[i].scheme # s
    PROVE  Len(engines) + 1 <= Cardinality(Schemes)
<1> DEFINE n == Len(engines)
           f == [i \in 1..(n + 1) |-> IF i = n + 1 THEN s ELSE engines[i].scheme]
<1>0. n \in Nat /\ IsFiniteSet(Schemes) /\ Cardinality(Schemes) \in Nat
  BY FS_CardinalityType, RegistryAssumption DEF TypeOK
<1>1. \A i \in 1..n : engines[i].scheme \in Schemes
  BY DEF TypeOK, Slot, EmptySlot, Vacant
<1>2. f \in [1..(n + 1) -> Schemes]
  BY <1>0, <1>1
<1>3. \A i, j \in 1..(n + 1) : f[i] = f[j] => i = j
  BY <1>0 DEF SchemesUnique, Occupied
<1>4. IsFiniteSet(1..(n + 1)) /\ Cardinality(1..(n + 1)) = n + 1
  BY <1>0, FS_Interval
<1> HIDE DEF n, f
<1>5. ~(Cardinality(Schemes) < Cardinality(1..(n + 1)))
  BY <1>0, <1>2, <1>3, <1>4, FS_PigeonHole
<1> QED
  BY <1>0, <1>4, <1>5 DEF n

LEMMA BoundedStep ==
    ASSUME TypeOK, CallInv, RegisterInv, SchemesUnique, SlotsBounded,
           NEW t \in Threads, Call(t) \/ Step(t)
    PROVE  SlotsBounded'
<1>0. /\ engines \in Seq(Slot \cup {EmptySlot}) /\ Len(engines) \in Nat
      /\ c[t] \in Nat \ {0} /\ spare[t] \in Nat
  BY DEF TypeOK
<1>1. CASE engines' = engines
  BY <1>1 DEF SlotsBounded
<1>2. CASE RegisterReplace(t) \/ UnregisterClear(t) \/ PurgeClear(t)
  <2>1. Len(engines') = Len(engines)
    BY <1>0, <1>2 DEF RegisterReplace, UnregisterClear, PurgeClear
  <2> QED
    BY <2>1 DEF SlotsBounded
<1>3. CASE RegisterInsert(t)
  <2>1. /\ arg[t].scheme \in Schemes
        /\ \A i \in 1..Len(engines) : engines[i].scheme # arg[t].scheme
        /\ spare[t] = 0 => \A i \in 1..Len(engines) : ~Vacant(engines[i])
    BY <1>0, <1>3
    DEF CallInv, CallFrame, RegisterInv, RegisterLoop, RegisterInsert, Slot
  <2>2. CASE spare[t] = 0
    <3>1. Len(engines') = Len(engines) + 1
      BY <1>0, <1>3, <2>2 DEF RegisterInsert
    <3>2. Len(engines) + 1 <= Cardinality(Schemes)
      BY <2>1, <2>2, FullTableHasRoom
    <3> QED
      BY <3>1, <3>2 DEF SlotsBounded
  <2>3. CASE spare[t] # 0
    <3>1. Len(engines') = Len(engines)
      BY <1>0, <1>3, <2>3 DEF RegisterInsert
    <3> QED
      BY <3>1 DEF SlotsBounded
  <2> QED
    BY <2>2, <2>3
<1> QED
  BY <1>1, <1>2, <1>3, TableWriters

-----------------------------------------------------------------------------
(* The theorems.                                                           *)

LEMMA InitIInv == Init => IInv
<1> SUFFICES ASSUME Init
             PROVE  IInv
  OBVIOUS
<1> USE RegistryAssumption DEF Init
<1>1. TypeOK
  <2>1. EmptySlot \in Args
    BY ArgsBuilt
  <2>2. 0 \in 0..Len(Builtins)
    OBVIOUS
  <2> QED
    BY <2>1, <2>2 DEF TypeOK, PCs, Ops
<1>2. LockInv /\ OnceInv
  BY DEF LockInv, OnceInv
<1>3. CallInv
  BY DEF CallInv, CallFrame
<1>4. RegisterInv /\ RemoveInv /\ LookupInv
  BY DEF RegisterInv, RegisterLoop, RemoveInv, RemoveLoop, LookupInv, LookupLoop
<1>5. SchemesUnique
  BY DEF SchemesUnique, Occupied
<1>6. SlotsBounded
  BY FS_CardinalityType DEF SlotsBounded
<1> QED
  BY <1>1, <1>2, <1>3, <1>4, <1>5, <1>6 DEF IInv

LEMMA StepIInv == IInv /\ [Next]_vars => IInv'
<1> SUFFICES ASSUME IInv, [Next]_vars
             PROVE  IInv'
  OBVIOUS
<1>1. CASE Next
  <2>1. PICK t \in Threads : Call(t) \/ Step(t)
    BY <1>1 DEF Next
  <2>2. TypeOK' /\ LockInv' /\ OnceInv' /\ CallInv'
    BY <2>1, TypeStep, LockStep, OnceStep, CallStep DEF IInv
  <2>3. RegisterInv' /\ RemoveInv' /\ LookupInv'
    BY <2>1, RegisterStep, RemoveStep, LookupStep DEF IInv
  <2>4. SchemesUnique' /\ SlotsBounded'
    BY <2>1, UniqueStep, BoundedStep DEF IInv
  <2> QED
    BY <2>2, <2>3, <2>4 DEF IInv
<1>2. CASE UNCHANGED vars
  <2> USE <1>2 DEF vars
  <2>1. TypeOK' /\ LockInv' /\ OnceInv'
    BY DEF IInv, TypeOK, LockInv, OnceInv
  <2>2. CallInv' /\ RegisterInv'
    BY DEF IInv, CallInv, CallFrame, RegisterInv, RegisterLoop, Vacant
  <2>3. RemoveInv' /\ LookupInv'
    BY DEF IInv, RemoveInv, RemoveLoop, LookupInv, LookupLoop
  <2>4. SchemesUnique' /\ SlotsBounded'
    BY DEF IInv, SchemesUnique, Occupied, Vacant, SlotsBounded
  <2> QED
    BY <2>1, <2>2, <2>3, <2>4 DEF IInv
<1> QED
  BY <1>1, <1>2

(* The inductive invariant of engine.c holds in every state.               *)
THEOREM Invariant == Spec => []IInv
<1> QED
  BY InitIInv, StepIInv, PTL DEF Spec

(* Every variable of engine.c keeps its type.                              *)
THEOREM TypeCorrect == Spec => []TypeOK
<1>1. IInv => TypeOK
  BY DEF IInv
<1> QED
  BY <1>1, Invariant, PTL

(* mq_register() never leaves two engines for one scheme in the table,     *)
(* however its scan is interleaved with the calls of other threads.        *)
THEOREM Uniqueness == Spec => []SchemesUnique
<1>1. IInv => SchemesUnique
  BY DEF IInv
<1> QED
  BY <1>1, Invariant, PTL

(* The table needs no more slots than there are schemes.                   *)
THEOREM Boundedness == Spec => []SlotsBounded
<1>1. IInv => SlotsBounded
  BY DEF IInv
<1> QED
  BY <1>1, Invariant, PTL

(* An engine is in the table as long as a thread is in its constructor.    *)
THEOREM Pinning == Spec => []ConstructorPinned
<1>1. IInv => ConstructorPinned
  <2> SUFFICES ASSUME IInv, NEW t \in Threads, pc[t] = "construct"
               PROVE  \E i \in Occupied : engines[i] = found[t]
    BY DEF ConstructorPinned
  <2>1. c[t] \in Nat \ {0} /\ Len(engines) \in Nat
    BY DEF IInv, TypeOK
  <2>2. c[t] <= Len(engines) /\ found[t] = engines[c[t]] /\ found[t] \in Slot
    BY DEF IInv, LookupInv, LookupLoop
  <2>3. c[t] \in Occupied
    BY <2>1, <2>2, RegistryAssumption DEF Occupied, Vacant, Slot
  <2> QED
    BY <2>2, <2>3
<1> QED
  BY <1>1, Invariant, PTL

(* mq_create_() looks no engine up before mq_init_() has returned.         *)
THEOREM Initialisation == Spec => []InitBeforeLookup
<1>1. IInv => InitBeforeLookup
  BY DEF IInv, OnceInv, InitBeforeLookup
<1> QED
  BY <1>1, Invariant, PTL

(* Who holds the lock is in a loop or a constructor and waits for nobody.  *)
LEMMA HolderMoves ==
    ASSUME IInv, writer # Null \/ readers # {}
    PROVE  \E u \in Threads : pc[u] # "idle" /\ ~Blocked(u)
<1>1. PICK u \in Threads : writer = u \/ u \in readers
  BY DEF IInv, TypeOK
<1>2. pc[u] \in {"scan", "insert", "lookup", "construct"}
  BY <1>1 DEF IInv, LockInv
<1> QED
  BY <1>2 DEF Blocked

(* However many threads wait, for the lock or for mq_init_(), one of those *)
(* in the library can go on: engine.c cannot deadlock by itself.           *)
THEOREM NoDeadlock == Spec => []NobodyStuck
<1>1. IInv => NobodyStuck
  <2> SUFFICES ASSUME IInv, NEW t \in Threads, Blocked(t)
               PROVE  \E u \in Threads : pc[u] # "idle" /\ ~Blocked(u)
    BY DEF NobodyStuck
  <2>1. CASE writer # Null \/ readers # {}
    BY <2>1, HolderMoves
  <2>2. ASSUME writer = Null, readers = {}, NEW w \in Threads, pc[w] = "wrlock"
        PROVE  pc[w] # "idle" /\ ~Blocked(w)
    BY <2>2 DEF Blocked
  <2>3. CASE writer = Null /\ readers = {} /\ pc[t] # "once"
    <3>1. \E w \in Threads : pc[w] = "wrlock"
      BY <2>3 DEF Blocked
    <3> QED
      BY <2>2, <2>3, <3>1
  <2>4. CASE writer = Null /\ readers = {} /\ pc[t] = "once"
    <3>1. once = "running"
      BY <2>4 DEF Blocked
    <3>2. runner \in Threads /\ runner # Null
      BY <3>1 DEF IInv, TypeOK, OnceInv
    <3>3. pc[runner] \notin {"idle", "once", "rdlock"}
      BY <3>2 DEF IInv, OnceInv
    <3>4. ~Blocked(runner)
      BY <2>4, <3>3 DEF Blocked
    <3> QED
      BY <3>2, <3>3, <3>4
  <2> QED
    BY <2>1, <2>3, <2>4
<1> QED
  BY <1>1, Invariant, PTL
=============================================================================
