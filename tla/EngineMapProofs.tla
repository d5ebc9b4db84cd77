-------------------------- MODULE EngineMapProofs --------------------------
(***************************************************************************)
(* engine.c implements EngineMap: with its slots, loops and lock it        *)
(* behaves as a map from schemes to engines on which every call takes      *)
(* effect at one instant.                                                  *)
(*                                                                         *)
(* A registration takes effect when it writes the table, a removal of one  *)
(* engine likewise, a removal of many when it gets the lock, a look-up     *)
(* when it finds the slot.  Every other step leaves the map alone.         *)
(***************************************************************************)
EXTENDS EngineRegistryProofs

-----------------------------------------------------------------------------
(* What the map shows.                                                     *)

(* The engine of a scheme is that of its only slot, unless it is doomed.   *)
MapShape ==
    /\ regBar = [s \in Schemes |-> regBar[s]]
    /\ \A i \in Occupied :
          ~Doomed(engines[i]) => regBar[engines[i].scheme] = engines[i]
    /\ \A s \in Schemes :
          (\A i \in Occupied : engines[i].scheme = s => Doomed(engines[i]))
             => regBar[s] = EmptySlot

LEMMA Shape == IInv => MapShape
<1> SUFFICES ASSUME IInv
             PROVE  MapShape
  OBVIOUS
<1>1. ASSUME NEW i \in Occupied, ~Doomed(engines[i])
      PROVE  regBar[engines[i].scheme] = engines[i]
  <2>1. engines[i].scheme \in Schemes
    BY DEF IInv, TypeOK, Occupied, Vacant, Slot, EmptySlot
  <2>2. i \in Shown(engines[i].scheme)
    BY <1>1 DEF Shown
  <2>3. \A j \in Shown(engines[i].scheme) : j = i
    BY DEF IInv, SchemesUnique, Shown
  <2>4. AnyOf(Shown(engines[i].scheme)) = i
    BY <2>2, <2>3 DEF AnyOf
  <2> QED
    BY <2>1, <2>2, <2>4 DEF regBar
<1>2. ASSUME NEW s \in Schemes,
             \A i \in Occupied : engines[i].scheme = s => Doomed(engines[i])
      PROVE  regBar[s] = EmptySlot
  BY <1>2 DEF regBar, Shown
<1>3. regBar = [s \in Schemes |-> regBar[s]]
  BY DEF regBar
<1> QED
  BY <1>1, <1>2, <1>3 DEF MapShape

LEMMA ShapeNext == IInv' => MapShape'
  BY Shape, PTL

(* When no thread is purging, the map is the table.                        *)
NoPurge == writer = Null \/ op[writer] \notin PurgeOps

PlainShape ==
    /\ regBar = [s \in Schemes |-> regBar[s]]
    /\ \A i \in Occupied : regBar[engines[i].scheme] = engines[i]
    /\ \A s \in Schemes :
          (\A i \in Occupied : engines[i].scheme # s) => regBar[s] = EmptySlot
    /\ tallyBar = [u \in Threads |-> 0]

LEMMA Plain == IInv /\ NoPurge => PlainShape
<1> SUFFICES ASSUME IInv, NoPurge
             PROVE  PlainShape
  OBVIOUS
<1>1. \A i \in Occupied : ~Doomed(engines[i])
  BY DEF NoPurge, Doomed, PurgeMatch, PurgeOps
<1>2. \A u \in Threads : ~(writer = u /\ op[u] \in PurgeOps)
  BY RegistryAssumption DEF NoPurge
<1>3. tallyBar = [u \in Threads |-> 0]
  BY <1>2 DEF tallyBar
<1> QED
  BY <1>1, <1>3, Shape DEF MapShape, PlainShape

LEMMA PlainNext == IInv' /\ NoPurge' => PlainShape'
  BY Plain, PTL

LEMMA PlainKept ==
    ASSUME PlainShape, PlainShape', engines' = engines
    PROVE  regBar' = regBar /\ tallyBar' = tallyBar
<1>1. Occupied' = Occupied
  BY DEF Occupied
<1>2. ASSUME NEW s \in Schemes
      PROVE  regBar'[s] = regBar[s]
  <2>1. CASE \E i \in Occupied : engines[i].scheme = s
    BY <1>1, <2>1 DEF PlainShape
  <2>2. CASE \A i \in Occupied : engines[i].scheme # s
    BY <1>1, <2>2 DEF PlainShape
  <2> QED
    BY <2>1, <2>2
<1> QED
  BY <1>2 DEF PlainShape

LEMMA OccupiedType ==
    ASSUME TypeOK, NEW i \in Occupied
    PROVE  /\ i \in 1..Len(engines) /\ engines[i] \in Slot
           /\ engines[i].scheme \in Schemes /\ engines[i] # EmptySlot
<1>1. i \in 1..Len(engines) /\ engines[i] \in Slot \cup {EmptySlot}
  BY DEF Occupied, TypeOK
<1>2. engines[i].scheme # Null
  BY DEF Occupied, Vacant
<1> QED
  BY <1>1, <1>2, RegistryAssumption DEF Slot, EmptySlot

-----------------------------------------------------------------------------
(* The steps that leave the map alone.                                     *)

LEMMA Unseen ==
    ASSUME TypeOK, NEW t \in Threads, Call(t) \/ Step(t),
           UNCHANGED <<engines, writer>>,
           writer = t => op[t] \notin PurgeOps /\ op'[t] = op[t]
    PROVE  regBar' = regBar /\ tallyBar' = tallyBar
<1>1. CASE writer = Null
  <2>1. \A u \in Threads : writer # u
    BY <1>1, RegistryAssumption
  <2> QED
    BY <1>1, <2>1 DEF regBar, tallyBar, Shown, Occupied, Doomed
<1>2. CASE writer = t
  <2>1. op[writer] \notin PurgeOps /\ op'[writer'] \notin PurgeOps
    BY <1>2
  <2>2. \A slot : ~(writer # Null /\ PurgeMatch(slot, op[writer], arg[writer]))
    BY <2>1 DEF PurgeMatch, PurgeOps
  <2>3. \A slot : ~(writer' # Null /\ PurgeMatch(slot, op'[writer'], arg'[writer']))
    BY <2>1 DEF PurgeMatch, PurgeOps
  <2>4. regBar' = regBar
    <3>1. Occupied' = Occupied
      BY DEF Occupied
    <3>2. \A s : Shown(s)' = Shown(s)
      BY <2>2, <2>3, <3>1 DEF Shown, Doomed
    <3> QED
      BY <3>2 DEF regBar
  <2>5. tallyBar' = tallyBar
    BY <2>1 DEF tallyBar
  <2> QED
    BY <2>4, <2>5
<1>3. CASE writer # Null /\ writer # t
  <2>1. writer \in Threads
    BY <1>3 DEF TypeOK
  <2>2. UNCHANGED <<op[writer], arg[writer], c[writer], count[writer]>>
    BY <1>3, <2>1, OthersKept
  <2>3. regBar' = regBar
    BY <2>2 DEF regBar, Shown, Occupied, Doomed
  <2>4. Pending(writer)' = Pending(writer)
    BY <2>2 DEF Pending
  <2>5. tallyBar' = tallyBar
    BY <2>2, <2>4 DEF tallyBar
  <2> QED
    BY <2>3, <2>5
<1> QED
  BY <1>1, <1>2, <1>3

-----------------------------------------------------------------------------
(* The steps that change the map.                                          *)

(* mq_register_internal_() writes the slot and returns.                    *)
LEMMA RegisterSeen ==
    ASSUME IInv, IInv', NEW t \in Threads, RegisterReplace(t) \/ RegisterInsert(t)
    PROVE  arg[t] \in Map!Engine /\ Map!Register(t, arg[t])
<1> DEFINE a == arg[t]
<1>0. /\ engines \in Seq(Slot \cup {EmptySlot}) /\ Len(engines) \in Nat
      /\ c[t] \in Nat \ {0} /\ spare[t] \in Nat
  BY DEF IInv, TypeOK
<1>1. writer = t /\ op[t] = "register" /\ a \in Slot
  BY DEF IInv, LockInv, CallInv, CallFrame, RegisterReplace, RegisterInsert, InLoop
<1>2. /\ writer' = Null /\ ret' = [ret EXCEPT ![t] = 0] /\ UNCHANGED found
  BY DEF RegisterReplace, RegisterInsert, Return
<1>3. PlainShape /\ PlainShape'
  BY <1>1, <1>2, Plain, PlainNext DEF NoPurge, PurgeOps
<1>4. \E k \in 1..Len(engines') :
         /\ engines'[k] = a /\ Len(engines) <= Len(engines')
         /\ k \in Occupied => engines[k].scheme = a.scheme
         /\ \A i \in 1..Len(engines') :
               i # k => i \in 1..Len(engines) /\ engines'[i] = engines[i]
  <2>1. CASE RegisterReplace(t)
    <3>1. c[t] \in 1..Len(engines) /\ engines[c[t]].scheme = a.scheme
      BY <1>0, <2>1 DEF RegisterReplace, InLoop
    <3>2. engines[c[t]] \in Slot
      BY <1>0, <1>1, <3>1, RegistryAssumption DEF Slot, EmptySlot
    <3>3. [engines[c[t]] EXCEPT !.construct = a.construct, !.handle = a.handle] = a
      BY <1>1, <3>1, <3>2 DEF Slot
    <3>4. engines' = [engines EXCEPT ![c[t]] = a]
      BY <2>1, <3>3 DEF RegisterReplace
    <3> QED
      BY <1>0, <3>1, <3>4
  <2>2. CASE RegisterInsert(t) /\ spare[t] # 0
    <3>1. spare[t] \in 1..Len(engines) /\ Vacant(engines[spare[t]])
      BY <1>0, <1>1, <2>2
      DEF IInv, CallInv, CallFrame, RegisterInv, RegisterLoop, RegisterInsert
    <3>2. engines' = [engines EXCEPT ![spare[t]] = a]
      BY <2>2 DEF RegisterInsert
    <3> QED
      BY <1>0, <3>1, <3>2 DEF Occupied
  <2>3. CASE RegisterInsert(t) /\ spare[t] = 0
    <3>1. engines' = Append(engines, a)
      BY <2>3 DEF RegisterInsert
    <3> HIDE DEF a
    <3>2. /\ Len(engines') = Len(engines) + 1 /\ engines'[Len(engines) + 1] = a
          /\ \A i \in 1..Len(engines) : engines'[i] = engines[i]
      BY <1>0, <3>1
    <3> QED
      BY <1>0, <3>2 DEF Occupied
  <2> QED
    BY <2>1, <2>2, <2>3
<1>5. PICK k \in 1..Len(engines') :
         /\ engines'[k] = a /\ Len(engines) <= Len(engines')
         /\ k \in Occupied => engines[k].scheme = a.scheme
         /\ \A i \in 1..Len(engines') :
               i # k => i \in 1..Len(engines) /\ engines'[i] = engines[i]
  BY <1>4
<1>6. Len(engines') \in Nat
  BY DEF IInv, TypeOK
<1>7. k \in Occupied' /\ a.scheme \in Schemes
  BY <1>1, <1>5, RegistryAssumption DEF Occupied, Vacant, Slot
<1>8. regBar'[a.scheme] = a
  BY <1>3, <1>5, <1>7 DEF PlainShape
<1>9. ASSUME NEW s \in Schemes, s # a.scheme
      PROVE  regBar'[s] = regBar[s]
  <2>1. CASE \E i \in Occupied : engines[i].scheme = s
    <3>1. PICK i \in Occupied : engines[i].scheme = s
      BY <2>1
    <3>2. i \in Occupied' /\ engines'[i] = engines[i]
      BY <1>0, <1>5, <1>6, <1>9, <3>1 DEF Occupied, Vacant
    <3> QED
      BY <1>3, <3>1, <3>2 DEF PlainShape
  <2>2. CASE \A i \in Occupied : engines[i].scheme # s
    <3>1. \A i \in Occupied' : engines'[i].scheme # s
      BY <1>5, <1>9, <2>2 DEF Occupied, Vacant
    <3> QED
      BY <1>3, <2>2, <3>1 DEF PlainShape
  <2> QED
    BY <2>1, <2>2
<1>10. regBar' = [regBar EXCEPT ![a.scheme] = a]
  BY <1>3, <1>7, <1>8, <1>9 DEF PlainShape
<1> QED
  BY <1>1, <1>2, <1>3, <1>10 DEF Map!Register, Map!Engine, Slot, PlainShape

(* It fails only when it has found the scheme nowhere.                     *)
LEMMA NoMemorySeen ==
    ASSUME IInv, IInv', NEW t \in Threads, RegisterNoMemory(t)
    PROVE  arg[t].scheme \in Schemes /\ Map!RegisterFails(t, arg[t].scheme)
<1>1. writer = t /\ op[t] = "register" /\ arg[t].scheme \in Schemes
  BY DEF IInv, LockInv, CallInv, CallFrame, RegisterNoMemory, Slot
<1>2. /\ writer' = Null /\ ret' = [ret EXCEPT ![t] = -1]
      /\ UNCHANGED <<engines, found>>
  BY DEF RegisterNoMemory, Return
<1>3. PlainShape /\ PlainShape'
  BY <1>1, <1>2, Plain, PlainNext DEF NoPurge, PurgeOps
<1>4. \A i \in Occupied : engines[i].scheme # arg[t].scheme
  <2>1. Len(engines) \in Nat
    BY DEF IInv, TypeOK
  <2> QED
    BY <1>1, <2>1
    DEF IInv, RegisterInv, RegisterLoop, RegisterNoMemory, Occupied
<1>5. regBar[arg[t].scheme] = Map!NoEngine
  BY <1>1, <1>3, <1>4 DEF PlainShape, Map!NoEngine, EmptySlot
<1> QED
  BY <1>1, <1>2, <1>3, <1>5, PlainKept DEF Map!RegisterFails

(* mq_unregister() finds the engine of the scheme and the module.          *)
LEMMA UnregisterSeen ==
    ASSUME IInv, IInv', NEW t \in Threads, UnregisterClear(t)
    PROVE  Map!Unregister(t, arg[t].scheme, arg[t].handle)
<1> DEFINE s == arg[t].scheme
<1>0. engines \in Seq(Slot \cup {EmptySlot}) /\ c[t] \in 1..Len(engines)
  BY DEF IInv, TypeOK, UnregisterClear, InLoop
<1>1. writer = t /\ op[t] = "unregister" /\ s \in Schemes
  BY DEF IInv, LockInv, CallInv, CallFrame, UnregisterClear, InLoop
<1>2. /\ writer' = Null /\ ret' = [ret EXCEPT ![t] = 1] /\ UNCHANGED found
      /\ engines' = [engines EXCEPT ![c[t]] = EmptySlot]
      /\ engines[c[t]].scheme = s /\ engines[c[t]].handle = arg[t].handle
  BY DEF UnregisterClear, UnregisterMatch, Return
<1>3. PlainShape /\ PlainShape'
  BY <1>1, <1>2, Plain, PlainNext DEF NoPurge, PurgeOps
<1>4. c[t] \in Occupied /\ regBar[s] = engines[c[t]]
  BY <1>0, <1>1, <1>2, <1>3, RegistryAssumption DEF PlainShape, Occupied, Vacant
<1>5. regBar[s] # Map!NoEngine /\ regBar[s].handle = arg[t].handle
  BY <1>1, <1>2, <1>4, RegistryAssumption DEF Map!NoEngine
<1>6. /\ Occupied' = Occupied \ {c[t]}
      /\ \A i \in Occupied' : engines'[i] = engines[i]
  BY <1>0, <1>2 DEF Occupied, Vacant, EmptySlot
<1>7. \A i \in Occupied' : engines'[i].scheme # s
  BY <1>2, <1>4, <1>6 DEF IInv, SchemesUnique
<1>8. regBar'[s] = EmptySlot
  BY <1>1, <1>3, <1>7 DEF PlainShape
<1>9. ASSUME NEW r \in Schemes, r # s
      PROVE  regBar'[r] = regBar[r]
  <2>1. CASE \E i \in Occupied : engines[i].scheme = r
    <3>1. PICK i \in Occupied : engines[i].scheme = r
      BY <2>1
    <3>2. i \in Occupied' /\ engines'[i] = engines[i]
      BY <1>2, <1>6, <1>9, <3>1
    <3> QED
      BY <1>3, <3>1, <3>2 DEF PlainShape
  <2>2. CASE \A i \in Occupied : engines[i].scheme # r
    <3>1. \A i \in Occupied' : engines'[i].scheme # r
      BY <1>6, <2>2
    <3> QED
      BY <1>3, <2>2, <3>1 DEF PlainShape
  <2> QED
    BY <2>1, <2>2
<1>10. regBar' = [regBar EXCEPT ![s] = Map!NoEngine]
  BY <1>1, <1>3, <1>8, <1>9 DEF PlainShape, Map!NoEngine, EmptySlot
<1> QED
  BY <1>2, <1>3, <1>5, <1>10 DEF Map!Unregister, PlainShape

(* It returns 0 only when the scheme is not served, or by another module.  *)
LEMMA UnregisterAbsentSeen ==
    ASSUME IInv, IInv', NEW t \in Threads, UnregisterAbsent(t)
    PROVE  Map!Unregister(t, arg[t].scheme, arg[t].handle)
<1> DEFINE s == arg[t].scheme
<1>1. writer = t /\ op[t] = "unregister" /\ s \in Schemes
  BY DEF IInv, LockInv, CallInv, CallFrame, UnregisterAbsent, LoopDone
<1>2. /\ writer' = Null /\ ret' = [ret EXCEPT ![t] = 0]
      /\ UNCHANGED <<engines, found>>
  BY DEF UnregisterAbsent, Return
<1>3. PlainShape /\ PlainShape'
  BY <1>1, <1>2, Plain, PlainNext DEF NoPurge, PurgeOps
<1>4. \A i \in Occupied : ~UnregisterMatch(engines[i], arg[t])
  <2>1. Len(engines) \in Nat /\ c[t] \in Nat /\ c[t] > Len(engines)
    BY DEF IInv, TypeOK, UnregisterAbsent, LoopDone
  <2> QED
    BY <1>1, <2>1
    DEF IInv, RemoveInv, RemoveLoop, UnregisterAbsent, LoopDone, Occupied
<1>5. regBar[s] = EmptySlot \/ regBar[s].handle # arg[t].handle
  <2>1. CASE \E i \in Occupied : engines[i].scheme = s
    <3>1. PICK i \in Occupied : engines[i].scheme = s
      BY <2>1
    <3>2. regBar[s] = engines[i]
      BY <1>3, <3>1 DEF PlainShape
    <3> QED
      BY <1>4, <3>1, <3>2 DEF UnregisterMatch
  <2>2. CASE \A i \in Occupied : engines[i].scheme # s
    BY <1>1, <1>3, <2>2 DEF PlainShape
  <2> QED
    BY <2>1, <2>2
<1> QED
  BY <1>2, <1>3, <1>5, PlainKept DEF Map!Unregister, Map!NoEngine, EmptySlot

(* mq_create_() enters the constructor of the engine the map shows.        *)
LEMMA LookupSeen ==
    ASSUME IInv, NEW t \in Threads, LookupHit(t)
    PROVE  uri[t] \in Schemes /\ Map!Create(t, uri[t])
<1>1. t \in readers /\ uri[t] \in Schemes
  BY DEF IInv, LockInv, CallInv, CallFrame, LookupHit
<1>2. writer = Null
  BY <1>1 DEF IInv, LockInv
<1>3. PlainShape
  BY <1>2, Plain DEF NoPurge
<1>4. c[t] \in Occupied /\ engines[c[t]].scheme = uri[t]
  BY <1>1, RegistryAssumption DEF IInv, TypeOK, LookupHit, Occupied, Vacant
<1>5. regBar[uri[t]] = engines[c[t]]
  BY <1>3, <1>4 DEF PlainShape
<1>6. regBar' = regBar /\ tallyBar' = tallyBar
  BY <1>2, RegistryAssumption, Unseen DEF IInv, LookupHit, Step, TableStep
<1> QED
  BY <1>1, <1>5, <1>6 DEF LookupHit, Map!Create

(* mq_create_() fails when no engine serves the scheme or its constructor  *)
(* cannot allocate a connection.                                           *)
LEMMA CreateFailsSeen ==
    ASSUME IInv, NEW t \in Threads, LookupMiss(t) \/ ConstructFails(t)
    PROVE  Map!CreateFails(t)
<1>1. t \in readers
  BY DEF IInv, LockInv, LookupMiss, ConstructFails
<1>2. writer = Null
  BY <1>1 DEF IInv, LockInv
<1>3. regBar' = regBar /\ tallyBar' = tallyBar
  BY <1>2, RegistryAssumption, Unseen
  DEF IInv, LookupMiss, ConstructFails, EndCreate, Step, TableStep
<1> QED
  BY <1>3
  DEF LookupMiss, ConstructFails, EndCreate, Map!CreateFails, Map!NoEngine, EmptySlot

LEMMA CollectSeen ==
    ASSUME IInv, NEW t \in Threads, Collect(t)
    PROVE  Map!Collect(t)
<1>1. writer # t
  BY RegistryAssumption DEF IInv, LockInv, Collect
<1>2. regBar' = regBar /\ tallyBar' = tallyBar
  BY <1>1, Unseen DEF IInv, Collect, Step
<1> QED
  BY <1>2 DEF Collect, Map!Collect

-----------------------------------------------------------------------------
(* The removals of many engines.                                           *)

(* What the map serves and a purge by t is to remove.                      *)
Victims(t) ==
    {s \in Schemes : regBar[s] # EmptySlot /\ PurgeMatch(regBar[s], op[t], arg[t])}

(* EngineMap counts as FiniteSets does.                                    *)
LEMMA SameCardinality ==
    ASSUME NEW S
    PROVE  Map!Cardinality(S) = Cardinality(S)
  BY DEF Map!Cardinality, Cardinality

(* With the lock a purge has decided what it removes: the engines that     *)
(* match are gone from the map and it knows how many they are.             *)
LEMMA PurgeBegins ==
    ASSUME IInv, IInv', NEW t \in Threads, WrLock(t), op[t] \in PurgeOps
    PROVE  Map!Purge(t, Victims(t))
<1>1. /\ writer = Null /\ writer' = t /\ UNCHANGED <<engines, op, arg, c, count>>
      /\ pc[t] = "wrlock" /\ UNCHANGED <<ret, found>> /\ t # Null
  BY RegistryAssumption DEF WrLock
<1>2. c[t] = 1 /\ count[t] = 0
  BY <1>1, RegistryAssumption DEF IInv, CallInv, CallFrame
<1>3. PlainShape
  BY <1>1, Plain DEF NoPurge
<1>4. MapShape'
  BY ShapeNext
<1>5. /\ Occupied' = Occupied
      /\ \A i \in Occupied :
            Doomed(engines[i])' <=> PurgeMatch(engines[i], op[t], arg[t])
  BY <1>1 DEF Occupied, Doomed
<1>6. ASSUME NEW s \in Schemes, NEW i \in Occupied, engines[i].scheme = s
      PROVE  /\ regBar[s] = engines[i] /\ regBar[s] # EmptySlot
             /\ s \in Victims(t) <=> PurgeMatch(engines[i], op[t], arg[t])
  <2>1. engines[i] # EmptySlot
    BY OccupiedType DEF IInv
  <2> QED
    BY <1>3, <1>6, <2>1 DEF PlainShape, Victims
<1>7. ASSUME NEW s \in Schemes
      PROVE  regBar'[s] = IF s \in Victims(t) THEN EmptySlot ELSE regBar[s]
  <2>1. CASE \E i \in Occupied : engines[i].scheme = s
    <3>1. PICK i \in Occupied : engines[i].scheme = s
      BY <2>1
    <3>2. CASE PurgeMatch(engines[i], op[t], arg[t])
      <4>1. \A j \in Occupied : engines[j].scheme = s => j = i
        BY <3>1 DEF IInv, SchemesUnique
      <4>2. regBar'[s] = EmptySlot
        BY <1>1, <1>4, <1>5, <3>2, <4>1 DEF MapShape
      <4> QED
        BY <1>6, <3>1, <3>2, <4>2
    <3>3. CASE ~PurgeMatch(engines[i], op[t], arg[t])
      <4>1. regBar'[s] = engines[i]
        BY <1>1, <1>4, <1>5, <3>1, <3>3 DEF MapShape
      <4> QED
        BY <1>6, <3>1, <3>3, <4>1
    <3> QED
      BY <3>2, <3>3
  <2>2. CASE \A i \in Occupied : engines[i].scheme # s
    <3>1. regBar[s] = EmptySlot
      BY <1>3, <2>2 DEF PlainShape
    <3>2. regBar'[s] = EmptySlot
      BY <1>1, <1>4, <1>5, <2>2 DEF MapShape
    <3> QED
      BY <3>1, <3>2
  <2> QED
    BY <2>1, <2>2
<1>8. Pending(t)' = Victims(t)
  <2>1. ASSUME NEW s \in Schemes
        PROVE  s \in Pending(t)' <=>
                  \E i \in Occupied : /\ engines[i].scheme = s
                                      /\ PurgeMatch(engines[i], op[t], arg[t])
    BY <1>1, <1>2, RegistryAssumption DEF Pending, Occupied, Vacant
  <2>2. ASSUME NEW s \in Schemes
        PROVE  s \in Victims(t) <=>
                  \E i \in Occupied : /\ engines[i].scheme = s
                                      /\ PurgeMatch(engines[i], op[t], arg[t])
    <3>1. CASE \E i \in Occupied : engines[i].scheme = s
      <4>1. PICK i \in Occupied : engines[i].scheme = s
        BY <3>1
      <4>2. \A j \in Occupied : engines[j].scheme = s => j = i
        BY <4>1 DEF IInv, SchemesUnique
      <4> QED
        BY <1>6, <4>1, <4>2
    <3>2. CASE \A i \in Occupied : engines[i].scheme # s
      BY <1>3, <3>2 DEF PlainShape, Victims
    <3> QED
      BY <3>1, <3>2
  <2>3. Pending(t)' \subseteq Schemes /\ Victims(t) \subseteq Schemes
    BY DEF Pending, Victims
  <2> QED
    BY <2>1, <2>2, <2>3
<1>9. IsFiniteSet(Victims(t)) /\ Cardinality(Victims(t)) \in Nat
  <2>1. Victims(t) \subseteq Schemes
    BY DEF Victims
  <2> QED
    BY <2>1, RegistryAssumption, FS_Subset, FS_CardinalityType
<1>10. regBar' = [s \in Schemes |-> IF s \in Victims(t) THEN Map!NoEngine ELSE regBar[s]]
  BY <1>4, <1>7 DEF MapShape, Map!NoEngine, EmptySlot
<1>11. tallyBar' = [tallyBar EXCEPT ![t] = Cardinality(Victims(t))]
  <2>1. tallyBar' = [u \in Threads |-> IF t = u /\ op[u] \in PurgeOps
                                      THEN count[u] + Cardinality(Pending(u)') ELSE 0]
    BY <1>1 DEF tallyBar
  <2>2. count[t] + Cardinality(Pending(t)') = Cardinality(Victims(t))
    BY <1>2, <1>8, <1>9
  <2> QED
    BY <1>3, <2>1, <2>2 DEF PlainShape
<1> QED
  BY <1>1, <1>10, <1>11, SameCardinality DEF Map!Purge

(* The two purges remove what mq_unregister_constructor() and              *)
(* mq_unregister_all() are to remove.                                      *)
LEMMA PurgeSeen ==
    ASSUME IInv, IInv', NEW t \in Threads, WrLock(t), op[t] \in PurgeOps
    PROVE  \/ \E k \in Constructors : Map!UnregisterConstructor(t, k)
           \/ \E h \in Handles : Map!UnregisterAll(t, h)
<1>1. \A s \in Schemes : regBar[s] # EmptySlot => ~Vacant(regBar[s])
  <2>1. writer = Null
    BY DEF WrLock
  <2>2. PlainShape
    BY <2>1, Plain DEF NoPurge
  <2>3. ASSUME NEW s \in Schemes, regBar[s] # EmptySlot
        PROVE  ~Vacant(regBar[s])
    <3>1. PICK i \in Occupied : engines[i].scheme = s
      BY <2>2, <2>3 DEF PlainShape
    <3> QED
      BY <2>2, <3>1 DEF PlainShape, Occupied
  <2> QED
    BY <2>3
<1>2. CASE op[t] = "unregister_constructor"
  <2>1. arg[t].construct \in Constructors
    BY <1>2 DEF IInv, CallInv, CallFrame
  <2>2. Victims(t) = {s \in Map!Served : regBar[s].construct = arg[t].construct}
    BY <1>1, <1>2
    DEF Victims, Map!Served, Map!NoEngine, EmptySlot, PurgeMatch,
        UnregisterConstructorMatch
  <2> QED
    BY <2>1, <2>2, PurgeBegins DEF Map!UnregisterConstructor
<1>3. CASE op[t] = "unregister_all"
  <2>1. arg[t].handle \in Handles
    BY DEF IInv, TypeOK, Args
  <2>2. Victims(t) = {s \in Map!Served : regBar[s].handle = arg[t].handle}
    BY <1>1, <1>3
    DEF Victims, Map!Served, Map!NoEngine, EmptySlot, PurgeMatch, UnregisterAllMatch
  <2> QED
    BY <2>1, <2>2, PurgeBegins DEF Map!UnregisterAll
<1> QED
  BY <1>2, <1>3 DEF PurgeOps

LEMMA PendingFinite ==
    ASSUME NEW t
    PROVE  IsFiniteSet(Pending(t)) /\ Cardinality(Pending(t)) \in Nat
<1>1. Pending(t) \subseteq Schemes
  BY DEF Pending
<1> QED
  BY <1>1, RegistryAssumption, FS_Subset, FS_CardinalityType

(* Each slot that is cleared moves one engine from those that are pending  *)
(* to the count.                                                           *)
LEMMA PendingCleared ==
    ASSUME IInv, NEW t \in Threads, PurgeClear(t)
    PROVE  count'[t] + Cardinality(Pending(t)') = count[t] + Cardinality(Pending(t))
<1> DEFINE s == engines[c[t]].scheme
<1>0. /\ engines \in Seq(Slot \cup {EmptySlot}) /\ Len(engines) \in Nat
      /\ c[t] \in Nat \ {0} /\ c[t] \in 1..Len(engines) /\ count[t] \in Nat
  BY DEF IInv, TypeOK, PurgeClear, InLoop
<1>1. /\ PurgeMatch(engines[c[t]], op[t], arg[t])
      /\ engines' = [engines EXCEPT ![c[t]] = EmptySlot]
      /\ c'[t] = c[t] + 1 /\ count'[t] = count[t] + 1 /\ op' = op /\ arg' = arg
  BY DEF IInv, TypeOK, PurgeClear, NextSlot
<1>2. c[t] \in Occupied
  BY <1>0, <1>1
  DEF PurgeMatch, UnregisterConstructorMatch, UnregisterAllMatch, Occupied
<1>3. s \in Schemes /\ s \in Pending(t)
  BY <1>0, <1>1, <1>2, OccupiedType DEF IInv, Pending
<1>4. ASSUME NEW i \in (c[t] + 1)..Len(engines), engines[i].scheme \in Schemes
      PROVE  engines[i].scheme # s
  <2>1. i \in Occupied /\ i # c[t]
    BY <1>0, <1>4, RegistryAssumption DEF Occupied, Vacant
  <2> QED
    BY <1>2, <2>1 DEF IInv, SchemesUnique
<1>5. /\ Len(engines') = Len(engines)
      /\ \A i \in (c[t] + 1)..Len(engines) : engines'[i] = engines[i]
  BY <1>0, <1>1
<1>6. Pending(t)' = {r \in Schemes : \E i \in (c[t] + 1)..Len(engines) :
                        engines[i].scheme = r /\ PurgeMatch(engines[i], op[t], arg[t])}
  BY <1>1, <1>5 DEF Pending
<1>7. ASSUME NEW r \in Schemes
      PROVE  r \in Pending(t)' <=> r \in Pending(t) \ {s}
  <2>1. CASE r = s
    BY <1>4, <1>6, <2>1
  <2>2. CASE r # s
    BY <1>0, <1>6, <2>2 DEF Pending
  <2> QED
    BY <2>1, <2>2
<1>8. Pending(t)' = Pending(t) \ {s}
  BY <1>6, <1>7 DEF Pending
<1>9. IsFiniteSet(Pending(t)) /\ Cardinality(Pending(t)) \in Nat
  BY PendingFinite
<1>10. Cardinality(Pending(t)') = Cardinality(Pending(t)) - 1
  <2>1. Cardinality(Pending(t) \ {s}) = Cardinality(Pending(t)) - 1
    BY <1>3, <1>9, FS_RemoveElement
  <2> QED
    BY <1>8, <2>1
<1>11. count'[t] = count[t] + 1 /\ count[t] \in Nat
  BY <1>0, <1>1
<1> QED
  BY <1>9, <1>10, <1>11

LEMMA PendingSkipped ==
    ASSUME IInv, NEW t \in Threads, PurgeSkip(t)
    PROVE  count'[t] + Cardinality(Pending(t)') = count[t] + Cardinality(Pending(t))
<1>0. /\ Len(engines) \in Nat /\ c[t] \in Nat \ {0}
  BY DEF IInv, TypeOK
<1>1. /\ ~PurgeMatch(engines[c[t]], op[t], arg[t]) /\ engines' = engines
      /\ c'[t] = c[t] + 1 /\ count' = count /\ op' = op /\ arg' = arg
  BY DEF IInv, TypeOK, PurgeSkip, NextSlot
<1>2. ASSUME NEW i \in c[t]..Len(engines), PurgeMatch(engines[i], op[t], arg[t])
      PROVE  i \in (c[t] + 1)..Len(engines)
  BY <1>0, <1>1, <1>2
<1>3. Pending(t)' = Pending(t)
  BY <1>0, <1>1, <1>2 DEF Pending
<1>4. Cardinality(Pending(t)') = Cardinality(Pending(t))
  BY <1>3
<1>5. count'[t] = count[t] /\ count[t] \in Nat
  BY <1>1 DEF IInv, TypeOK
<1> QED
  BY <1>4, <1>5, PendingFinite

(* The loop of a purge clears what the map no longer shows.                *)
LEMMA PurgeUnseen ==
    ASSUME IInv, IInv', NEW t \in Threads, PurgeClear(t) \/ PurgeSkip(t)
    PROVE  regBar' = regBar /\ tallyBar' = tallyBar
<1>0. /\ engines \in Seq(Slot \cup {EmptySlot}) /\ Len(engines) \in Nat
      /\ c[t] \in 1..Len(engines)
  <2>1. engines \in Seq(Slot \cup {EmptySlot}) /\ c[t] \in Nat \ {0}
    BY DEF IInv, TypeOK
  <2>2. c[t] <= Len(engines)
    BY DEF PurgeClear, PurgeSkip, InLoop
  <2> QED
    BY <2>1, <2>2
<1>1. /\ writer = t /\ writer' = writer /\ op[t] \in PurgeOps /\ op' = op
      /\ arg' = arg /\ t # Null
  BY RegistryAssumption DEF IInv, LockInv, PurgeClear, PurgeSkip, NextSlot, InLoop
<1>2. /\ Occupied' \subseteq Occupied
      /\ \A i \in Occupied' : engines'[i] = engines[i]
      /\ \A i \in Occupied : ~Doomed(engines[i]) => i \in Occupied'
  <2>1. CASE PurgeClear(t)
    <3>1. /\ engines' = [engines EXCEPT ![c[t]] = EmptySlot]
          /\ Doomed(engines[c[t]])
      BY <1>1, <2>1 DEF PurgeClear, Doomed
    <3>2. /\ Len(engines') = Len(engines) /\ Vacant(engines'[c[t]])
          /\ \A i \in 1..Len(engines) : i # c[t] => engines'[i] = engines[i]
      BY <1>0, <3>1 DEF Vacant, EmptySlot
    <3> QED
      BY <3>1, <3>2 DEF Occupied, Vacant
  <2>2. CASE PurgeSkip(t)
    BY <2>2 DEF PurgeSkip, Occupied
  <2> QED
    BY <2>1, <2>2
<1>3. \A i \in Occupied' : Doomed(engines[i])' <=> Doomed(engines[i])
  BY <1>1, <1>2 DEF Doomed
<1>4. MapShape /\ MapShape'
  BY Shape, ShapeNext
<1>5. ASSUME NEW s \in Schemes
      PROVE  regBar'[s] = regBar[s]
  <2>1. CASE \E i \in Occupied : engines[i].scheme = s /\ ~Doomed(engines[i])
    <3>1. PICK i \in Occupied : engines[i].scheme = s /\ ~Doomed(engines[i])
      BY <2>1
    <3>2. i \in Occupied' /\ engines'[i] = engines[i] /\ ~Doomed(engines[i])'
      BY <1>2, <1>3, <3>1
    <3> QED
      BY <1>4, <3>1, <3>2 DEF MapShape
  <2>2. CASE \A i \in Occupied : engines[i].scheme = s => Doomed(engines[i])
    <3>1. \A i \in Occupied' : engines'[i].scheme = s => Doomed(engines[i])'
      BY <1>2, <1>3, <2>2
    <3> QED
      BY <1>4, <2>2, <3>1 DEF MapShape
  <2> QED
    BY <2>1, <2>2
<1>6. regBar' = regBar
  BY <1>4, <1>5 DEF MapShape
<1>7. count'[t] + Cardinality(Pending(t)') = count[t] + Cardinality(Pending(t))
  BY PendingCleared, PendingSkipped
<1>8. \A u \in Threads : tallyBar'[u] = tallyBar[u]
  BY <1>1, <1>7 DEF tallyBar
<1>9. tallyBar' = tallyBar
  BY <1>8 DEF tallyBar
<1> QED
  BY <1>6, <1>9

(* The purge reports how many engines it took from the map.                *)
LEMMA PurgeReturns ==
    ASSUME IInv, IInv', NEW t \in Threads, PurgeDone(t)
    PROVE  Map!PurgeReturn(t)
<1>1. /\ writer = t /\ op[t] \in PurgeOps /\ pc[t] = "scan" /\ c[t] > Len(engines)
      /\ writer' = Null /\ ret' = [ret EXCEPT ![t] = count[t]]
      /\ UNCHANGED <<engines, found>>
  BY DEF IInv, LockInv, PurgeDone, LoopDone, Return
<1>2. c[t] \in Nat /\ Len(engines) \in Nat /\ count[t] \in Nat
  BY DEF IInv, TypeOK
<1>3. \A i \in 1..Len(engines) : ~PurgeMatch(engines[i], op[t], arg[t])
  BY <1>1, <1>2 DEF IInv, RemoveInv, RemoveLoop
<1>4. Pending(t) = {}
  BY <1>1, <1>2 DEF Pending
<1>5. tallyBar[t] = count[t]
  <2>1. Cardinality(Pending(t)) = 0
    BY <1>4, FS_EmptySet
  <2>2. tallyBar[t] = count[t] + Cardinality(Pending(t))
    BY <1>1 DEF tallyBar
  <2> QED
    BY <1>2, <2>1, <2>2
<1>6. PlainShape' /\ MapShape
  BY <1>1, PlainNext, Shape DEF NoPurge
<1>7. Occupied' = Occupied
  BY <1>1 DEF Occupied
<1>8. \A i \in Occupied : ~Doomed(engines[i])
  BY <1>1, <1>3 DEF Occupied, Doomed
<1>9. ASSUME NEW s \in Schemes
      PROVE  regBar'[s] = regBar[s]
  <2>1. CASE \E i \in Occupied : engines[i].scheme = s
    BY <1>1, <1>6, <1>7, <1>8, <2>1 DEF MapShape, PlainShape
  <2>2. CASE \A i \in Occupied : engines[i].scheme # s
    BY <1>1, <1>6, <1>7, <2>2 DEF MapShape, PlainShape
  <2> QED
    BY <2>1, <2>2
<1>10. regBar' = regBar
  BY <1>6, <1>9 DEF MapShape, PlainShape
<1>11. tallyBar' = [tallyBar EXCEPT ![t] = 0]
  BY <1>1, <1>6 DEF PlainShape, tallyBar
<1> QED
  BY <1>1, <1>5, <1>10, <1>11 DEF Map!PurgeReturn

-----------------------------------------------------------------------------
(* The theorem.                                                            *)

(* The steps the map does not see: calls and their way to the lock, the    *)
(* loops, the initialisation, the end of a constructor.                    *)
LEMMA OtherStepsUnseen ==
    ASSUME IInv, IInv', NEW t \in Threads,
           \/ Call(t) \/ (WrLock(t) /\ op[t] \notin PurgeOps)
           \/ RegisterSpare(t) \/ RegisterSkip(t) \/ RegisterAbsent(t)
           \/ UnregisterSkip(t) \/ OnceRun(t) \/ OnceSkip(t) \/ InitBuiltin(t)
           \/ InitDone(t) \/ RdLock(t) \/ LookupSkip(t) \/ Construct(t)
    PROVE  UNCHANGED Map!mapVars
<1>0. pc \in [Threads -> PCs] /\ found \in [Threads -> Slot \cup {EmptySlot, Null}]
  BY DEF IInv, TypeOK
<1>1. CASE WrLock(t) /\ op[t] \notin PurgeOps
  <2>1. /\ writer = Null /\ writer' = t /\ op' = op
        /\ UNCHANGED <<engines, ret, found>>
    BY <1>1 DEF WrLock
  <2>2. PlainShape /\ PlainShape'
    BY <1>1, <2>1, Plain, PlainNext DEF NoPurge
  <2> QED
    BY <2>1, <2>2, PlainKept DEF Map!mapVars
<1>2. CASE Call(t) \/ OnceRun(t) \/ OnceSkip(t) \/ InitBuiltin(t) \/ InitDone(t)
  <2>1. pc[t] \in {"idle", "init", "once"} /\ UNCHANGED <<engines, writer, ret, found>>
    BY <1>2
    DEF Call, CallRegister, CallUnregister, CallUnregisterConstructor,
        CallUnregisterAll, CallCreate, MayCall, Invoke, OnceRun, OnceSkip,
        InitBuiltin, InitDone
  <2>2. writer # t
    BY <2>1, RegistryAssumption DEF IInv, LockInv
  <2> QED
    BY <1>2, <2>1, <2>2, Unseen DEF IInv, Step, TableStep, Map!mapVars
<1>3. CASE RdLock(t) \/ LookupSkip(t)
  <2>1. pc[t] \in {"rdlock", "lookup"} /\ UNCHANGED <<engines, writer, ret, found>>
    BY <1>3 DEF RdLock, LookupSkip, NextSlot
  <2>2. writer # t
    BY <2>1, RegistryAssumption DEF IInv, LockInv
  <2> QED
    BY <1>3, <2>1, <2>2, Unseen DEF IInv, Step, TableStep, Map!mapVars
<1>4. CASE Construct(t)
  <2>1. pc[t] = "construct" /\ UNCHANGED <<engines, writer, ret>> /\ found' = found
    BY <1>0, <1>4 DEF Construct, EndCreate
  <2>2. writer # t
    BY <2>1, RegistryAssumption DEF IInv, LockInv
  <2> QED
    BY <1>4, <2>1, <2>2, Unseen DEF IInv, Step, TableStep, Map!mapVars
<1>5. CASE \/ RegisterSpare(t) \/ RegisterSkip(t) \/ RegisterAbsent(t)
           \/ UnregisterSkip(t)
  <2>1. /\ op[t] \notin PurgeOps /\ op' = op
        /\ UNCHANGED <<engines, writer, ret, found>>
    BY <1>5
    DEF RegisterSpare, RegisterSkip, RegisterAbsent, UnregisterSkip, InLoop,
        LoopDone, NextSlot, PurgeOps
  <2> QED
    BY <1>5, <2>1, Unseen DEF IInv, Step, TableStep, Map!mapVars
<1> QED
  BY <1>1, <1>2, <1>3, <1>4, <1>5

(* A step of a thread is a step of the map or does not concern it.         *)
LEMMA MapStep ==
    ASSUME IInv, IInv', NEW t \in Threads, Call(t) \/ Step(t)
    PROVE  Map!Next \/ UNCHANGED Map!mapVars
<1>1. CASE RegisterReplace(t) \/ RegisterInsert(t)
  BY <1>1, RegisterSeen DEF Map!Next
<1>2. CASE RegisterNoMemory(t)
  BY <1>2, NoMemorySeen DEF Map!Next
<1>3. CASE UnregisterClear(t) \/ UnregisterAbsent(t)
  <2>1. arg[t].scheme \in Schemes /\ arg[t].handle \in Handles
    BY <1>3
    DEF IInv, TypeOK, Args, CallInv, CallFrame, UnregisterClear, UnregisterAbsent,
        InLoop, LoopDone
  <2> QED
    BY <1>3, <2>1, UnregisterSeen, UnregisterAbsentSeen DEF Map!Next
<1>4. CASE WrLock(t) /\ op[t] \in PurgeOps
  BY <1>4, PurgeSeen DEF Map!Next
<1>5. CASE PurgeClear(t) \/ PurgeSkip(t)
  BY <1>5, PurgeUnseen DEF PurgeClear, PurgeSkip, NextSlot, Map!mapVars
<1>6. CASE PurgeDone(t)
  BY <1>6, PurgeReturns DEF Map!Next
<1>7. CASE LookupHit(t)
  BY <1>7, LookupSeen DEF Map!Next
<1>8. CASE LookupMiss(t) \/ ConstructFails(t)
  BY <1>8, CreateFailsSeen DEF Map!Next
<1>9. CASE Collect(t)
  BY <1>9, CollectSeen DEF Map!Next
<1>10. CASE \/ Call(t) \/ (WrLock(t) /\ op[t] \notin PurgeOps)
            \/ RegisterSpare(t) \/ RegisterSkip(t) \/ RegisterAbsent(t)
            \/ UnregisterSkip(t) \/ OnceRun(t) \/ OnceSkip(t) \/ InitBuiltin(t)
            \/ InitDone(t) \/ RdLock(t) \/ LookupSkip(t) \/ Construct(t)
  BY <1>10, OtherStepsUnseen
<1> QED
  BY <1>1, <1>2, <1>3, <1>4, <1>5, <1>6, <1>7, <1>8, <1>9, <1>10
  DEF Step, TableStep

(* engine.c keeps the promises of EngineMap: its calls act on the table as *)
(* if each were a single step, in spite of the loops that other threads'   *)
(* calls are interleaved with, and return what that step says.             *)
THEOREM MapImplemented == Spec => MapSpec
<1>1. Init => Map!Init
  <2> SUFFICES ASSUME Init
               PROVE  Map!Init
    OBVIOUS
  <2>1. IInv
    BY InitIInv
  <2>2. PlainShape
    BY <2>1, Plain DEF Init, NoPurge
  <2>3. Occupied = {}
    BY DEF Init, Occupied
  <2>4. regBar = [s \in Schemes |-> EmptySlot]
    BY <2>2, <2>3 DEF PlainShape
  <2> QED
    BY <2>2, <2>4 DEF Init, PlainShape, Map!Init, Map!NoEngine, EmptySlot
<1>2. IInv /\ IInv' /\ [Next]_vars => [Map!Next]_(Map!mapVars)
  <2> SUFFICES ASSUME IInv, IInv', [Next]_vars
               PROVE  [Map!Next]_(Map!mapVars)
    OBVIOUS
  <2>1. CASE Next
    BY <2>1, MapStep DEF Next
  <2>2. CASE UNCHANGED vars
    BY <2>2
    DEF vars, Map!mapVars, regBar, tallyBar, Shown, Occupied, Doomed, Pending
  <2> QED
    BY <2>1, <2>2
<1> QED
  BY <1>1, <1>2, Invariant, PTL DEF Spec, MapSpec, Map!Spec
=============================================================================
