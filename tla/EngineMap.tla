------------------------------ MODULE EngineMap ------------------------------
(***************************************************************************)
(* What the registration API of libmq-engine.h promises, without slots,    *)
(* locks or loops: a map from schemes to the engines that serve them, on   *)
(* which every call takes effect at one instant.                           *)
(*                                                                         *)
(* The two calls that remove several engines take effect when they get     *)
(* hold of the map and report afterwards how many they removed.            *)
(***************************************************************************)
EXTENDS Integers, FiniteSets

CONSTANTS Threads, Schemes, Constructors, Handles, Null

VARIABLES
    reg,    \* the engine of each scheme, or NoEngine
    tally,  \* how many engines the pending removal of each thread took
    ret,    \* what the registration call of each thread returns, or Null
    found   \* the engine each thread's look-up found, NoEngine, or Null

mapVars == <<reg, tally, ret, found>>

Engine   == [scheme : Schemes, construct : Constructors, handle : Handles]
NoEngine == [scheme |-> Null, construct |-> Null, handle |-> Null]

Init ==
    /\ reg   = [s \in Schemes |-> NoEngine]
    /\ tally = [t \in Threads |-> 0]
    /\ ret   = [t \in Threads |-> Null]
    /\ found = [t \in Threads |-> Null]

(* mq_register(): the last registration of a scheme wins.                  *)
Register(t, e) ==
    /\ reg' = [reg EXCEPT ![e.scheme] = e]
    /\ ret' = [ret EXCEPT ![t] = 0]
    /\ UNCHANGED <<tally, found>>

(* It can fail for want of memory, but never for a scheme that is served.  *)
RegisterFails(t, s) ==
    /\ reg[s] = NoEngine
    /\ ret' = [ret EXCEPT ![t] = -1]
    /\ UNCHANGED <<reg, tally, found>>

(* mq_unregister(): only the module that registered the engine removes it. *)
Unregister(t, s, h) ==
    LET owned == reg[s] # NoEngine /\ reg[s].handle = h
    IN  /\ reg' = IF owned THEN [reg EXCEPT ![s] = NoEngine] ELSE reg
        /\ ret' = [ret EXCEPT ![t] = IF owned THEN 1 ELSE 0]
        /\ UNCHANGED <<tally, found>>

Purge(t, victims) ==
    /\ reg' = [s \in Schemes |-> IF s \in victims THEN NoEngine ELSE reg[s]]
    /\ tally' = [tally EXCEPT ![t] = Cardinality(victims)]
    /\ UNCHANGED <<ret, found>>

Served == {s \in Schemes : reg[s] # NoEngine}

(* mq_unregister_constructor() *)
UnregisterConstructor(t, k) == Purge(t, {s \in Served : reg[s].construct = k})

(* mq_unregister_all() *)
UnregisterAll(t, h) == Purge(t, {s \in Served : reg[s].handle = h})

PurgeReturn(t) ==
    /\ ret' = [ret EXCEPT ![t] = tally[t]]
    /\ tally' = [tally EXCEPT ![t] = 0]
    /\ UNCHANGED <<reg, found>>

(* mq_create_() calls the constructor of the engine that serves the scheme *)
(* or fails when there is none.                                            *)
Create(t, s) ==
    /\ found' = [found EXCEPT ![t] = reg[s]]
    /\ UNCHANGED <<reg, tally, ret>>

CreateFails(t) ==
    /\ found' = [found EXCEPT ![t] = NoEngine]
    /\ UNCHANGED <<reg, tally, ret>>

(* The caller gets the result.                                             *)
Collect(t) ==
    /\ ret'   = [ret EXCEPT ![t] = Null]
    /\ found' = [found EXCEPT ![t] = Null]
    /\ UNCHANGED <<reg, tally>>

Next ==
    \E t \in Threads :
       \/ \E e \in Engine : Register(t, e)
       \/ \E s \in Schemes : RegisterFails(t, s) \/ Create(t, s)
       \/ \E s \in Schemes, h \in Handles : Unregister(t, s, h)
       \/ \E k \in Constructors : UnregisterConstructor(t, k)
       \/ \E h \in Handles : UnregisterAll(t, h)
       \/ PurgeReturn(t)
       \/ CreateFails(t)
       \/ Collect(t)

Spec == Init /\ [][Next]_mapVars
=============================================================================
