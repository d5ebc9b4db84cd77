--------------------------- MODULE RandomQueueProofs ---------------------------
(***************************************************************************)
(* Proofs about RandomQueue, for any messages, partitions and clusters.    *)
(*                                                                         *)
(* PartitionResolves is not inductive: it follows from what the pointers   *)
(* are (PointersInv).  That there are as many strings as pointers to them  *)
(* (CopiesOwned) is what keeps the count from becoming negative.           *)
(***************************************************************************)
EXTENDS RandomQueue, FiniteSetTheorems, TLAPS

TypeInv ==
    /\ life \in {"new", "open", "closed"}
    /\ q \in [state : {"DISCONNECTED", "RECV"}, err : Errors,
              cluster : Clusters \cup {Null}, partition : Names \cup {Null}]
    /\ life = "open" <=> q.state = "RECV"
    /\ handle \in [MsgHandles -> Strings \cup {Null, Dead}]
    /\ asked \in [MsgHandles \cup {Null} -> Strings \cup {Null}]
    /\ missed \in BOOLEAN
    /\ last \in [call : Calls, ok : BOOLEAN]

(* The pointers are to the strings last asked for, unless a cluster's      *)
(* could not be copied; before and after the connection there is no        *)
(* message.                                                                *)
PointersInv ==
    /\ life = "new" => asked[Null] = Null
    /\ life # "open" => q = Constructed /\ \A m \in MsgHandles : handle[m] = Dead
    /\ life = "open" /\ ~missed => q.partition = Kept(asked[Null])
    /\ \A m \in Live : handle[m] = asked[m]

(* The messages that have a string of their own.                           *)
Owners(h) == {m \in MsgHandles : h[m] \in Strings}

CopiesInv ==
    copies \in 0..MaxCopies /\ Copy(q.partition) + Cardinality(Owners(handle)) <= copies

IInv == TypeInv /\ PointersInv /\ CopiesInv

-----------------------------------------------------------------------------
LEMMA OwnersLive ==
    ASSUME TypeInv
    PROVE  InUse = Copy(q.partition) + Cardinality(Owners(handle))
<1>1. {m \in Live : handle[m] # Null} = Owners(handle)
    BY RandomAssumption DEF TypeInv, Owners, Live, Strings
<1> QED
    BY <1>1 DEF InUse

(* How the number of owners changes with one pointer.                      *)
LEMMA OneOwner ==
    ASSUME NEW h \in [MsgHandles -> Strings \cup {Null, Dead}], NEW m \in MsgHandles,
           NEW p \in Strings \cup {Null, Dead}
    PROVE  /\ Cardinality(Owners(h)) \in Nat /\ Cardinality(Owners([h EXCEPT ![m] = p])) \in Nat
           /\ Cardinality(Owners([h EXCEPT ![m] = p])) + (IF h[m] \in Strings THEN 1 ELSE 0)
                 = Cardinality(Owners(h)) + (IF p \in Strings THEN 1 ELSE 0)
<1> DEFINE g == [h EXCEPT ![m] = p]
           O == Owners(h) \ {m}
<1>1. IsFiniteSet(MsgHandles)
    BY RandomAssumption
<1>2. IsFiniteSet(Owners(h)) /\ IsFiniteSet(Owners(g)) /\ IsFiniteSet(O)
    BY <1>1, FS_Subset DEF Owners
<1>3. m \notin O
    OBVIOUS
<1>4. Cardinality(O \cup {m}) = Cardinality(O) + 1
    BY <1>2, <1>3, FS_AddElement
<1>5. Owners(h) = IF h[m] \in Strings THEN O \cup {m} ELSE O
    BY DEF Owners
<1>6. Owners(g) = IF p \in Strings THEN O \cup {m} ELSE O
    BY DEF Owners
<1>7. Cardinality(O) \in Nat
    BY <1>2, FS_CardinalityType
<1> HIDE DEF g, O
<1>8. Cardinality(Owners(h)) = IF h[m] \in Strings THEN Cardinality(O) + 1 ELSE Cardinality(O)
    BY <1>4, <1>5
<1>9. Cardinality(Owners(g)) = IF p \in Strings THEN Cardinality(O) + 1 ELSE Cardinality(O)
    BY <1>4, <1>6
<1>10. /\ Cardinality(Owners(h)) \in Nat /\ Cardinality(Owners(g)) \in Nat
       /\ Cardinality(Owners(g)) + (IF h[m] \in Strings THEN 1 ELSE 0)
             = Cardinality(Owners(h)) + (IF p \in Strings THEN 1 ELSE 0)
    BY <1>7, <1>8, <1>9
<1> QED
    BY <1>10 DEF g

LEMMA InitInv == Init => IInv
<1> SUFFICES ASSUME Init PROVE IInv
    OBVIOUS
<1> USE RandomAssumption DEF Init
<1>1. TypeInv
    BY DEF TypeInv, Constructed, Errors, Calls, Strings
<1>2. PointersInv
    BY DEF PointersInv, Live
<1>3. CopiesInv
  <2>1. Owners(handle) = {}
    BY DEF Owners, Strings
  <2>2. Cardinality(Owners(handle)) = 0
    BY <2>1, FS_EmptySet
  <2> QED
    BY <2>2 DEF CopiesInv, Copy, Constructed
<1> QED
    BY <1>1, <1>2, <1>3 DEF IInv

-----------------------------------------------------------------------------
(* The calls that leave the partitions alone.                              *)
LEMMA QuietStep ==
    ASSUME IInv, NEW call \in Calls, NEW ok \in BOOLEAN, NEW e \in Errors, Quiet(call, ok, e)
    PROVE  IInv'
<1>1. TypeInv'
    BY DEF IInv, TypeInv, Quiet, Returns
<1>2. PointersInv'
    BY DEF IInv, TypeInv, PointersInv, Quiet, Live
<1>3. CopiesInv'
    BY DEF IInv, TypeInv, CopiesInv, Quiet
<1> QED
    BY <1>1, <1>2, <1>3 DEF IInv

(* A call that changes the partition of the connection, k its cluster.     *)
LEMMA PartitionStep ==
    ASSUME IInv, life = "open", NEW p \in Strings \cup {Null}, NEW k \in Clusters \cup {Null},
           NEW call \in Calls,
           Replace(q.partition, Kept(p)),
           q' = [q EXCEPT !.cluster = k, !.partition = Kept(p)],
           asked' = [asked EXCEPT ![Null] = p],
           missed' = FALSE,
           Returns(call, TRUE),
           UNCHANGED <<life, handle>>
    PROVE  IInv'
<1> USE RandomAssumption
<1>1. Kept(p) \in Names \cup {Null}
    BY DEF Kept, Strings
<1>2. TypeInv'
    BY <1>1 DEF IInv, TypeInv, Returns
<1>3. q'.partition = Kept(p) /\ asked'[Null] = p
    BY DEF IInv, TypeInv
<1>4. \A m \in MsgHandles : asked'[m] = asked[m]
    BY DEF IInv, TypeInv
<1>5. PointersInv'
    BY <1>3, <1>4 DEF IInv, PointersInv, Live
<1>6. CopiesInv'
  <2>1. IsFiniteSet(Owners(handle))
    BY FS_Subset DEF Owners
  <2>2. Cardinality(Owners(handle)) \in Nat
    BY <2>1, FS_CardinalityType
  <2>3. copies \in Nat /\ Copy(q.partition) + Cardinality(Owners(handle)) <= copies
    BY DEF IInv, CopiesInv
  <2>4. copies' = copies + Copy(Kept(p)) - Copy(q.partition) /\ copies' <= MaxCopies
    BY DEF Replace
  <2>5. Copy(Kept(p)) \in {0, 1} /\ Copy(q.partition) \in {0, 1}
    BY DEF Copy
  <2>6. copies' \in 0..MaxCopies /\ Copy(Kept(p)) + Cardinality(Owners(handle)) <= copies'
    BY <2>2, <2>3, <2>4, <2>5
  <2> QED
    BY <2>6, <1>3 DEF CopiesInv
<1> QED
    BY <1>2, <1>5, <1>6 DEF IInv

(* A call that changes the partition of a message, or the message.         *)
LEMMA MessageStep ==
    ASSUME IInv, life = "open", NEW m \in MsgHandles, NEW p \in Strings \cup {Null, Dead},
           NEW call \in Calls, NEW e \in Errors,
           handle' = [handle EXCEPT ![m] = p],
           asked' = IF p = Dead THEN asked ELSE [asked EXCEPT ![m] = p],
           copies' \in 0..MaxCopies,
           copies' + (IF handle[m] \in Strings THEN 1 ELSE 0)
              >= copies + (IF p \in Strings THEN 1 ELSE 0),
           q' = [q EXCEPT !.err = e],
           Returns(call, TRUE),
           UNCHANGED <<life, missed>>
    PROVE  IInv'
<1> USE RandomAssumption
<1>1. TypeInv'
    BY DEF IInv, TypeInv, Returns
<1>2. q'.partition = q.partition
    BY DEF IInv, TypeInv
<1>3. asked'[Null] = asked[Null] /\ \A o \in MsgHandles \ {m} : asked'[o] = asked[o]
    BY DEF IInv, TypeInv
<1>4. p # Dead => asked'[m] = p
    BY DEF IInv, TypeInv
<1>5. handle'[m] = p /\ \A o \in MsgHandles \ {m} : handle'[o] = handle[o]
    BY DEF IInv, TypeInv
<1>6. PointersInv'
    BY <1>2, <1>3, <1>4, <1>5 DEF IInv, PointersInv, Live
<1>7. CopiesInv'
  <2>1. /\ Cardinality(Owners(handle)) \in Nat /\ Cardinality(Owners(handle')) \in Nat
        /\ Cardinality(Owners(handle')) + (IF handle[m] \in Strings THEN 1 ELSE 0)
              = Cardinality(Owners(handle)) + (IF p \in Strings THEN 1 ELSE 0)
    BY OneOwner DEF IInv, TypeInv
  <2>2. copies \in Nat /\ Copy(q.partition) + Cardinality(Owners(handle)) <= copies
    BY DEF IInv, CopiesInv
  <2>3. Copy(q.partition) \in {0, 1}
    BY DEF Copy
  <2>4. Copy(q.partition) + Cardinality(Owners(handle')) <= copies'
    BY <2>1, <2>2, <2>3
  <2> QED
    BY <2>4, <1>2 DEF CopiesInv
<1> QED
    BY <1>1, <1>6, <1>7 DEF IInv

LEMMA NextInv == ASSUME IInv, [Next]_vars PROVE IInv'
<1> USE RandomAssumption
<1>1. CASE ConnectRecv
  <2>1. q = Constructed /\ asked[Null] = Null /\ life' = "open"
        /\ q' = [Constructed EXCEPT !.state = "RECV"]
        /\ UNCHANGED <<handle, copies, asked, missed>>
    BY <1>1 DEF ConnectRecv, IInv, PointersInv
  <2>2. TypeInv'
    BY <1>1, <2>1 DEF ConnectRecv, IInv, TypeInv, Constructed, Errors, Returns, Calls
  <2>3. PointersInv'
    BY <2>1 DEF IInv, PointersInv, Live, Constructed, Kept
  <2>4. CopiesInv'
    BY <2>1 DEF IInv, CopiesInv, Constructed
  <2> QED
    BY <2>2, <2>3, <2>4 DEF IInv
<1>2. CASE ConnectFails
  <2>1. TypeInv'
    BY <1>2 DEF ConnectFails, IInv, TypeInv, Returns, Calls
  <2>2. PointersInv' /\ CopiesInv'
    BY <1>2 DEF ConnectFails, IInv, PointersInv, CopiesInv, Live
  <2> QED
    BY <2>1, <2>2 DEF IInv
<1>3. CASE Disconnect
  <2>1. /\ life' = "closed" /\ q' = Constructed /\ handle' = [m \in MsgHandles |-> Dead]
        /\ UNCHANGED <<copies, asked, missed>>
    BY <1>3 DEF Disconnect
  <2>2. TypeInv'
    BY <1>3, <2>1 DEF Disconnect, IInv, TypeInv, Constructed, Errors, Returns, Calls
  <2>3. PointersInv'
    BY <2>1 DEF PointersInv, Live
  <2>4. CopiesInv'
    <3>1. Owners(handle') = {}
      BY <2>1 DEF Owners, Strings
    <3>2. Cardinality(Owners(handle')) = 0
      BY <3>1, FS_EmptySet
    <3>3. Copy(q'.partition) = 0
      BY <2>1 DEF Copy, Constructed
    <3>4. copies \in 0..MaxCopies
      BY DEF IInv, CopiesInv
    <3> QED
      BY <2>1, <3>2, <3>3, <3>4 DEF CopiesInv
  <2> QED
    BY <2>2, <2>3, <2>4 DEF IInv
<1>4. CASE NextNoMemory \/ Create \/ Deliver
    BY <1>4, QuietStep DEF NextNoMemory, Create, Deliver, Calls, Errors
<1>5. ASSUME NEW p \in Strings \cup {Null}, SetPartition(p)
      PROVE  IInv'
  <2>1. q' = [q EXCEPT !.cluster = q.cluster, !.partition = Kept(p)]
    BY <1>5 DEF SetPartition, IInv, TypeInv
  <2>2. q.cluster \in Clusters \cup {Null}
    BY DEF IInv, TypeInv
  <2> QED
    BY <1>5, <2>1, <2>2, PartitionStep DEF SetPartition, Calls
<1>6. ASSUME NEW p, SetPartitionFails(p)
      PROVE  IInv'
  <2>1. TypeInv'
    BY <1>6 DEF SetPartitionFails, IInv, TypeInv, Returns, Calls
  <2>2. PointersInv' /\ CopiesInv'
    BY <1>6 DEF SetPartitionFails, IInv, PointersInv, CopiesInv, Live
  <2> QED
    BY <2>1, <2>2 DEF IInv
<1>7. ASSUME NEW k \in Clusters, SetCluster(k)
      PROVE  IInv'
  <2>1. PartitionOf[k] \in Strings \cup {Null}
    BY DEF Strings
  <2> QED
    BY <1>7, <2>1, PartitionStep DEF SetCluster, Calls
<1>8. ASSUME NEW k \in Clusters, SetClusterNoMemory(k)
      PROVE  IInv'
  <2>1. /\ q' = [q EXCEPT !.cluster = k] /\ missed' = TRUE /\ life = "open"
        /\ asked' = [asked EXCEPT ![Null] = PartitionOf[k]]
        /\ UNCHANGED <<life, handle, copies>>
    BY <1>8 DEF SetClusterNoMemory
  <2>2. TypeInv'
    BY <1>8, <2>1 DEF SetClusterNoMemory, IInv, TypeInv, Returns, Calls, Strings
  <2>3. q'.partition = q.partition /\ \A m \in MsgHandles : asked'[m] = asked[m]
    BY <2>1 DEF IInv, TypeInv
  <2>4. PointersInv' /\ CopiesInv'
    BY <2>1, <2>3 DEF IInv, PointersInv, CopiesInv, Live
  <2> QED
    BY <2>2, <2>4 DEF IInv
<1>9. ASSUME NEW m \in MsgHandles, NextMessage(m)
      PROVE  IInv'
  <2>1. /\ life = "open" /\ handle[m] = Dead
        /\ handle' = [handle EXCEPT ![m] = Null] /\ asked' = [asked EXCEPT ![m] = Null]
        /\ UNCHANGED <<life, q, copies, missed>> /\ Returns("next", TRUE)
    BY <1>9 DEF NextMessage
  <2>2. q' = [q EXCEPT !.err = q.err] /\ q.err \in Errors
    BY <2>1 DEF IInv, TypeInv
  <2>3. Null \notin Strings /\ Null # Dead /\ handle[m] \notin Strings /\ "next" \in Calls
    BY <2>1 DEF Strings, Calls
  <2>4. copies' \in 0..MaxCopies
    BY <2>1 DEF IInv, CopiesInv
  <2>5. copies' + (IF handle[m] \in Strings THEN 1 ELSE 0)
           >= copies + (IF Null \in Strings THEN 1 ELSE 0)
    BY <2>1, <2>3, <2>4
  <2> QED
    BY <2>1, <2>2, <2>3, <2>4, <2>5, MessageStep
<1>10. ASSUME NEW m \in MsgHandles, Dispose(m)
       PROVE  IInv'
  <2>1. /\ life = "open" /\ handle' = [handle EXCEPT ![m] = Dead]
        /\ q' = [q EXCEPT !.err = "none"]
        /\ UNCHANGED <<life, copies, asked, missed>> /\ Returns("dispose", TRUE)
    BY <1>10 DEF Dispose
  <2>2. Dead \notin Strings /\ "dispose" \in Calls /\ "none" \in Errors
    BY DEF Strings, Calls, Errors
  <2>3. copies' \in 0..MaxCopies
    BY <2>1 DEF IInv, CopiesInv
  <2>4. copies' + (IF handle[m] \in Strings THEN 1 ELSE 0)
           >= copies + (IF Dead \in Strings THEN 1 ELSE 0)
    BY <2>1, <2>2, <2>3
  <2> QED
    BY <2>1, <2>2, <2>3, <2>4, MessageStep
<1>11. ASSUME NEW m \in MsgHandles, GetField(m) \/ Setter(m)
       PROVE  IInv'
    BY <1>11, QuietStep DEF GetField, Setter, Calls, Errors
<1>12. ASSUME NEW m \in MsgHandles, NEW p \in Strings \cup {Null}, SetMessagePartition(m, p)
       PROVE  IInv'
  <2>1. /\ life = "open" /\ m \in Live /\ Replace(handle[m], p)
        /\ handle' = [handle EXCEPT ![m] = p] /\ asked' = [asked EXCEPT ![m] = p]
        /\ UNCHANGED <<life, q, missed>> /\ Returns("set_message_partition", TRUE)
    BY <1>12 DEF SetMessagePartition
  <2>2. q' = [q EXCEPT !.err = q.err] /\ q.err \in Errors
    BY <2>1 DEF IInv, TypeInv
  <2>3. /\ Copy(p) = IF p \in Strings THEN 1 ELSE 0
        /\ Copy(handle[m]) = IF handle[m] \in Strings THEN 1 ELSE 0
    BY <2>1 DEF Copy, Strings, Live, IInv, TypeInv
  <2>4. p # Dead /\ "set_message_partition" \in Calls
    BY DEF Strings, Calls
  <2>5. /\ copies \in Nat /\ Copy(q.partition) + Cardinality(Owners(handle)) <= copies
        /\ Copy(q.partition) \in {0, 1}
    BY DEF IInv, CopiesInv, Copy
  <2>6. copies' \in 0..MaxCopies
    <3>0. handle \in [MsgHandles -> Strings \cup {Null, Dead}]
      BY DEF IInv, TypeInv
    <3>1. /\ Cardinality(Owners(handle)) \in Nat
          /\ Cardinality(Owners([handle EXCEPT ![m] = p])) \in Nat
          /\ Cardinality(Owners([handle EXCEPT ![m] = p])) + Copy(handle[m])
                = Cardinality(Owners(handle)) + Copy(p)
      <4>1. p \in Strings \cup {Null, Dead}
        OBVIOUS
      <4>2. /\ Cardinality(Owners(handle)) \in Nat
            /\ Cardinality(Owners([handle EXCEPT ![m] = p])) \in Nat
            /\ Cardinality(Owners([handle EXCEPT ![m] = p])) + (IF handle[m] \in Strings THEN 1 ELSE 0)
                  = Cardinality(Owners(handle)) + (IF p \in Strings THEN 1 ELSE 0)
        BY <3>0, <4>1, OneOwner
      <4> QED
        BY <4>2, <2>3
    <3>2. copies' = copies + Copy(p) - Copy(handle[m]) /\ copies' <= MaxCopies
      BY <2>1 DEF Replace
    <3>3. Copy(p) \in {0, 1} /\ Copy(handle[m]) \in {0, 1}
      BY DEF Copy
    <3> QED
      BY <2>5, <3>1, <3>2, <3>3
  <2>7. copies' + (IF handle[m] \in Strings THEN 1 ELSE 0)
           >= copies + (IF p \in Strings THEN 1 ELSE 0)
    BY <2>1, <2>3, <2>5 DEF Replace
  <2> QED
    BY <2>1, <2>2, <2>4, <2>6, <2>7, MessageStep
<1>13. ASSUME NEW m, NEW p, SetMessagePartitionFails(m, p)
       PROVE  IInv'
  <2>1. TypeInv'
    BY <1>13 DEF SetMessagePartitionFails, IInv, TypeInv, Returns, Calls
  <2>2. PointersInv' /\ CopiesInv'
    BY <1>13 DEF SetMessagePartitionFails, IInv, PointersInv, CopiesInv, Live
  <2> QED
    BY <2>1, <2>2 DEF IInv
<1>14. CASE UNCHANGED vars
  <2>1. TypeInv' /\ PointersInv' /\ CopiesInv'
    BY <1>14 DEF vars, IInv, TypeInv, PointersInv, CopiesInv, Live
  <2> QED
    BY <2>1 DEF IInv
<1> QED
    BY <1>1, <1>2, <1>3, <1>4, <1>5, <1>6, <1>7, <1>8, <1>9, <1>10, <1>11, <1>12, <1>13, <1>14
       DEF Next, ConnectionCall, MessageCall

-----------------------------------------------------------------------------
LEMMA Invariance == Spec => []IInv
    BY InitInv, NextInv, PTL DEF Spec

(* The members of the connection and of its messages have their types, and *)
(* the strings are neither overdrawn nor more than there may be.           *)
THEOREM RandomTypes == Spec => []TypeOK
<1>1. IInv => TypeOK
    BY DEF IInv, TypeInv, CopiesInv, TypeOK
<1> QED
    BY Invariance, <1>1, PTL

(* A message has the partition that the comments of random.c give it, in   *)
(* every sequence of calls on the connection and on the message, but for   *)
(* the messages that rely on a cluster whose partition was not copied.     *)
THEOREM PartitionRules == Spec => []PartitionResolves
<1>1. IInv => PartitionResolves
  <2> SUFFICES ASSUME IInv, NEW m \in Live
               PROVE  LET p == IF asked[m] = Null THEN asked[Null] ELSE asked[m]
                      IN  ~(missed /\ asked[m] = Null)
                             => MessagePartition(m) = IF p = Empty THEN Null ELSE p
    BY DEF PartitionResolves
  <2>1. handle[m] = asked[m] /\ (~missed => q.partition = Kept(asked[Null]))
    BY DEF IInv, PointersInv, Live
  <2>2. handle[m] # Null => handle[m] \in Strings
    BY DEF IInv, TypeInv, Live
  <2> QED
    BY <2>1, <2>2, RandomAssumption DEF MessagePartition, Kept, Strings
<1> QED
    BY Invariance, <1>1, PTL

(* No partition in use has been freed.                                     *)
THEOREM NoStringOverdrawn == Spec => []CopiesOwned
<1>1. IInv => CopiesOwned
    BY OwnersLive DEF IInv, CopiesInv, CopiesOwned
<1> QED
    BY Invariance, <1>1, PTL

(* mq_error() tells whether the call before failed, but for the calls that *)
(* do not reset it.                                                        *)
THEOREM ErrorsTell == Spec => []ErrorTells
<1>1. Init => ErrorTells
    BY DEF Init, ErrorTells
<1>2. IInv /\ ErrorTells /\ [Next]_vars => ErrorTells'
  <2> SUFFICES ASSUME IInv, ErrorTells, [Next]_vars
               PROVE  ErrorTells'
    OBVIOUS
  <2>q. q \in [state : {"DISCONNECTED", "RECV"}, err : Errors,
               cluster : Clusters \cup {Null}, partition : Names \cup {Null}]
    BY DEF IInv, TypeInv
  <2>1. CASE UNCHANGED vars
    BY <2>1 DEF vars, ErrorTells
  <2>2. ASSUME ConnectionCall
        PROVE  ErrorTells'
    <3>1. CASE ConnectRecv \/ ConnectFails \/ Disconnect
      BY <3>1 DEF ConnectRecv, ConnectFails, Disconnect, Constructed, Returns, ErrorTells
    <3>2. CASE NextNoMemory \/ Create \/ Deliver
      BY <2>q, <3>2 DEF NextNoMemory, Create, Deliver, Quiet, Returns, ErrorTells
    <3>3. CASE \E p \in Strings \cup {Null} : SetPartition(p) \/ SetPartitionFails(p)
      BY <3>3 DEF SetPartition, SetPartitionFails, Returns, ErrorTells
    <3>4. CASE \E k \in Clusters : SetCluster(k) \/ SetClusterNoMemory(k)
      BY <3>4 DEF SetCluster, SetClusterNoMemory, Returns, ErrorTells
    <3> QED
      BY <2>2, <3>1, <3>2, <3>3, <3>4 DEF ConnectionCall
  <2>3. ASSUME NEW m \in MsgHandles, MessageCall(m)
        PROVE  ErrorTells'
    <3>1. CASE NextMessage(m)
      BY <3>1 DEF NextMessage, Returns, ErrorTells
    <3>2. CASE Dispose(m)
      BY <2>q, <3>2 DEF Dispose, Returns, ErrorTells
    <3>3. CASE GetField(m) \/ Setter(m)
      BY <2>q, <3>3 DEF GetField, Setter, Quiet, Returns, ErrorTells
    <3>4. CASE \E p \in Strings \cup {Null} :
                  SetMessagePartition(m, p) \/ SetMessagePartitionFails(m, p)
      BY <3>4 DEF SetMessagePartition, SetMessagePartitionFails, Returns, ErrorTells
    <3> QED
      BY <2>3, <3>1, <3>2, <3>3, <3>4 DEF MessageCall
  <2> QED
    BY <2>1, <2>2, <2>3 DEF Next
<1> QED
    BY Invariance, <1>1, <1>2, PTL DEF Spec
===============================================================================
