----------------------------- MODULE RandomQueue -----------------------------
(***************************************************************************)
(* A connection to the random queue and its messages: queues/random.c      *)
(* behind the calls of connection.c and message.c.                         *)
(*                                                                         *)
(* The engine only receives, and a message is always at hand; what it has  *)
(* and the AMQP engine has not is partitions.  The connection has one, set *)
(* by name or taken from a cluster, and a message may have its own.  Every *)
(* partition is a copy on the heap, which `copies' counts.                 *)
(*                                                                         *)
(* A connection belongs to one thread, so a call is one action.  The       *)
(* cluster comes from libcluster, which is not part of the repository.     *)
(***************************************************************************)
EXTENDS Integers, FiniteSets

CONSTANTS
    MsgHandles,   \* the MQMESSAGE objects there is room for
    Names,        \* the names of partitions that are not empty
    Empty,        \* the empty string
    Clusters,     \* the CLUSTER objects
    PartitionOf,  \* cluster_partition() of each
    MaxCopies,    \* bound on the copies that exist at a time
    Null, Dead    \* NULL, and a mark for a handle that is no message

ASSUME RandomAssumption ==
    /\ IsFiniteSet(MsgHandles)
    /\ Null \notin MsgHandles \cup Names \cup Clusters \cup {Empty}
    /\ Empty \notin Names
    /\ Dead \notin Names \cup {Empty, Null}
    /\ PartitionOf \in [Clusters -> Names \cup {Empty, Null}]
    /\ MaxCopies \in Nat

VARIABLES
    life,     \* "new", "open" or "closed"
    q,        \* the MQ object: state, err, cluster and partition
    handle,   \* the partition of each live message; Dead for the others
    copies,   \* the strings that strdup() has made and free() has not freed
    asked,    \* the partition the last call to set one asked for: for the
              \* connection (under Null) and for each message
    missed,   \* whether that call for the connection was an mq_set_cluster()
              \* that succeeded and had no memory for the partition
    last      \* the call that has returned, and whether it succeeded

vars == <<life, q, handle, copies, asked, missed, last>>

Strings == Names \cup {Empty}
Live   == {m \in MsgHandles : handle[m] # Dead}

Constructed == [state |-> "DISCONNECTED", err |-> "none", cluster |-> Null, partition |-> Null]

Errors == {"none", "EINVAL", "EPERM", "ENOMEM"}

Returns(call, ok) == last' = [call |-> call, ok |-> ok]

(* How many of the heap's strings a pointer keeps.                         *)
Copy(p) == IF p = Null THEN 0 ELSE 1

-----------------------------------------------------------------------------
(* Connections.                                                            *)

ConnectRecv ==
    /\ life = "new"
    /\ life' = "open"
    /\ q' = [Constructed EXCEPT !.state = "RECV"]
    /\ Returns("connect", TRUE)
    /\ UNCHANGED <<handle, copies, asked, missed>>

(* The constructor has no memory, or the connection is for sending, which  *)
(* the engine refuses: what was constructed is released.                   *)
ConnectFails ==
    /\ life = "new"
    /\ Returns("connect", FALSE)
    /\ UNCHANGED <<life, q, handle, copies, asked, missed>>

(* mq_random_release_() frees the connection, its URI and its message, but *)
(* not its partition.                                                      *)
Disconnect ==
    /\ life = "open"
    /\ life' = "closed"
    /\ q' = Constructed
    /\ handle' = [m \in MsgHandles |-> Dead]
    /\ Returns("disconnect", TRUE)
    /\ UNCHANGED <<copies, asked, missed>>

(* A call that does nothing but set the error of the connection.           *)
Quiet(call, ok, e) ==
    /\ life = "open"
    /\ q' = [q EXCEPT !.err = e]
    /\ Returns(call, ok)
    /\ UNCHANGED <<life, handle, copies, asked, missed>>

(* mq_next(): there is always a message.  The error is not reset.          *)
NextMessage(m) ==
    /\ life = "open" /\ handle[m] = Dead
    /\ handle' = [handle EXCEPT ![m] = Null]
    /\ asked' = [asked EXCEPT ![m] = Null]
    /\ Returns("next", TRUE)
    /\ UNCHANGED <<life, q, copies, missed>>

NextNoMemory == Quiet("next", FALSE, "ENOMEM")

(* mq_message_create() and mq_deliver() have nothing to work on.           *)
Create == Quiet("create", FALSE, "EINVAL")

Deliver ==
    IF q.state = "SEND" THEN Quiet("deliver", TRUE, "none")
                        ELSE Quiet("deliver", FALSE, "EINVAL")

-----------------------------------------------------------------------------
(* Messages.                                                               *)

(* Seeded fault: the release does not reset the error.                     *)
Dispose_KeepsError(m) ==
    /\ life = "open" /\ m \in Live
    /\ handle' = [handle EXCEPT ![m] = Dead]
    /\ Returns("dispose", TRUE)
    /\ UNCHANGED <<life, q, copies, asked, missed>>

(* mq_message_accept(), _reject(), _pass() and _free(): an incoming        *)
(* message only has to be released, which leaves its partition behind.     *)
Dispose(m) ==
    /\ life = "open" /\ m \in Live
    /\ q' = [q EXCEPT !.err = "none"]
    /\ handle' = [handle EXCEPT ![m] = Dead]
    /\ Returns("dispose", TRUE)
    /\ UNCHANGED <<life, copies, asked, missed>>

(* mq_message_kind(), _type(), _subject(), _address(), _body(), _len().    *)
GetField(m) == m \in Live /\ Quiet("get", TRUE, "none")

(* mq_message_set_type(), _set_subject(), _set_address(), _add_bytes() and *)
(* _send() are for outgoing messages, and there are none.                  *)
Setter(m) == m \in Live /\ Quiet("set", FALSE, "EPERM")

-----------------------------------------------------------------------------
(* Partitions.                                                             *)

(* The string replaces the previous one, which is freed.                   *)
Replace(old, new) ==
    /\ copies' = copies + Copy(new) - Copy(old)
    /\ copies' <= MaxCopies

(* Seeded fault: the test of the first character is missing.               *)
Kept_KeepsEmpty(p) == p

(* An empty string unsets the partition of a connection.                   *)
Kept(p) == IF p = Empty THEN Null ELSE p

(* mq_set_partition()                                                      *)
SetPartition(p) ==
    /\ life = "open"
    /\ Replace(q.partition, Kept(p))
    /\ q' = [q EXCEPT !.partition = Kept(p)]
    /\ asked' = [asked EXCEPT ![Null] = p]
    /\ missed' = FALSE
    /\ Returns("set_partition", TRUE)
    /\ UNCHANGED <<life, handle>>

(* Seeded fault: the old partition is freed before the new one is copied.  *)
SetPartitionFails_FreesFirst(p) ==
    /\ life = "open" /\ Kept(p) # Null
    /\ copies' = copies - Copy(q.partition)
    /\ Returns("set_partition", FALSE)
    /\ UNCHANGED <<life, q, handle, asked, missed>>

(* strdup() fails: errno is set and the connection's error is not.         *)
SetPartitionFails(p) ==
    /\ life = "open" /\ Kept(p) # Null
    /\ Returns("set_partition", FALSE)
    /\ UNCHANGED <<life, q, handle, copies, asked, missed>>

(* mq_set_cluster(): the connection takes the partition of the cluster.    *)
SetCluster(k) ==
    /\ life = "open"
    /\ Replace(q.partition, Kept(PartitionOf[k]))
    /\ q' = [q EXCEPT !.cluster = k, !.partition = Kept(PartitionOf[k])]
    /\ asked' = [asked EXCEPT ![Null] = PartitionOf[k]]
    /\ missed' = FALSE
    /\ Returns("set_cluster", TRUE)
    /\ UNCHANGED <<life, handle>>

(* The copy fails, and mq_random_set_cluster_() succeeds all the same.     *)
SetClusterNoMemory(k) ==
    /\ life = "open" /\ Kept(PartitionOf[k]) # Null
    /\ q' = [q EXCEPT !.cluster = k]
    /\ asked' = [asked EXCEPT ![Null] = PartitionOf[k]]
    /\ missed' = TRUE
    /\ Returns("set_cluster", TRUE)
    /\ UNCHANGED <<life, handle, copies>>

(* Seeded fault: the empty string is treated as for a connection.          *)
SetMessagePartition_DropsEmpty(m, p) ==
    /\ life = "open" /\ m \in Live
    /\ Replace(handle[m], Kept(p))
    /\ handle' = [handle EXCEPT ![m] = Kept(p)]
    /\ asked' = [asked EXCEPT ![m] = p]
    /\ Returns("set_message_partition", TRUE)
    /\ UNCHANGED <<life, q, missed>>

(* mq_message_set_partition(): here an empty string is copied.             *)
SetMessagePartition(m, p) ==
    /\ life = "open" /\ m \in Live
    /\ Replace(handle[m], p)
    /\ handle' = [handle EXCEPT ![m] = p]
    /\ asked' = [asked EXCEPT ![m] = p]
    /\ Returns("set_message_partition", TRUE)
    /\ UNCHANGED <<life, q, missed>>

SetMessagePartitionFails(m, p) ==
    /\ life = "open" /\ m \in Live /\ p # Null
    /\ Returns("set_message_partition", FALSE)
    /\ UNCHANGED <<life, q, handle, copies, asked, missed>>

(* What mq_message_partition() returns.                                    *)
MessagePartition(m) ==
    CASE handle[m] = Null  -> q.partition
      [] handle[m] = Empty -> Null
      [] OTHER             -> handle[m]

-----------------------------------------------------------------------------
Init ==
    /\ life = "new"
    /\ q = Constructed
    /\ handle = [m \in MsgHandles |-> Dead]
    /\ copies = 0
    /\ asked = [m \in MsgHandles \cup {Null} |-> Null]
    /\ missed = FALSE
    /\ last = [call |-> "none", ok |-> TRUE]

ConnectionCall ==
    \/ ConnectRecv \/ ConnectFails \/ Disconnect
    \/ NextNoMemory \/ Create \/ Deliver
    \/ \E p \in Strings \cup {Null} : SetPartition(p) \/ SetPartitionFails(p)
    \/ \E k \in Clusters : SetCluster(k) \/ SetClusterNoMemory(k)

MessageCall(m) ==
    \/ NextMessage(m) \/ Dispose(m) \/ GetField(m) \/ Setter(m)
    \/ \E p \in Strings \cup {Null} :
          SetMessagePartition(m, p) \/ SetMessagePartitionFails(m, p)

Next == ConnectionCall \/ \E m \in MsgHandles : MessageCall(m)

Spec == Init /\ [][Next]_vars

-----------------------------------------------------------------------------
(* Correctness.                                                            *)

Calls ==
    {"none", "connect", "disconnect", "next", "create", "deliver", "dispose", "get", "set",
     "set_partition", "set_cluster", "set_message_partition"}

(* The strings that the connection and the live messages point to.         *)
InUse == Copy(q.partition) + Cardinality({m \in Live : handle[m] # Null})

(* Every variable has its type; only a connection to receive exists, and   *)
(* its partition is never the empty string, which its messages rely on.    *)
TypeOK ==
    /\ life \in {"new", "open", "closed"}
    /\ q \in [state : {"DISCONNECTED", "RECV"}, err : Errors,
              cluster : Clusters \cup {Null}, partition : Names \cup {Null}]
    /\ life = "open" <=> q.state = "RECV"
    /\ handle \in [MsgHandles -> Strings \cup {Null, Dead}]
    /\ copies \in 0..MaxCopies
    /\ asked \in [MsgHandles \cup {Null} -> Strings \cup {Null}]
    /\ missed \in BOOLEAN
    /\ last \in [call : Calls, ok : BOOLEAN]

(* The rules of random.c:493 and :521: a message has the partition that    *)
(* was set for it last, none if that was the empty string, and if it was   *)
(* NULL or never set, the one last asked for its connection, by name or by *)
(* cluster, not the one at the time the message arrived.  This does not    *)
(* hold of messages without a partition of their own once a cluster's      *)
(* could not be copied: that call succeeds and the old partition stays     *)
(* (random.c:304), although libmq.h:72-74 says that it is overridden.      *)
PartitionResolves ==
    \A m \in Live :
       LET p == IF asked[m] = Null THEN asked[Null] ELSE asked[m]
       IN  ~(missed /\ asked[m] = Null)
              => MessagePartition(m) = IF p = Empty THEN Null ELSE p

(* Every partition that the connection or a live message points to is a    *)
(* string of its own that has not been freed, also after a call that had   *)
(* no memory for a new one.                                                *)
CopiesOwned == InUse <= copies

(* mq_error() is set exactly if the call before failed, whatever failed    *)
(* earlier.  This is not so after mq_next(), which leaves the error of an  *)
(* earlier call when it succeeds, and after the calls that set partitions, *)
(* which leave it when they fail as well.                                  *)
ErrorTells ==
    /\ life = "open"
    /\ last.call \notin {"set_partition", "set_cluster", "set_message_partition"}
    /\ last.call = "next" => ~last.ok
    => (q.err = "none" <=> last.ok)
=============================================================================
