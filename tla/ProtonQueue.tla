----------------------------- MODULE ProtonQueue -----------------------------
(***************************************************************************)
(* A connection to an AMQP queue and its messages: queues/qpid-proton.c    *)
(* behind the calls of connection.c and message.c.                         *)
(*                                                                         *)
(* A connection belongs to one thread, so a call is one action.  The       *)
(* application makes any sequence of calls on handles that are alive; each *)
(* action says which call it is, how it may fail and what it returns.      *)
(*                                                                         *)
(* The Proton messenger and the broker behind it are not part of the       *)
(* repository.  Of the messenger the model keeps what libmq relies on: the *)
(* messages it has buffered, the window of deliveries whose trackers it    *)
(* still knows, and the messages put but not sent.  A tracker outside the  *)
(* window is ignored by pn_messenger_accept(), _reject() and _settle().    *)
(***************************************************************************)
EXTENDS Integers, Sequences, FiniteSets

CONSTANTS
    MsgHandles,  \* the MQMESSAGE objects there is room for
    Window,      \* window_size, 1 in mq_proton_construct_()
    Uri,         \* the URI of the connection
    Types, Subjects, Addresses, Chunks,  \* arguments of the setters
    Arrivals,    \* how many messages the broker has for the connection
    MaxPuts,     \* bound on the messages sent
    MaxChunks,   \* bound on the mq_message_add_bytes() of one message
    Null

ASSUME QueueAssumption ==
    /\ Window \in Nat \ {0}
    /\ Arrivals \in Nat /\ MaxPuts \in Nat /\ MaxChunks \in Nat
    /\ Null \notin MsgHandles \cup Types \cup Subjects \cup Addresses \cup Chunks \cup {Uri}

VARIABLES
    life,        \* "new", "open" or "closed": the MQ object exists when open
    q,           \* its members: state, err and whether messenger is set
    messengers,  \* pn_messenger() objects allocated and not freed
    handle,      \* the live MQMESSAGE objects, Null for those that are not
    inbox,       \* messages the broker has not handed over
    incoming,    \* messages the messenger has buffered
    log,         \* the deliveries got from the messenger, by tracker
    tracked,     \* the trackers in its incoming window
    outgoing,    \* messages put and not sent
    sent,        \* messages the broker has received
    last         \* the call that failed, "set_cluster" for mq_set_cluster(),
                 \* which does not, or "ok" for any other that succeeded

external  == <<inbox, incoming, log, tracked, outgoing, sent>>
vars == <<life, q, messengers, handle, external, last>>

Errors       == {"none", "EINVAL", "ENOMEM", "proton"}
Dispositions == {"none", "accepted", "rejected"}

Blank == [type |-> Null, subject |-> Null, address |-> Null, body |-> <<>>]

(* Seeded fault: the message is not zeroed when it is allocated.           *)
NewMessage_Uninitialised(kind, tracker) ==
    [kind |-> kind, tracker |-> IF kind = "incoming" THEN tracker ELSE -1,
     addressed |-> FALSE, body |-> kind = "incoming", content |-> Blank, want |-> Blank]

(* A fresh MQMESSAGE: content is its pn_message_t, want what the           *)
(* application asked for, body whether self->body is set.                  *)
NewMessage(kind, tracker) ==
    [kind |-> kind, tracker |-> tracker, addressed |-> FALSE,
     body |-> kind = "incoming", content |-> Blank, want |-> Blank]

Live == {m \in MsgHandles : handle[m] # Null}

-----------------------------------------------------------------------------
(* The macros of libmq-engine.h and the internal functions, on the MQ.     *)

ResetError(mq) == [mq EXCEPT !.err = "none"]

SetError(mq, e) == [mq EXCEPT !.err = e]

Constructed == [state |-> "DISCONNECTED", err |-> "none", messenger |-> FALSE]

(* Seeded fault: the pointer to the freed messenger is kept.               *)
DisconnectInternal_KeepsPointer(mq) == [mq EXCEPT !.state = "DISCONNECTED"]

DisconnectInternal(mq) == [mq EXCEPT !.state = "DISCONNECTED", !.messenger = FALSE]

Freed(mq) == IF mq.messenger THEN 1 ELSE 0

Succeeds    == last' = "ok"
Fails(call) == last' = call

-----------------------------------------------------------------------------
(* The messenger.                                                          *)

(* pn_messenger_get(): the delivery enters the window and the oldest one   *)
(* leaves it if the window was full.                                       *)
PnGet(available, decoded) ==
    LET n == Len(log) + 1
    IN  /\ incoming' = available - 1
        /\ log' = Append(log, [state |-> "none", asked |-> "none", decoded |-> decoded])
        /\ tracked' = {i \in tracked \cup {n} : i > n - Window}

(* pn_messenger_accept() or _reject(), on a log of deliveries.             *)
PnUpdate(lg, n, d) == IF n \in tracked THEN [lg EXCEPT ![n].state = d] ELSE lg

(* pn_messenger_recv(): some messages arrive, if the connection subscribed.*)
PnRecv(k) == k \in 0..(IF q.state = "RECV" THEN inbox ELSE 0)

-----------------------------------------------------------------------------
(* mq_connect_recv(), mq_connect_send(): construct, connect, release when  *)
(* that fails.                                                             *)

ConnectRecv ==
    /\ life = "new"
    /\ life' = "open"
    /\ q' = [ResetError(Constructed) EXCEPT !.messenger = TRUE, !.state = "RECV"]
    /\ messengers' = messengers + 1
    /\ Succeeds
    /\ UNCHANGED <<handle, external>>

ConnectSend ==
    /\ life = "new"
    /\ life' = "open"
    /\ q' = [ResetError(Constructed) EXCEPT !.messenger = TRUE, !.state = "SEND"]
    /\ messengers' = messengers + 1
    /\ Succeeds
    /\ UNCHANGED <<handle, external>>

(* pn_messenger() fails, so there is none to free; nor is there one when   *)
(* the constructor fails.                                                  *)
ConnectNoMemory ==
    /\ life = "new"
    /\ messengers' = messengers - Freed(Constructed)
    /\ Fails("connect")
    /\ UNCHANGED <<life, q, handle, external>>

(* The messenger does not start or cannot subscribe: connect_*() drops it, *)
(* and so does the release that follows, unless it is dropped already.     *)
ConnectFails ==
    /\ life = "new"
    /\ LET started == [Constructed EXCEPT !.messenger = TRUE]
           dropped == DisconnectInternal(started)
       IN  messengers' = messengers + 1 - Freed(started) - Freed(dropped)
    /\ Fails("connect")
    /\ UNCHANGED <<life, q, handle, external>>

(* mq_disconnect(): the messenger may get rid of some pending messages     *)
(* while it stops; the others are lost with it.                            *)
Disconnect ==
    /\ life = "open"
    /\ life' = "closed"
    /\ messengers' = messengers - Freed(q)
    /\ q' = DisconnectInternal(q)
    /\ \E j \in 0..Len(outgoing) : sent' = sent \o SubSeq(outgoing, 1, j)
    /\ outgoing' = <<>>
    /\ tracked' = {}
    /\ incoming' = 0
    /\ handle' = [m \in MsgHandles |-> Null]
    /\ Succeeds
    /\ UNCHANGED <<inbox, log>>

-----------------------------------------------------------------------------
(* mq_next().  What is buffered is taken first; only when nothing is does  *)
(* it wait for arrivals, k of them.                                        *)

Arrive(k) == IF incoming > 0 THEN k = 0 ELSE PnRecv(k)

NextFails(k, e) ==
    /\ Arrive(k)
    /\ inbox' = inbox - k
    /\ q' = SetError(ResetError(q), e)
    /\ Fails("next")
    /\ UNCHANGED <<life, messengers, handle, outgoing, sent>>

(* pn_messenger_recv() reports an error.                                   *)
NextRecvError ==
    /\ life = "open" /\ incoming = 0
    /\ \E k \in 0..inbox : NextFails(k, "proton") /\ incoming' = incoming + k
    /\ UNCHANGED <<log, tracked>>

(* It reports none, but nothing has arrived: the error is set to 0.        *)
NextNothing ==
    /\ life = "open" /\ incoming = 0
    /\ NextFails(0, "none")
    /\ UNCHANGED <<incoming, log, tracked>>

NextNoMemory ==
    /\ life = "open"
    /\ \E k \in 0..inbox :
          /\ incoming + k > 0
          /\ NextFails(k, "ENOMEM")
          /\ incoming' = incoming + k
    /\ UNCHANGED <<log, tracked>>

(* pn_messenger_get() cannot decode the message it has taken.              *)
NextGetFails ==
    /\ life = "open"
    /\ \E k \in 0..inbox :
          /\ incoming + k > 0
          /\ NextFails(k, "proton")
          /\ PnGet(incoming + k, FALSE)

(* Seeded fault: the tracker is read before the message is got.            *)
NextMessage_TrackerFirst(m) ==
    /\ life = "open" /\ handle[m] = Null
    /\ \E k \in 0..inbox :
          /\ Arrive(k)
          /\ incoming + k > 0
          /\ inbox' = inbox - k
          /\ PnGet(incoming + k, TRUE)
    /\ handle' = [handle EXCEPT ![m] = NewMessage("incoming", Len(log))]
    /\ q' = ResetError(q)
    /\ Succeeds
    /\ UNCHANGED <<life, messengers, outgoing, sent>>

NextMessage(m) ==
    /\ life = "open" /\ handle[m] = Null
    /\ \E k \in 0..inbox :
          /\ Arrive(k)
          /\ incoming + k > 0
          /\ inbox' = inbox - k
          /\ PnGet(incoming + k, TRUE)
    /\ handle' = [handle EXCEPT ![m] = NewMessage("incoming", Len(log) + 1)]
    /\ q' = ResetError(q)
    /\ Succeeds
    /\ UNCHANGED <<life, messengers, outgoing, sent>>

-----------------------------------------------------------------------------
(* Disposing of a message.                                                 *)

(* Seeded fault: the message is freed and its delivery is left unsettled.  *)
Release_LeavesTracker(m) ==
    /\ q' = ResetError(q)
    /\ handle' = [handle EXCEPT ![m] = Null]
    /\ UNCHANGED tracked

(* mq_proton_message_release_(): settles, frees, and resets the error.     *)
Release(m) ==
    /\ q' = ResetError(q)
    /\ tracked' = tracked \ {handle[m].tracker}
    /\ handle' = [handle EXCEPT ![m] = Null]

(* What the application asked of the delivery, on a log of deliveries.     *)
Ask(lg, n, d) == IF n = 0 THEN lg ELSE [lg EXCEPT ![n].asked = d]

(* An outgoing message cannot be accepted, rejected or passed on, but it   *)
(* is freed all the same.                                                  *)
Dispose(m) ==
    /\ life = "open" /\ m \in Live
    /\ last' = IF handle[m].kind = "incoming" THEN "ok" ELSE "disposition"
    /\ Release(m)
    /\ UNCHANGED <<life, messengers, inbox, incoming, outgoing, sent>>

Incoming(m) == handle[m].kind = "incoming"

(* Seeded fault: the delivery is settled before it is accepted.            *)
Accept_SettlesFirst(m) ==
    /\ Dispose(m)
    /\ log' = Ask(log, handle[m].tracker, "accepted")

Accept(m) ==
    /\ Dispose(m)
    /\ LET n == handle[m].tracker
       IN  log' = IF Incoming(m) THEN PnUpdate(Ask(log, n, "accepted"), n, "accepted") ELSE log

Reject(m) ==
    /\ Dispose(m)
    /\ LET n == handle[m].tracker
       IN  log' = IF Incoming(m) THEN PnUpdate(Ask(log, n, "rejected"), n, "rejected") ELSE log

Pass(m) ==
    /\ Dispose(m)
    /\ UNCHANGED log

Free(m) ==
    /\ life = "open" /\ m \in Live
    /\ Release(m)
    /\ Succeeds
    /\ UNCHANGED <<life, messengers, inbox, incoming, log, outgoing, sent>>

-----------------------------------------------------------------------------
(* The other calls on a message.                                           *)

(* A call that leaves the queues alone, with the error it sets.            *)
Quiet(outcome, e) ==
    /\ life = "open"
    /\ q' = SetError(ResetError(q), e)
    /\ last' = outcome
    /\ UNCHANGED <<life, messengers, external>>

(* mq_message_kind(), _type(), _subject(), _address().                     *)
GetField(m) ==
    /\ m \in Live
    /\ Quiet("ok", "none")
    /\ UNCHANGED handle

(* mq_message_body(), _len(): an outgoing message has none until something *)
(* was added.                                                              *)
GetBody(m) ==
    /\ m \in Live
    /\ IF handle[m].body THEN Quiet("ok", "none") ELSE Quiet("get", "EINVAL")
    /\ UNCHANGED handle

Create(m) ==
    /\ handle[m] = Null
    /\ Quiet("ok", "none")
    /\ handle' = [handle EXCEPT ![m] = NewMessage("outgoing", 0)]

(* calloc() fails and errno is kept; or pn_message() fails, and the error  *)
(* of the messenger, which knows nothing of it, is kept.                   *)
CreateFails ==
    /\ \E e \in {"ENOMEM", "none"} : Quiet("create", e)
    /\ UNCHANGED handle

Setter(m, new) ==
    /\ m \in Live
    /\ ~Incoming(m)
    /\ Quiet("ok", "none")
    /\ handle' = [handle EXCEPT ![m] = new]

(* Not an outgoing message; or Proton has no memory for the value, and its *)
(* error code is returned but not kept.                                    *)
SetterFails(m) ==
    /\ m \in Live
    /\ IF Incoming(m) THEN Quiet("set", "EINVAL") ELSE Quiet("set", "none")
    /\ UNCHANGED handle

SetType(m, v) ==
    Setter(m, [handle[m] EXCEPT !.content.type = v, !.want.type = v])

(* It is the content type that mq_proton_message_set_subject_() sets.      *)
SetSubject(m, v) ==
    Setter(m, [handle[m] EXCEPT !.content.type = v, !.want.subject = v])

SetAddress(m, v) ==
    Setter(m, [handle[m] EXCEPT !.content.address = v, !.want.address = v,
                                !.addressed = TRUE])

AddBytes(m, v) ==
    /\ m \in Live
    /\ Len(handle[m].content.body) < MaxChunks
    /\ Setter(m, [handle[m] EXCEPT !.body = TRUE,
                                   !.content.body = Append(@, v),
                                   !.want.body = Append(@, v)])

(* pn_data_put_binary() fails, after self->body is set.                    *)
AddBytesFails(m) ==
    /\ m \in Live
    /\ ~Incoming(m)
    /\ Quiet("set", "none")
    /\ handle' = [handle EXCEPT ![m].body = TRUE]

-----------------------------------------------------------------------------
(* Sending.                                                                *)

SendInvalid(m) ==
    /\ m \in Live
    /\ Incoming(m)
    /\ Quiet("send", "EINVAL")
    /\ UNCHANGED handle

(* The default address cannot be set: the messenger has no error to keep.  *)
SendNoAddress(m) ==
    /\ m \in Live
    /\ ~Incoming(m) /\ ~handle[m].addressed
    /\ Quiet("send", "none")
    /\ UNCHANGED handle

(* Seeded fault: every message goes to the connection's own address.       *)
Destination_AlwaysUri(msg) == Uri

Destination(msg) == IF msg.addressed THEN msg.content.address ELSE Uri

Addressed(m) == [handle[m] EXCEPT !.content.address = Destination(handle[m])]

PutFails(m) ==
    /\ m \in Live
    /\ ~Incoming(m)
    /\ Quiet("send", "proton")
    /\ handle' = [handle EXCEPT ![m] = Addressed(m)]

(* Seeded fault: RESET_ERROR is missing.                                   *)
Send_KeepsError(m) ==
    /\ life = "open" /\ m \in Live
    /\ ~Incoming(m)
    /\ Len(outgoing) + Len(sent) < MaxPuts
    /\ handle' = [handle EXCEPT ![m] = Addressed(m)]
    /\ outgoing' = Append(outgoing, [content |-> Addressed(m).content, want |-> handle[m].want])
    /\ Succeeds
    /\ UNCHANGED <<life, q, messengers, inbox, incoming, log, tracked, sent>>

(* Seeded fault: the message is freed once it is sent.                     *)
Send_Frees(m) ==
    /\ life = "open" /\ m \in Live
    /\ ~Incoming(m)
    /\ Len(outgoing) + Len(sent) < MaxPuts
    /\ q' = ResetError(q)
    /\ handle' = [handle EXCEPT ![m] = Null]
    /\ outgoing' = Append(outgoing, [content |-> Addressed(m).content, want |-> handle[m].want])
    /\ Succeeds
    /\ UNCHANGED <<life, messengers, inbox, incoming, log, tracked, sent>>

(* mq_message_send(): the messenger keeps a copy of the message.           *)
Send(m) ==
    /\ life = "open" /\ m \in Live
    /\ ~Incoming(m)
    /\ Len(outgoing) + Len(sent) < MaxPuts
    /\ q' = ResetError(q)
    /\ handle' = [handle EXCEPT ![m] = Addressed(m)]
    /\ outgoing' = Append(outgoing, [content |-> Addressed(m).content, want |-> handle[m].want])
    /\ Succeeds
    /\ UNCHANGED <<life, messengers, inbox, incoming, log, tracked, sent>>

DeliverInvalid ==
    /\ q.state # "SEND"
    /\ Quiet("deliver", "EINVAL")
    /\ UNCHANGED handle

(* Some of the pending messages are sent before pn_messenger_send() fails. *)
DeliverFails ==
    /\ life = "open" /\ q.state = "SEND"
    /\ \E j \in 0..Len(outgoing) :
          /\ sent' = sent \o SubSeq(outgoing, 1, j)
          /\ outgoing' = SubSeq(outgoing, j + 1, Len(outgoing))
    /\ q' = SetError(ResetError(q), "proton")
    /\ Fails("deliver")
    /\ UNCHANGED <<life, messengers, handle, inbox, incoming, log, tracked>>

Deliver ==
    /\ life = "open" /\ q.state = "SEND"
    /\ sent' = sent \o outgoing
    /\ outgoing' = <<>>
    /\ q' = ResetError(q)
    /\ Succeeds
    /\ UNCHANGED <<life, messengers, handle, inbox, incoming, log, tracked>>

(* mq_set_partition() always fails.  It leaves the error of the connection *)
(* alone: it is that of an earlier call.                                   *)
SetPartition ==
    /\ life = "open"
    /\ Fails("set_partition")
    /\ UNCHANGED <<life, q, messengers, handle, external>>

(* mq_set_cluster() always succeeds, and leaves the error alone as well.   *)
SetCluster ==
    /\ life = "open"
    /\ last' = "set_cluster"
    /\ UNCHANGED <<life, q, messengers, handle, external>>

-----------------------------------------------------------------------------
Init ==
    /\ life = "new"
    /\ q = Constructed
    /\ messengers = 0
    /\ handle = [m \in MsgHandles |-> Null]
    /\ inbox = Arrivals
    /\ incoming = 0
    /\ log = <<>>
    /\ tracked = {}
    /\ outgoing = <<>>
    /\ sent = <<>>
    /\ last = "ok"

ConnectionCall ==
    \/ ConnectRecv \/ ConnectSend \/ ConnectNoMemory \/ ConnectFails \/ Disconnect
    \/ NextRecvError \/ NextNothing \/ NextNoMemory \/ NextGetFails
    \/ CreateFails \/ DeliverInvalid \/ DeliverFails \/ Deliver
    \/ SetPartition \/ SetCluster

MessageCall(m) ==
    \/ NextMessage(m) \/ Accept(m) \/ Reject(m) \/ Pass(m) \/ Free(m)
    \/ GetField(m) \/ GetBody(m) \/ Create(m)
    \/ \E v \in Types : SetType(m, v)
    \/ \E v \in Subjects : SetSubject(m, v)
    \/ \E v \in Addresses : SetAddress(m, v)
    \/ \E v \in Chunks : AddBytes(m, v)
    \/ SetterFails(m) \/ AddBytesFails(m)
    \/ SendInvalid(m) \/ SendNoAddress(m) \/ PutFails(m) \/ Send(m)

Next == ConnectionCall \/ \E m \in MsgHandles : MessageCall(m)

Spec == Init /\ [][Next]_vars

-----------------------------------------------------------------------------
(* Correctness.                                                            *)

Contents ==
    [type : Types \cup Subjects \cup {Null}, subject : Subjects \cup {Null},
     address : Addresses \cup {Uri, Null}, body : Seq(Chunks)]

Messages ==
    [kind : {"incoming", "outgoing"}, tracker : Nat, addressed : BOOLEAN,
     body : BOOLEAN, content : Contents, want : Contents]

(* NULL is no message and no tracker.                                      *)
ASSUME NullAssumption == Null \notin Nat \cup Messages

Deliveries == [state : Dispositions, asked : Dispositions, decoded : BOOLEAN]

Transfers == [content : Contents, want : Contents]

Outcomes ==
    {"ok", "connect", "next", "disposition", "get", "create", "set", "send",
     "deliver", "set_partition", "set_cluster"}

(* Every variable has its type, the messenger's window is not overrun and  *)
(* an outgoing message has no tracker.                                     *)
TypeOK ==
    /\ life \in {"new", "open", "closed"}
    /\ q \in [state : {"DISCONNECTED", "RECV", "SEND"}, err : Errors, messenger : BOOLEAN]
    /\ messengers \in Int
    /\ handle \in [MsgHandles -> Messages \cup {Null}]
    /\ \A m \in Live : handle[m].kind = "incoming" <=> handle[m].tracker # 0
    /\ inbox \in Nat /\ incoming \in Nat
    /\ log \in Seq(Deliveries)
    /\ tracked \in SUBSET ((Len(log) - Window + 1)..Len(log) \cap (1..Len(log)))
    /\ outgoing \in Seq(Transfers) /\ sent \in Seq(Transfers)
    /\ last \in Outcomes

(* A connection has one messenger, and there is none without a connection: *)
(* whichever step of connecting fails, mq_proton_disconnect_internal_()    *)
(* and the release that connection.c adds free the messenger exactly once. *)
MessengerBalance ==
    messengers = (IF life = "open" THEN 1 ELSE 0) /\ (life = "open" <=> q.messenger)

(* A delivery ends up as the application disposed of it, or untouched, and *)
(* while fewer than window_size messages have been received since, it does *)
(* not stay untouched: accept and reject reach the messenger before the    *)
(* delivery is settled, by them and again by the release.                  *)
DispositionFollows ==
    \A n \in 1..Len(log) :
       /\ log[n].state \in {"none", log[n].asked}
       /\ n > Len(log) - Window => log[n].state = log[n].asked

(* A delivery does not stay in the messenger's window, a slot of which it  *)
(* takes from the others, once its message has been accepted, rejected,    *)
(* passed on or freed; one that could not be decoded has no message that   *)
(* would settle it.                                                        *)
SettledWithHandle ==
    \A n \in tracked :
       log[n].decoded => \E m \in Live : handle[m].tracker = n

(* Two messages never stand for the same delivery, and none stands for a   *)
(* delivery already disposed of.                                           *)
TrackersDistinct ==
    \A m \in Live :
       handle[m].kind = "incoming" =>
          /\ handle[m].tracker \in DOMAIN log
          /\ log[handle[m].tracker].asked = "none"
          /\ \A o \in Live : handle[o].tracker = handle[m].tracker => o = m

(* mq_error() is not set after a call that succeeded, whichever calls on   *)
(* the connection and on its messages failed before.  This does not hold   *)
(* of mq_set_cluster(), the one call that succeeds with the error of an    *)
(* earlier call still set (qpid-proton.c:412-417).                         *)
ErrorIsFresh == life = "open" /\ last = "ok" => q.err = "none"

(* A message goes where the last mq_message_set_address() said, or to the  *)
(* connection's address if there was none: also when it is sent again      *)
(* after a failure, or again with another address, because the default     *)
(* does not count as set.                                                  *)
AddressedRight ==
    \A i \in 1..Len(sent \o outgoing) :
       LET msg == (sent \o outgoing)[i]
       IN  msg.content.address = IF msg.want.address = Null THEN Uri ELSE msg.want.address

-----------------------------------------------------------------------------
(* The connection is a MessageQueue: its messages are told apart by their  *)
(* trackers, and the log says what became of the deliveries.               *)
heldBar == [m \in MsgHandles |-> IF handle[m] = Null THEN Null ELSE handle[m].tracker]
fateBar == [n \in DOMAIN log |-> log[n].state]

Queue == INSTANCE MessageQueue WITH held <- heldBar, fate <- fateBar, unsent <- outgoing

(* Every sequence of calls, whichever of them fail and whatever they leave *)
(* in the messenger, decides the fate of each delivery once, by the        *)
(* message that came with it and no other, and only if few have come       *)
(* since; and delivers what was sent in its order, once.                   *)
QueueSpec == Queue!Spec

-----------------------------------------------------------------------------
(* What the interface says and the code does not do.                       *)

(* libmq.h:68: mq_error() is the error state of the connection: a failure  *)
(* to accept, reject or pass on a message leaves one.                      *)
DispositionFailureReported == last = "disposition" => q.err # "none"

(* libmq.h:85, 87: a delivery the application accepted or rejected, with   *)
(* success, is accepted or rejected.                                       *)
DispositionHonoured ==
    \A n \in 1..Len(log) : log[n].state = log[n].asked

(* libmq.h:103: mq_message_set_subject() sets the subject of the message.  *)
SubjectDelivered ==
    \A i \in 1..Len(sent) : sent[i].content.subject = sent[i].want.subject
=============================================================================
