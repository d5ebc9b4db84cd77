--------------------------- MODULE ProtonQueueProofs ---------------------------
(***************************************************************************)
(* Proofs about ProtonQueue, for every window, any number of messages and  *)
(* deliveries and any arguments, and the proof that it implements          *)
(* MessageQueue.                                                           *)
(*                                                                         *)
(* Most of it follows from one fact (TrackerInv): the messages at hand     *)
(* stand for different deliveries which have not been disposed of, and one *)
(* that has not left the window because of its age is in it.               *)
(***************************************************************************)
EXTENDS ProtonQueue, SequenceTheorems, TLAPS

(* The delivery of a message at hand is open, in the window while it is    *)
(* recent, and of no other message.                                        *)
TrackerInv ==
    \A m \in Live :
       handle[m].kind = "incoming" =>
          /\ handle[m].tracker \in DOMAIN log
          /\ log[handle[m].tracker].asked = "none"
          /\ handle[m].tracker > Len(log) - Window => handle[m].tracker \in tracked
          /\ \A o \in Live : handle[o].tracker = handle[m].tracker => o = m

DeliveryInv == DispositionFollows /\ SettledWithHandle /\ TrackerInv

(* A message is addressed when the application has set its address, and    *)
(* then that is the one it has.                                            *)
AddressInv ==
    \A m \in Live :
       /\ handle[m].addressed => handle[m].want.address # Null
                                 /\ handle[m].content.address = handle[m].want.address
       /\ ~handle[m].addressed => handle[m].want.address = Null

(* The transfers that go where they should.                                *)
RightTransfers ==
    {t \in Transfers :
        t.content.address = IF t.want.address = Null THEN Uri ELSE t.want.address}

TransferInv == outgoing \in Seq(RightTransfers) /\ sent \in Seq(RightTransfers)

HandleType ==
    /\ handle \in [MsgHandles -> Messages \cup {Null}]
    /\ \A m \in Live : handle[m].kind = "incoming" <=> handle[m].tracker # 0

LogType ==
    /\ inbox \in Nat /\ incoming \in Nat
    /\ log \in Seq(Deliveries)
    /\ tracked \in SUBSET ((Len(log) - Window + 1)..Len(log) \cap (1..Len(log)))

ConnectionType ==
    /\ life \in {"new", "open", "closed"}
    /\ q \in [state : {"DISCONNECTED", "RECV", "SEND"}, err : Errors, messenger : BOOLEAN]
    /\ messengers \in Int
    /\ last \in Outcomes

ConnectionInv == ConnectionType /\ MessengerBalance /\ ErrorIsFresh
HandleInv     == HandleType /\ AddressInv /\ DeliveryInv

IInv == ConnectionInv /\ LogType /\ HandleInv /\ TransferInv

-----------------------------------------------------------------------------
(* The messages: what the operators that make and change one return.       *)

LEMMA BlankType == Blank \in Contents
    BY EmptySeq DEF Blank, Contents

LEMMA NewMessageType ==
    ASSUME NEW kind \in {"incoming", "outgoing"}, NEW n \in Nat
    PROVE  /\ NewMessage(kind, n) \in Messages
           /\ NewMessage(kind, n).kind = kind /\ NewMessage(kind, n).tracker = n
           /\ ~NewMessage(kind, n).addressed /\ NewMessage(kind, n).want.address = Null
<1>1. NewMessage(kind, n) \in Messages
  <2>1. (kind = "incoming") \in BOOLEAN
    OBVIOUS
  <2> QED
    BY <2>1, BlankType DEF NewMessage, Messages
<1>2. NewMessage(kind, n).kind = kind /\ NewMessage(kind, n).tracker = n
    BY DEF NewMessage
<1>3. ~NewMessage(kind, n).addressed
    BY DEF NewMessage
<1>4. NewMessage(kind, n).want.address = Null
    BY DEF NewMessage, Blank
<1> QED
    BY <1>1, <1>2, <1>3, <1>4

(* The messages that stand for the same delivery.                          *)
SameDelivery(a, b) == a.kind = b.kind /\ a.tracker = b.tracker

LEMMA LiveMessage ==
    ASSUME HandleType, NEW m \in Live
    PROVE  m \in MsgHandles /\ handle[m] \in Messages
    BY DEF HandleType, Live

(* A message is addressed as it should, and can be sent.                   *)
RightAddress(msg) ==
    /\ msg.addressed => msg.want.address # Null /\ msg.content.address = msg.want.address
    /\ ~msg.addressed => msg.want.address = Null

LEMMA AddressedRightly ==
    ASSUME HandleType, AddressInv, NEW m \in Live
    PROVE  /\ Addressed(m) \in Messages
           /\ SameDelivery(Addressed(m), handle[m])
           /\ RightAddress(Addressed(m))
           /\ [content |-> Addressed(m).content, want |-> handle[m].want] \in RightTransfers
<1> DEFINE msg == handle[m]
<1>1. msg \in Messages /\ msg.content \in Contents /\ msg.want \in Contents
    BY LiveMessage DEF Messages
<1>2. Destination(msg) \in Addresses \cup {Uri, Null}
    BY <1>1 DEF Destination, Contents
<1>3. Addressed(m).content = [msg.content EXCEPT !.address = Destination(msg)]
    BY <1>1 DEF Addressed, Messages
<1>4. Addressed(m).content \in Contents /\ Addressed(m).content.address = Destination(msg)
    BY <1>1, <1>2, <1>3 DEF Contents
<1>5. /\ Addressed(m).kind = msg.kind /\ Addressed(m).tracker = msg.tracker
      /\ Addressed(m).addressed = msg.addressed /\ Addressed(m).want = msg.want
      /\ Addressed(m).body = msg.body
    BY <1>1 DEF Addressed, Messages
<1>6. Addressed(m) \in Messages
    BY <1>1, <1>3, <1>4 DEF Addressed, Messages
<1>7. RightAddress(msg)
    BY DEF AddressInv, RightAddress
<1>8. RightAddress(Addressed(m))
    BY <1>4, <1>5, <1>7 DEF RightAddress, Destination
<1>9. [content |-> Addressed(m).content, want |-> msg.want] \in RightTransfers
    BY <1>1, <1>4, <1>7 DEF RightTransfers, Transfers, Destination, RightAddress
<1> QED
    BY <1>5, <1>6, <1>8, <1>9 DEF SameDelivery

(* What the setters do to a message.                                       *)
LEMMA SettersRight ==
    ASSUME HandleType, AddressInv, NEW m \in Live, NEW msg,
           \/ \E v \in Types : msg = [handle[m] EXCEPT !.content.type = v, !.want.type = v]
           \/ \E v \in Subjects : msg = [handle[m] EXCEPT !.content.type = v, !.want.subject = v]
           \/ \E v \in Addresses : msg = [handle[m] EXCEPT !.content.address = v,
                                                         !.want.address = v, !.addressed = TRUE]
           \/ \E v \in Chunks : msg = [handle[m] EXCEPT !.body = TRUE,
                                                     !.content.body = Append(@, v),
                                                     !.want.body = Append(@, v)]
           \/ msg = [handle[m] EXCEPT !.body = TRUE]
    PROVE  msg \in Messages /\ SameDelivery(msg, handle[m]) /\ RightAddress(msg)
<1>1. handle[m] \in Messages /\ handle[m].content \in Contents /\ handle[m].want \in Contents
    BY LiveMessage DEF Messages
<1>2. RightAddress(handle[m])
    BY DEF AddressInv, RightAddress
<1>3. ASSUME NEW v \in Types, msg = [handle[m] EXCEPT !.content.type = v, !.want.type = v]
      PROVE  msg \in Messages /\ SameDelivery(msg, handle[m]) /\ RightAddress(msg)
    BY <1>1, <1>2, <1>3 DEF Messages, Contents, SameDelivery, RightAddress
<1>4. ASSUME NEW v \in Subjects, msg = [handle[m] EXCEPT !.content.type = v, !.want.subject = v]
      PROVE  msg \in Messages /\ SameDelivery(msg, handle[m]) /\ RightAddress(msg)
    BY <1>1, <1>2, <1>4 DEF Messages, Contents, SameDelivery, RightAddress
<1>5. ASSUME NEW v \in Addresses,
             msg = [handle[m] EXCEPT !.content.address = v, !.want.address = v, !.addressed = TRUE]
      PROVE  msg \in Messages /\ SameDelivery(msg, handle[m]) /\ RightAddress(msg)
    BY <1>1, <1>5, QueueAssumption DEF Messages, Contents, SameDelivery, RightAddress
<1>6. ASSUME NEW v \in Chunks,
             msg = [handle[m] EXCEPT !.body = TRUE, !.content.body = Append(@, v),
                                     !.want.body = Append(@, v)]
      PROVE  msg \in Messages /\ SameDelivery(msg, handle[m]) /\ RightAddress(msg)
  <2>1. /\ Append(handle[m].content.body, v) \in Seq(Chunks)
        /\ Append(handle[m].want.body, v) \in Seq(Chunks)
    BY <1>1, AppendProperties DEF Contents
  <2> DEFINE c == [handle[m].content EXCEPT !.body = Append(@, v)]
             w == [handle[m].want EXCEPT !.body = Append(@, v)]
  <2>2. /\ c \in Contents /\ c.address = handle[m].content.address
        /\ w \in Contents /\ w.address = handle[m].want.address
    BY <1>1, <2>1 DEF Contents
  <2>3. msg = [handle[m] EXCEPT !.body = TRUE, !.content = c, !.want = w]
    BY <1>1, <1>6 DEF Messages
  <2> HIDE DEF c, w
  <2>4. /\ msg.kind = handle[m].kind /\ msg.tracker = handle[m].tracker
        /\ msg.addressed = handle[m].addressed /\ msg.body = TRUE
        /\ msg.content = c /\ msg.want = w
    BY <1>1, <2>3 DEF Messages
  <2>5. msg \in Messages
    BY <1>1, <2>2, <2>3 DEF Messages
  <2> QED
    BY <1>2, <2>2, <2>4, <2>5 DEF SameDelivery, RightAddress
<1>7. CASE msg = [handle[m] EXCEPT !.body = TRUE]
    BY <1>1, <1>2, <1>7 DEF Messages, SameDelivery, RightAddress
<1> QED
    BY <1>3, <1>4, <1>5, <1>6, <1>7

-----------------------------------------------------------------------------
(* How the invariant of the messages survives what happens to them.        *)

LEMMA HandlesKept ==
    ASSUME HandleInv, UNCHANGED <<handle, log, tracked>>
    PROVE  HandleInv'
    BY DEF HandleInv, HandleType, AddressInv, DeliveryInv, DispositionFollows,
           SettledWithHandle, TrackerInv, Live

(* One message changes, and still stands for the same delivery.            *)
LEMMA MessageChanged ==
    ASSUME HandleInv, UNCHANGED <<log, tracked>>, NEW m \in Live, NEW msg \in Messages,
           SameDelivery(msg, handle[m]), RightAddress(msg),
           handle' = [handle EXCEPT ![m] = msg]
    PROVE  HandleInv'
<1>1. Live' = Live
    BY NullAssumption DEF Live, HandleInv, HandleType
<1>2. \A o \in Live : handle'[o].kind = handle[o].kind /\ handle'[o].tracker = handle[o].tracker
    BY DEF Live, HandleInv, HandleType, SameDelivery
<1>3. HandleType'
    BY <1>1, <1>2 DEF HandleInv, HandleType, Live
<1>4. AddressInv'
    BY <1>1 DEF HandleInv, HandleType, AddressInv, RightAddress, Live
<1>5. DispositionFollows'
    BY DEF HandleInv, DeliveryInv, DispositionFollows
<1>6. SettledWithHandle'
    BY <1>1, <1>2 DEF HandleInv, DeliveryInv, SettledWithHandle
<1>7. TrackerInv'
    BY <1>1, <1>2 DEF HandleInv, DeliveryInv, TrackerInv
<1> QED
    BY <1>3, <1>4, <1>5, <1>6, <1>7 DEF HandleInv, DeliveryInv

(* The application makes a message of its own.                             *)
LEMMA MessageCreated ==
    ASSUME HandleInv, UNCHANGED <<log, tracked>>, LogType,
           NEW m \in MsgHandles, handle[m] = Null,
           handle' = [handle EXCEPT ![m] = NewMessage("outgoing", 0)]
    PROVE  HandleInv'
<1> DEFINE new == NewMessage("outgoing", 0)
<1>1. /\ new \in Messages /\ new.kind = "outgoing" /\ new.tracker = 0
      /\ ~new.addressed /\ new.want.address = Null
    BY NewMessageType
<1>2. Live' = Live \cup {m} /\ m \notin Live
    BY <1>1, NullAssumption DEF Live, HandleInv, HandleType
<1>3. handle'[m] = new /\ \A o \in Live : handle'[o] = handle[o]
    BY DEF Live, HandleInv, HandleType
<1> HIDE DEF new
<1>4. HandleType'
    BY <1>1, <1>2, <1>3 DEF HandleInv, HandleType, new
<1>5. AddressInv'
    BY <1>1, <1>2, <1>3 DEF HandleInv, AddressInv
<1>6. DispositionFollows'
    BY DEF HandleInv, DeliveryInv, DispositionFollows
<1>7. SettledWithHandle'
    BY <1>2, <1>3 DEF HandleInv, DeliveryInv, SettledWithHandle
<1>8. TrackerInv'
  <2>1. \A o \in Live : handle[o].kind = "incoming" => handle[o].tracker # 0
    BY DEF HandleInv, HandleType
  <2> QED
    BY <1>1, <1>2, <1>3, <2>1 DEF HandleInv, DeliveryInv, TrackerInv
<1> QED
    BY <1>4, <1>5, <1>6, <1>7, <1>8 DEF HandleInv, DeliveryInv

(* pn_messenger_get() adds a delivery to the log and to the window.        *)
LEMMA GetExtends ==
    ASSUME LogType, NEW a \in Nat \ {0}, NEW decoded \in BOOLEAN, PnGet(a, decoded),
           inbox' \in Nat
    PROVE  /\ LogType'
           /\ Len(log) \in Nat /\ Len(log') = Len(log) + 1
           /\ DOMAIN log = 1..Len(log) /\ DOMAIN log' = 1..Len(log')
           /\ \A n \in 1..Len(log) : log'[n] = log[n]
           /\ log'[Len(log')] = [state |-> "none", asked |-> "none", decoded |-> decoded]
           /\ tracked' = {n \in tracked \cup {Len(log')} : n > Len(log') - Window}
<1> DEFINE new == [state |-> "none", asked |-> "none", decoded |-> decoded]
<1>1. new \in Deliveries
    BY DEF Deliveries, Dispositions
<1>2. log \in Seq(Deliveries) /\ log' = Append(log, new) /\ incoming' = a - 1
    BY DEF LogType, PnGet
<1> HIDE DEF new
<1>3. /\ log' \in Seq(Deliveries) /\ Len(log') = Len(log) + 1 /\ Len(log) \in Nat
      /\ \A n \in 1..Len(log) : log'[n] = log[n]
      /\ log'[Len(log) + 1] = new
    BY <1>1, <1>2, AppendProperties
<1>4. DOMAIN log = 1..Len(log) /\ DOMAIN log' = 1..Len(log')
    BY <1>2, <1>3, LenProperties
<1>5. tracked' = {n \in tracked \cup {Len(log')} : n > Len(log') - Window}
    BY <1>3 DEF PnGet
<1>6. tracked' \in SUBSET ((Len(log') - Window + 1)..Len(log') \cap (1..Len(log')))
  <2> SUFFICES ASSUME NEW n \in tracked'
               PROVE  n \in (Len(log') - Window + 1)..Len(log') /\ n \in 1..Len(log')
    OBVIOUS
  <2>1. n > Len(log') - Window /\ (n \in 1..Len(log) \/ n = Len(log'))
    BY <1>5 DEF LogType
  <2> QED
    BY <2>1, <1>3, QueueAssumption
<1>7. LogType'
    BY <1>2, <1>3, <1>6 DEF LogType
<1> QED
    BY <1>3, <1>4, <1>5, <1>7 DEF new

(* A message comes with its delivery.                                      *)
LEMMA MessageReceived ==
    ASSUME HandleInv, LogType, NEW a \in Nat \ {0}, PnGet(a, TRUE), inbox' \in Nat,
           NEW m \in MsgHandles, handle[m] = Null,
           handle' = [handle EXCEPT ![m] = NewMessage("incoming", Len(log) + 1)]
    PROVE  HandleInv'
<1> DEFINE new == NewMessage("incoming", Len(log) + 1)
<1>1. /\ Len(log) \in Nat /\ Len(log') = Len(log) + 1
      /\ DOMAIN log = 1..Len(log) /\ DOMAIN log' = 1..Len(log')
      /\ \A n \in 1..Len(log) : log'[n] = log[n]
      /\ log'[Len(log')] = [state |-> "none", asked |-> "none", decoded |-> TRUE]
      /\ tracked' = {n \in tracked \cup {Len(log')} : n > Len(log') - Window}
    BY GetExtends
<1>2. /\ new \in Messages /\ new.kind = "incoming" /\ new.tracker = Len(log')
      /\ ~new.addressed /\ new.want.address = Null
    BY <1>1, NewMessageType
<1>3. Live' = Live \cup {m} /\ m \notin Live
    BY <1>2, NullAssumption DEF Live, HandleInv, HandleType
<1>4. handle'[m] = new /\ \A o \in Live : handle'[o] = handle[o]
    BY DEF Live, HandleInv, HandleType
<1> HIDE DEF new
<1>5. \A o \in Live : handle[o].kind = "incoming" => handle[o].tracker \in 1..Len(log)
    BY <1>1 DEF HandleInv, DeliveryInv, TrackerInv
<1>6. \A o \in Live : handle[o].kind # "incoming" => handle[o].tracker = 0
    BY DEF HandleInv, HandleType
<1>7. HandleType'
    BY <1>1, <1>2, <1>3, <1>4 DEF HandleInv, HandleType, new
<1>8. AddressInv'
    BY <1>2, <1>3, <1>4 DEF HandleInv, AddressInv
<1>9. DispositionFollows'
    BY <1>1, QueueAssumption DEF HandleInv, DeliveryInv, DispositionFollows
<1>10. SettledWithHandle'
    BY <1>1, <1>2, <1>3, <1>4 DEF HandleInv, DeliveryInv, SettledWithHandle, LogType
<1>11. TrackerInv'
  <2>1. ASSUME NEW o \in Live, handle[o].kind = "incoming"
        PROVE  /\ handle'[o].tracker \in DOMAIN log'
               /\ log'[handle'[o].tracker].asked = "none"
               /\ handle'[o].tracker > Len(log') - Window => handle'[o].tracker \in tracked'
               /\ \A p \in Live' : handle'[p].tracker = handle'[o].tracker => p = o
    BY <2>1, <1>1, <1>2, <1>3, <1>4, <1>5, QueueAssumption DEF HandleInv, DeliveryInv, TrackerInv
  <2>2. /\ handle'[m].tracker \in DOMAIN log'
        /\ log'[handle'[m].tracker].asked = "none"
        /\ handle'[m].tracker > Len(log') - Window => handle'[m].tracker \in tracked'
    BY <1>1, <1>2, <1>4
  <2>3. \A p \in Live' : handle'[p].tracker = handle'[m].tracker => p = m
    BY <1>1, <1>2, <1>3, <1>4, <1>5, <1>6
  <2> QED
    BY <1>3, <1>4, <2>1, <2>2, <2>3 DEF TrackerInv
<1> QED
    BY <1>7, <1>8, <1>9, <1>10, <1>11 DEF HandleInv, DeliveryInv

(* A delivery comes without a message.                                     *)
LEMMA BadReceived ==
    ASSUME HandleInv, LogType, NEW a \in Nat \ {0}, PnGet(a, FALSE), inbox' \in Nat,
           UNCHANGED handle
    PROVE  HandleInv'
<1>1. /\ Len(log) \in Nat /\ Len(log') = Len(log) + 1
      /\ DOMAIN log = 1..Len(log) /\ DOMAIN log' = 1..Len(log')
      /\ \A n \in 1..Len(log) : log'[n] = log[n]
      /\ log'[Len(log')] = [state |-> "none", asked |-> "none", decoded |-> FALSE]
      /\ tracked' = {n \in tracked \cup {Len(log')} : n > Len(log') - Window}
    BY GetExtends
<1>2. Live' = Live
    BY DEF Live
<1>3. HandleType' /\ AddressInv'
    BY <1>2 DEF HandleInv, HandleType, AddressInv
<1>4. DispositionFollows'
    BY <1>1, QueueAssumption DEF HandleInv, DeliveryInv, DispositionFollows
<1>5. SettledWithHandle'
    BY <1>1, <1>2 DEF HandleInv, DeliveryInv, SettledWithHandle, LogType
<1>6. TrackerInv'
    BY <1>1, <1>2, QueueAssumption DEF HandleInv, DeliveryInv, TrackerInv
<1> QED
    BY <1>3, <1>4, <1>5, <1>6 DEF HandleInv, DeliveryInv

(* Disposing of a message changes its own delivery, and its fate if it has *)
(* not left the window.                                                    *)
Disposes(m, d) ==
    \/ d \in {"accepted", "rejected"}
       /\ log' = IF Incoming(m) THEN PnUpdate(Ask(log, handle[m].tracker, d), handle[m].tracker, d)
                 ELSE log
    \/ d = "none" /\ log' = log

LEMMA DisposedLog ==
    ASSUME HandleInv, LogType, NEW m \in Live, NEW d, Disposes(m, d)
    PROVE  /\ log' \in Seq(Deliveries)
           /\ Len(log) \in Nat /\ Len(log') = Len(log)
           /\ DOMAIN log = 1..Len(log) /\ DOMAIN log' = 1..Len(log)
           /\ \A n \in 1..Len(log) :
                 /\ log'[n].decoded = log[n].decoded
                 /\ n # handle[m].tracker => log'[n] = log[n]
                 /\ log'[n].state = IF n = handle[m].tracker /\ n > Len(log) - Window
                                    THEN d ELSE log[n].state
           /\ DispositionFollows'
<1> DEFINE t == handle[m].tracker
<1>1. /\ log \in Seq(Deliveries) /\ Len(log) \in Nat /\ DOMAIN log = 1..Len(log)
      /\ \A n \in 1..Len(log) : log[n] \in Deliveries
    BY LenProperties, ElementOfSeq DEF LogType
<1>2. \A n \in 1..Len(log) : /\ log[n].state \in {"none", log[n].asked}
                             /\ n > Len(log) - Window => log[n].state = log[n].asked
    BY DEF HandleInv, DeliveryInv, DispositionFollows
<1>3. Incoming(m) => /\ t \in 1..Len(log) /\ log[t].asked = "none"
                     /\ t > Len(log) - Window <=> t \in tracked
    BY <1>1, QueueAssumption DEF HandleInv, DeliveryInv, TrackerInv, Incoming, LogType
<1>4. ~Incoming(m) => t = 0
    BY DEF HandleInv, HandleType, Incoming
<1> HIDE DEF t
<1>n. \A n \in 1..Len(log) :
         log[n].asked = "none" => log[n].state = "none"
    BY <1>2
<1>5. CASE log' = log /\ (~Incoming(m) \/ d = "none")
  <2>1. \A n \in 1..Len(log) : log[n].state = IF n = t /\ n > Len(log) - Window
                                             THEN d ELSE log[n].state
    BY <1>n, <1>3, <1>4, <1>5
  <2>2. DispositionFollows'
    BY <1>5 DEF HandleInv, DeliveryInv, DispositionFollows
  <2> QED
    BY <1>1, <1>5, <2>1, <2>2 DEF t
<1>6. CASE Incoming(m) /\ d \in {"accepted", "rejected"}
  <2> DEFINE new == [log[t] EXCEPT !.asked = d, !.state = IF t \in tracked THEN d ELSE @]
  <2>1. log[t] \in Deliveries /\ d \in Dispositions
    BY <1>1, <1>3, <1>6 DEF Dispositions
  <2>2. /\ new \in Deliveries /\ new.asked = d /\ new.decoded = log[t].decoded
        /\ new.state = IF t \in tracked THEN d ELSE log[t].state
    BY <2>1 DEF Deliveries
  <2>3. log' = [log EXCEPT ![t] = new]
    <3>1. log' = PnUpdate(Ask(log, t, d), t, d) /\ t # 0
      BY <1>3, <1>6 DEF Disposes, t
    <3>2. Ask(log, t, d) = [log EXCEPT ![t] = [log[t] EXCEPT !.asked = d]]
      BY <3>1 DEF Ask
    <3>3. CASE t \in tracked
      BY <1>1, <1>3, <1>6, <2>1, <3>1, <3>2, <3>3 DEF PnUpdate, Deliveries
    <3>4. CASE t \notin tracked
      BY <1>1, <1>3, <1>6, <2>1, <3>1, <3>2, <3>4 DEF PnUpdate, Deliveries
    <3> QED
      BY <3>3, <3>4
  <2> HIDE DEF new
  <2>4. /\ log' \in Seq(Deliveries) /\ Len(log') = Len(log)
        /\ \A n \in 1..Len(log) : log'[n] = IF n = t THEN new ELSE log[n]
    BY <1>1, <1>3, <1>6, <2>2, <2>3, ExceptSeq
  <2>5. DOMAIN log' = 1..Len(log)
    BY <2>4, LenProperties
  <2>6. \A n \in 1..Len(log) :
           /\ log'[n].decoded = log[n].decoded
           /\ n # t => log'[n] = log[n]
           /\ log'[n].state = IF n = t /\ n > Len(log) - Window THEN d ELSE log[n].state
    BY <1>3, <1>6, <2>2, <2>4
  <2>7. DispositionFollows'
    <3>1. log[t].state = "none"
      BY <1>n, <1>3, <1>6
    <3>2. \A n \in 1..Len(log) : /\ log'[n].state \in {"none", log'[n].asked}
                                 /\ n > Len(log) - Window => log'[n].state = log'[n].asked
      BY <1>2, <1>3, <1>6, <2>2, <2>4, <3>1
    <3> QED
      BY <2>4, <3>2 DEF DispositionFollows
  <2> QED
    BY <1>1, <2>4, <2>5, <2>6, <2>7 DEF t
<1> QED
  <2>1. d = "none" => log' = log
    BY DEF Disposes
  <2>2. ~Incoming(m) => log' = log
    BY DEF Disposes
  <2>3. d \in {"none", "accepted", "rejected"}
    BY DEF Disposes
  <2> QED
    BY <1>5, <1>6, <2>1, <2>2, <2>3

(* The message is gone, and its delivery is settled.                       *)
LEMMA MessageReleased ==
    ASSUME HandleInv, LogType, NEW m \in Live, NEW d, Disposes(m, d),
           tracked' = tracked \ {handle[m].tracker},
           handle' = [handle EXCEPT ![m] = Null], UNCHANGED <<inbox, incoming>>
    PROVE  HandleInv' /\ LogType'
<1>1. /\ log' \in Seq(Deliveries)
      /\ Len(log) \in Nat /\ Len(log') = Len(log)
      /\ DOMAIN log = 1..Len(log) /\ DOMAIN log' = 1..Len(log)
      /\ \A n \in 1..Len(log) : /\ log'[n].decoded = log[n].decoded
                                /\ n # handle[m].tracker => log'[n] = log[n]
      /\ DispositionFollows'
    BY DisposedLog
<1>2. LogType'
    BY <1>1 DEF LogType
<1>3. Live' = Live \ {m} /\ \A o \in Live' : handle'[o] = handle[o]
    BY DEF Live, HandleInv, HandleType
<1>4. HandleType' /\ AddressInv'
    BY <1>3 DEF HandleInv, HandleType, AddressInv
<1>5. \A o \in Live' : handle[o].kind = "incoming" => handle[o].tracker # handle[m].tracker
    BY <1>3 DEF HandleInv, DeliveryInv, TrackerInv
<1>6. SettledWithHandle'
  <2> SUFFICES ASSUME NEW n \in tracked', log'[n].decoded
               PROVE  \E o \in Live' : handle'[o].tracker = n
    BY DEF SettledWithHandle
  <2>1. n \in tracked /\ n # handle[m].tracker /\ n \in 1..Len(log)
    BY DEF LogType
  <2>2. PICK o \in Live : handle[o].tracker = n
    BY <1>1, <2>1 DEF HandleInv, DeliveryInv, SettledWithHandle
  <2> QED
    BY <1>3, <2>1, <2>2
<1>7. TrackerInv'
    BY <1>1, <1>3, <1>5 DEF HandleInv, DeliveryInv, TrackerInv
<1> QED
    BY <1>1, <1>2, <1>4, <1>6, <1>7 DEF HandleInv, DeliveryInv

(* The connection is closed.                                               *)
LEMMA AllReleased ==
    ASSUME HandleInv, UNCHANGED log, tracked' = {}, handle' = [m \in MsgHandles |-> Null]
    PROVE  HandleInv'
<1>1. Live' = {}
    BY DEF Live
<1> QED
    BY <1>1 DEF HandleInv, HandleType, AddressInv, DeliveryInv, DispositionFollows,
                SettledWithHandle, TrackerInv

-----------------------------------------------------------------------------
(* The connection and the transfers.                                       *)

LEMMA ErrorsSet ==
    ASSUME ConnectionType, NEW e \in Errors
    PROVE  /\ ResetError(q) = [q EXCEPT !.err = "none"]
           /\ SetError(ResetError(q), e) = [q EXCEPT !.err = e]
           /\ SetError(q, e) = [q EXCEPT !.err = e]
    BY DEF ConnectionType, ResetError, SetError

(* A call on an open connection leaves an error only if it fails.          *)
LEMMA ConnectionKept ==
    ASSUME ConnectionInv, life = "open", NEW e \in Errors, q' = [q EXCEPT !.err = e],
           last' \in Outcomes, last' = "ok" => e = "none", UNCHANGED <<life, messengers>>
    PROVE  ConnectionInv'
    BY DEF ConnectionInv, ConnectionType, MessengerBalance, ErrorIsFresh

LEMMA TransfersMoved ==
    ASSUME NEW S, NEW out \in Seq(S), NEW done \in Seq(S), NEW j \in 0..Len(out)
    PROVE  /\ done \o SubSeq(out, 1, j) \in Seq(S)
           /\ SubSeq(out, j + 1, Len(out)) \in Seq(S)
<1>1. Len(out) \in Nat /\ \A i \in 1..Len(out) : out[i] \in S
    BY LenProperties, ElementOfSeq
<1>2. SubSeq(out, 1, j) \in Seq(S)
    BY <1>1, SubSeqProperties
<1>3. SubSeq(out, j + 1, Len(out)) \in Seq(S)
    BY <1>1, SubSeqProperties
<1> QED
    BY <1>2, <1>3, ConcatProperties

(* A call that only sets the error of the connection.                      *)
LEMMA QuietStep ==
    ASSUME IInv, NEW outcome \in Outcomes, NEW e \in Errors, outcome = "ok" => e = "none",
           Quiet(outcome, e)
    PROVE  ConnectionInv' /\ LogType' /\ TransferInv' /\ UNCHANGED <<log, tracked>>
<1>1. q' = [q EXCEPT !.err = e]
    BY ErrorsSet DEF Quiet, IInv, ConnectionInv
<1>2. ConnectionInv'
    BY <1>1, ConnectionKept DEF Quiet, IInv
<1>3. UNCHANGED <<inbox, incoming, log, tracked, outgoing, sent>>
    BY DEF Quiet, external
<1> QED
    BY <1>2, <1>3 DEF IInv, LogType, TransferInv

LEMMA QuietInv ==
    ASSUME IInv, NEW outcome \in Outcomes, NEW e \in Errors, outcome = "ok" => e = "none",
           Quiet(outcome, e), UNCHANGED handle
    PROVE  IInv'
    BY QuietStep, HandlesKept DEF IInv

-----------------------------------------------------------------------------
LEMMA InitInv == Init => IInv
<1> SUFFICES ASSUME Init PROVE IInv
    OBVIOUS
<1>1. ConnectionInv
    BY DEF Init, ConnectionInv, ConnectionType, MessengerBalance, ErrorIsFresh, Constructed,
           Errors, Outcomes
<1>2. LogType
    BY QueueAssumption, EmptySeq DEF Init, LogType
<1>3. Live = {} /\ Len(log) = 0
    BY DEF Init, Live
<1>4. HandleInv
    BY <1>3 DEF Init, HandleInv, HandleType, AddressInv, DeliveryInv, DispositionFollows,
                SettledWithHandle, TrackerInv
<1>5. TransferInv
    BY EmptySeq DEF Init, TransferInv
<1> QED
    BY <1>1, <1>2, <1>4, <1>5 DEF IInv

(* mq_connect_recv(), mq_connect_send(), mq_disconnect()                   *)
LEMMA ConnectingInv ==
    ASSUME IInv, ConnectRecv \/ ConnectSend \/ ConnectNoMemory \/ ConnectFails
    PROVE  IInv'
<1>1. UNCHANGED <<handle, inbox, incoming, log, tracked, outgoing, sent>>
    BY DEF ConnectRecv, ConnectSend, ConnectNoMemory, ConnectFails, external
<1>2. ConnectionInv'
  <2>1. /\ life = "new" /\ messengers = 0 /\ ~q.messenger
        /\ q \in [state : {"DISCONNECTED", "RECV", "SEND"}, err : Errors, messenger : BOOLEAN]
    BY DEF ConnectRecv, ConnectSend, ConnectNoMemory, ConnectFails, IInv, ConnectionInv,
           ConnectionType, MessengerBalance
  <2>2. CASE ConnectRecv \/ ConnectSend
    <3> DEFINE fresh == ResetError(Constructed)
    <3>1. /\ fresh \in [state : {"DISCONNECTED", "RECV", "SEND"}, err : Errors, messenger : BOOLEAN]
          /\ fresh.err = "none"
      BY DEF ResetError, Constructed, Errors
    <3>2. PICK st \in {"RECV", "SEND"} : q' = [fresh EXCEPT !.messenger = TRUE, !.state = st]
      BY <2>2 DEF ConnectRecv, ConnectSend
    <3> HIDE DEF fresh
    <3>4. life' = "open" /\ messengers' = messengers + 1 /\ last' = "ok"
      BY <2>2 DEF ConnectRecv, ConnectSend, Succeeds
    <3>5. q' \in [state : {"DISCONNECTED", "RECV", "SEND"}, err : Errors, messenger : BOOLEAN]
      BY <3>1, <3>2
    <3>6. q'.messenger /\ q'.err = "none"
      BY <3>1, <3>2
    <3> QED
      BY <2>1, <3>4, <3>5, <3>6 DEF ConnectionInv, ConnectionType, MessengerBalance,
                                    ErrorIsFresh, Outcomes
  <2>3. CASE ConnectNoMemory \/ ConnectFails
    BY <2>1, <2>3 DEF ConnectNoMemory, ConnectFails, Freed, DisconnectInternal, Constructed,
       Fails, ConnectionInv, ConnectionType, MessengerBalance, ErrorIsFresh, Outcomes
  <2> QED
    BY <2>2, <2>3
<1>3. LogType' /\ TransferInv'
    BY <1>1 DEF IInv, LogType, TransferInv
<1> QED
    BY <1>1, <1>2, <1>3, HandlesKept DEF IInv

LEMMA DisconnectInv ==
    ASSUME IInv, Disconnect
    PROVE  IInv'
<1>1. ConnectionInv'
  <2>1. /\ q \in [state : {"DISCONNECTED", "RECV", "SEND"}, err : Errors, messenger : BOOLEAN]
        /\ messengers = 1 /\ q.messenger
    BY DEF Disconnect, IInv, ConnectionInv, ConnectionType, MessengerBalance
  <2>2. q' = [q EXCEPT !.state = "DISCONNECTED", !.messenger = FALSE]
    BY DEF Disconnect, DisconnectInternal
  <2>3. q' \in [state : {"DISCONNECTED", "RECV", "SEND"}, err : Errors, messenger : BOOLEAN]
    BY <2>1, <2>2
  <2>4. ~q'.messenger
    BY <2>1, <2>2
  <2>5. messengers' = 0 /\ life' = "closed" /\ last' = "ok"
    BY <2>1 DEF Disconnect, Freed, Succeeds
  <2> QED
    BY <2>3, <2>4, <2>5 DEF ConnectionInv, ConnectionType, MessengerBalance, ErrorIsFresh,
                            Outcomes
<1>2. LogType'
    BY QueueAssumption DEF Disconnect, IInv, LogType
<1>3. HandleInv'
    BY AllReleased DEF Disconnect, IInv
<1>4. TransferInv'
  <2>1. PICK j \in 0..Len(outgoing) : sent' = sent \o SubSeq(outgoing, 1, j)
    BY DEF Disconnect
  <2> QED
    BY <2>1, TransfersMoved, EmptySeq DEF Disconnect, IInv, TransferInv
<1> QED
    BY <1>1, <1>2, <1>3, <1>4 DEF IInv

(* mq_next()                                                               *)
LEMMA NextFailureInv ==
    ASSUME IInv, life = "open", NEW k \in 0..inbox, NEW e \in Errors, NextFails(k, e),
           \/ incoming' \in Nat /\ UNCHANGED <<log, tracked>>
           \/ incoming + k > 0 /\ PnGet(incoming + k, FALSE)
    PROVE  IInv'
<1>1. inbox \in Nat /\ incoming \in Nat /\ inbox' \in Nat
    BY DEF IInv, LogType, NextFails
<1>2. ConnectionInv'
    BY ErrorsSet, ConnectionKept DEF NextFails, Fails, Outcomes, IInv, ConnectionInv
<1>3. TransferInv'
    BY DEF NextFails, IInv, TransferInv
<1>4. CASE incoming' \in Nat /\ UNCHANGED <<log, tracked>>
    BY <1>1, <1>2, <1>3, <1>4, HandlesKept DEF NextFails, IInv, LogType
<1>5. CASE incoming + k > 0 /\ PnGet(incoming + k, FALSE)
  <2>1. incoming + k \in Nat \ {0}
    BY <1>1, <1>5
  <2>2. HandleInv' /\ LogType'
    BY <1>1, <1>5, <2>1, BadReceived, GetExtends DEF IInv, NextFails
  <2> QED
    BY <1>2, <1>3, <2>2 DEF IInv
<1> QED
    BY <1>4, <1>5

LEMMA NoMessageInv ==
    ASSUME IInv, NextRecvError \/ NextNothing \/ NextNoMemory \/ NextGetFails
    PROVE  IInv'
<1>1. inbox \in Nat /\ incoming \in Nat /\ {"proton", "none", "ENOMEM"} \subseteq Errors
    BY DEF IInv, LogType, Errors
<1>2. CASE NextRecvError
  <2>1. PICK k \in 0..inbox : NextFails(k, "proton") /\ incoming' = incoming + k
    BY <1>2 DEF NextRecvError
  <2>2. /\ life = "open" /\ "proton" \in Errors /\ incoming' \in Nat
        /\ UNCHANGED <<log, tracked>>
    BY <1>1, <1>2, <2>1 DEF NextRecvError
  <2> QED
    BY <2>1, <2>2, NextFailureInv
<1>3. CASE NextNothing
  <2>1. 0 \in 0..inbox /\ "none" \in Errors
    BY <1>1
  <2>2. life = "open" /\ NextFails(0, "none") /\ incoming' \in Nat /\ UNCHANGED <<log, tracked>>
    BY <1>1, <1>3 DEF NextNothing
  <2> QED
    BY <2>1, <2>2, NextFailureInv
<1>4. CASE NextNoMemory
  <2>1. PICK k \in 0..inbox : NextFails(k, "ENOMEM") /\ incoming' = incoming + k
    BY <1>4 DEF NextNoMemory
  <2>2. /\ life = "open" /\ "ENOMEM" \in Errors /\ incoming' \in Nat
        /\ UNCHANGED <<log, tracked>>
    BY <1>1, <1>4, <2>1 DEF NextNoMemory
  <2> QED
    BY <2>1, <2>2, NextFailureInv
<1>5. CASE NextGetFails
  <2>1. PICK k \in 0..inbox :
           incoming + k > 0 /\ NextFails(k, "proton") /\ PnGet(incoming + k, FALSE)
    BY <1>5 DEF NextGetFails
  <2>2. life = "open" /\ "proton" \in Errors
    BY <1>1, <1>5 DEF NextGetFails
  <2> QED
    BY <2>1, <2>2, NextFailureInv
<1> QED
    BY <1>2, <1>3, <1>4, <1>5

LEMMA NextMessageInv ==
    ASSUME IInv, NEW m \in MsgHandles, NextMessage(m)
    PROVE  IInv'
<1>1. PICK k \in 0..inbox : incoming + k > 0 /\ inbox' = inbox - k /\ PnGet(incoming + k, TRUE)
    BY DEF NextMessage
<1>2. incoming + k \in Nat \ {0} /\ inbox' \in Nat
    BY <1>1 DEF IInv, LogType
<1>3. HandleInv' /\ LogType'
    BY <1>1, <1>2, MessageReceived, GetExtends DEF IInv, NextMessage
<1>4. ConnectionInv'
  <2>1. "none" \in Errors /\ "ok" \in Outcomes
    BY DEF Errors, Outcomes
  <2> QED
    BY <2>1, ErrorsSet, ConnectionKept DEF NextMessage, Succeeds, IInv, ConnectionInv
<1>5. TransferInv'
    BY DEF NextMessage, IInv, TransferInv
<1> QED
    BY <1>3, <1>4, <1>5 DEF IInv

(* mq_message_accept(), _reject(), _pass(), _free()                        *)
LEMMA DisposingInv ==
    ASSUME IInv, NEW m \in MsgHandles, Accept(m) \/ Reject(m) \/ Pass(m) \/ Free(m)
    PROVE  /\ IInv' /\ m \in Live
           /\ Disposes(m, "accepted") \/ Disposes(m, "rejected") \/ Disposes(m, "none")
<1>1. /\ life = "open" /\ m \in Live /\ Release(m)
      /\ last' \in {"ok", "disposition"}
      /\ UNCHANGED <<life, messengers, inbox, incoming, outgoing, sent>>
    BY DEF Accept, Reject, Pass, Free, Dispose, Succeeds
<1>2. Disposes(m, "accepted") \/ Disposes(m, "rejected") \/ Disposes(m, "none")
    BY DEF Accept, Reject, Pass, Free, Disposes
<1>3. HandleInv' /\ LogType'
    BY <1>1, <1>2, MessageReleased DEF Release, IInv
<1>4. ConnectionInv'
  <2>1. "none" \in Errors /\ {"ok", "disposition"} \subseteq Outcomes
    BY DEF Errors, Outcomes
  <2> QED
    BY <1>1, <2>1, ErrorsSet, ConnectionKept DEF Release, IInv, ConnectionInv
<1>5. TransferInv'
    BY <1>1 DEF IInv, TransferInv
<1> QED
    BY <1>1, <1>2, <1>3, <1>4, <1>5 DEF IInv

(* The calls that change nothing but the error of the connection.          *)
LEMMA QuietCallsInv ==
    ASSUME IInv,
           \/ CreateFails \/ DeliverInvalid
           \/ \E m \in MsgHandles : \/ GetField(m) \/ GetBody(m) \/ SetterFails(m)
                                    \/ SendInvalid(m) \/ SendNoAddress(m)
    PROVE  IInv' /\ UNCHANGED <<life, handle, log, outgoing, sent>>
<1>1. /\ \E outcome \in Outcomes, e \in Errors : (outcome = "ok" => e = "none") /\ Quiet(outcome, e)
      /\ UNCHANGED handle
  <2>1. /\ {"none", "EINVAL", "ENOMEM"} \subseteq Errors
        /\ {"ok", "create", "deliver", "get", "set", "send"} \subseteq Outcomes
    BY DEF Errors, Outcomes
  <2>2. CASE CreateFails \/ DeliverInvalid
    BY <2>1, <2>2 DEF CreateFails, DeliverInvalid
  <2>3. ASSUME NEW m \in MsgHandles,
               GetField(m) \/ GetBody(m) \/ SetterFails(m) \/ SendInvalid(m) \/ SendNoAddress(m)
        PROVE  /\ \E outcome \in Outcomes, e \in Errors :
                     (outcome = "ok" => e = "none") /\ Quiet(outcome, e)
               /\ UNCHANGED handle
    BY <2>1, <2>3 DEF GetField, GetBody, SetterFails, SendInvalid, SendNoAddress
  <2> QED
    BY <2>2, <2>3
<1>2. PICK outcome \in Outcomes, e \in Errors : (outcome = "ok" => e = "none") /\ Quiet(outcome, e)
    BY <1>1
<1>3. UNCHANGED <<life, log, outgoing, sent>>
    BY <1>2 DEF Quiet, external
<1> QED
    BY <1>1, <1>2, <1>3, QuietInv

(* The calls that change a message: it still stands for its delivery.      *)
Changes(m) ==
    \/ \E v \in Types : SetType(m, v)
    \/ \E v \in Subjects : SetSubject(m, v)
    \/ \E v \in Addresses : SetAddress(m, v)
    \/ \E v \in Chunks : AddBytes(m, v)
    \/ AddBytesFails(m) \/ PutFails(m)

LEMMA ChangesInv ==
    ASSUME IInv, NEW m \in MsgHandles, Changes(m)
    PROVE  /\ IInv' /\ m \in Live
           /\ \E msg \in Messages : /\ SameDelivery(msg, handle[m])
                                    /\ handle' = [handle EXCEPT ![m] = msg]
           /\ UNCHANGED <<life, log, outgoing, sent>>
<1>1. m \in Live
    BY DEF Changes, SetType, SetSubject, SetAddress, AddBytes, Setter, AddBytesFails, PutFails
<1>2. \E msg : /\ msg \in Messages /\ SameDelivery(msg, handle[m]) /\ RightAddress(msg)
               /\ handle' = [handle EXCEPT ![m] = msg]
  <2>1. HandleType /\ AddressInv
    BY DEF IInv, HandleInv
  <2>2. ASSUME NEW v \in Types, SetType(m, v)
        PROVE  <1>2!:
    BY <1>1, <2>1, <2>2, SettersRight DEF SetType, Setter
  <2>3. ASSUME NEW v \in Subjects, SetSubject(m, v)
        PROVE  <1>2!:
    BY <1>1, <2>1, <2>3, SettersRight DEF SetSubject, Setter
  <2>4. ASSUME NEW v \in Addresses, SetAddress(m, v)
        PROVE  <1>2!:
    BY <1>1, <2>1, <2>4, SettersRight DEF SetAddress, Setter
  <2>5. ASSUME NEW v \in Chunks, AddBytes(m, v)
        PROVE  <1>2!:
    BY <1>1, <2>1, <2>5, SettersRight DEF AddBytes, Setter
  <2>6. CASE AddBytesFails(m)
    <3>1. handle' = [handle EXCEPT ![m] = [handle[m] EXCEPT !.body = TRUE]]
      BY <2>6 DEF AddBytesFails
    <3> QED
      BY <1>1, <2>1, <3>1, SettersRight
  <2>7. CASE PutFails(m)
    BY <1>1, <2>1, <2>7, AddressedRightly DEF PutFails
  <2> QED
    BY <2>2, <2>3, <2>4, <2>5, <2>6, <2>7 DEF Changes
<1>3. \E outcome \in Outcomes, e \in Errors : (outcome = "ok" => e = "none") /\ Quiet(outcome, e)
  <2>1. {"none", "proton"} \subseteq Errors /\ {"ok", "set", "send"} \subseteq Outcomes
    BY DEF Errors, Outcomes
  <2> QED
    BY <2>1 DEF Changes, SetType, SetSubject, SetAddress, AddBytes, Setter, AddBytesFails, PutFails
<1>4. PICK outcome \in Outcomes, e \in Errors : (outcome = "ok" => e = "none") /\ Quiet(outcome, e)
    BY <1>3
<1>5. ConnectionInv' /\ LogType' /\ TransferInv' /\ UNCHANGED <<life, log, tracked, outgoing, sent>>
    BY <1>4, QuietStep DEF Quiet, external
<1>6. HandleInv'
    BY <1>1, <1>2, <1>5, MessageChanged DEF IInv
<1> QED
    BY <1>1, <1>2, <1>5, <1>6 DEF IInv

(* mq_message_create()                                                     *)
LEMMA CreateInv ==
    ASSUME IInv, NEW m \in MsgHandles, Create(m)
    PROVE  IInv' /\ UNCHANGED <<life, log, outgoing, sent>>
<1>1. "none" \in Errors /\ "ok" \in Outcomes /\ Quiet("ok", "none")
    BY DEF Create, Errors, Outcomes
<1>2. ConnectionInv' /\ LogType' /\ TransferInv' /\ UNCHANGED <<life, log, tracked, outgoing, sent>>
    BY <1>1, QuietStep DEF Quiet, external
<1>3. HandleInv'
    BY <1>2, MessageCreated DEF Create, IInv
<1> QED
    BY <1>2, <1>3 DEF IInv

(* mq_message_send()                                                       *)
LEMMA SendInv ==
    ASSUME IInv, NEW m \in MsgHandles, Send(m)
    PROVE  IInv'
<1>1. m \in Live /\ life = "open" /\ HandleType /\ AddressInv
    BY DEF Send, IInv, HandleInv
<1>2. UNCHANGED <<life, messengers, inbox, incoming, log, tracked, sent>>
    BY DEF Send
<1>3. ConnectionInv'
  <2>1. "none" \in Errors /\ "ok" \in Outcomes
    BY DEF Errors, Outcomes
  <2> QED
    BY <1>1, <2>1, ErrorsSet, ConnectionKept DEF Send, Succeeds, IInv, ConnectionInv
<1>4. HandleInv'
    BY <1>1, <1>2, AddressedRightly, MessageChanged DEF Send, IInv
<1>5. TransferInv'
    BY <1>1, <1>2, AddressedRightly, AppendProperties DEF Send, IInv, TransferInv
<1>6. LogType'
    BY <1>2 DEF IInv, LogType
<1> QED
    BY <1>3, <1>4, <1>5, <1>6 DEF IInv

(* mq_deliver()                                                            *)
LEMMA DeliverInv ==
    ASSUME IInv, Deliver \/ DeliverFails
    PROVE  IInv'
<1>1. life = "open" /\ UNCHANGED <<life, messengers, handle, inbox, incoming, log, tracked>>
    BY DEF Deliver, DeliverFails
<1>2. ConnectionInv'
  <2>1. {"none", "proton"} \subseteq Errors /\ {"ok", "deliver"} \subseteq Outcomes
    BY DEF Errors, Outcomes
  <2>2. CASE Deliver
    BY <1>1, <2>1, <2>2, ErrorsSet, ConnectionKept DEF Deliver, Succeeds, IInv, ConnectionInv
  <2>3. CASE DeliverFails
    BY <1>1, <2>1, <2>3, ErrorsSet, ConnectionKept DEF DeliverFails, Fails, IInv, ConnectionInv
  <2> QED
    BY <2>2, <2>3
<1>3. TransferInv'
  <2>1. CASE Deliver
    BY <2>1, ConcatProperties, EmptySeq DEF Deliver, IInv, TransferInv
  <2>2. CASE DeliverFails
    <3>1. PICK j \in 0..Len(outgoing) :
             /\ sent' = sent \o SubSeq(outgoing, 1, j)
             /\ outgoing' = SubSeq(outgoing, j + 1, Len(outgoing))
      BY <2>2 DEF DeliverFails
    <3> QED
      BY <3>1, TransfersMoved DEF IInv, TransferInv
  <2> QED
    BY <2>1, <2>2
<1>4. LogType' /\ HandleInv'
    BY <1>1, HandlesKept DEF IInv, LogType
<1> QED
    BY <1>2, <1>3, <1>4 DEF IInv

(* mq_set_partition(), mq_set_cluster()                                    *)
LEMMA PartitionInv ==
    ASSUME IInv, SetPartition \/ SetCluster
    PROVE  IInv' /\ UNCHANGED <<life, handle, log, outgoing, sent>>
<1>1. /\ last' \in Outcomes /\ last' # "ok"
      /\ UNCHANGED <<life, q, messengers, handle, inbox, incoming, log, tracked, outgoing, sent>>
    BY DEF SetPartition, SetCluster, Fails, external, Outcomes
<1>2. ConnectionInv'
    BY <1>1 DEF IInv, ConnectionInv, ConnectionType, MessengerBalance, ErrorIsFresh
<1> QED
    BY <1>1, <1>2, HandlesKept DEF IInv, LogType, TransferInv

-----------------------------------------------------------------------------
LEMMA NextInv == IInv /\ [Next]_vars => IInv'
<1> SUFFICES ASSUME IInv, [Next]_vars PROVE IInv'
    OBVIOUS
<1>1. ASSUME ConnectionCall
      PROVE  IInv'
    BY <1>1, ConnectingInv, DisconnectInv, NoMessageInv, QuietCallsInv, DeliverInv, PartitionInv
       DEF ConnectionCall
<1>2. ASSUME NEW m \in MsgHandles, MessageCall(m)
      PROVE  IInv'
    BY <1>2, NextMessageInv, DisposingInv, QuietCallsInv, CreateInv, ChangesInv, SendInv
       DEF MessageCall, Changes
<1>3. CASE UNCHANGED vars
  <2>1. UNCHANGED <<life, q, messengers, handle, inbox, incoming, log, tracked, outgoing, sent, last>>
    BY <1>3 DEF vars, external
  <2>2. ConnectionInv'
    BY <2>1 DEF IInv, ConnectionInv, ConnectionType, MessengerBalance, ErrorIsFresh
  <2> QED
    BY <2>1, <2>2, HandlesKept DEF IInv, LogType, TransferInv
<1> QED
    BY <1>1, <1>2, <1>3 DEF Next

LEMMA Invariance == Spec => []IInv
    BY InitInv, NextInv, PTL DEF Spec

LEMMA TransferTypes == TransferInv => outgoing \in Seq(Transfers) /\ sent \in Seq(Transfers)
    BY SeqMonotonic DEF TransferInv, RightTransfers

(* Every variable has its type: messages, deliveries and transfers.        *)
THEOREM ConnectionTypes == Spec => []TypeOK
<1>1. IInv => TypeOK
    BY TransferTypes DEF IInv, ConnectionInv, ConnectionType, LogType, HandleInv, HandleType, TypeOK
<1> QED
    BY Invariance, <1>1, PTL

(* An open connection has one messenger and there is no other.             *)
THEOREM OneMessenger == Spec => []MessengerBalance
<1>1. IInv => MessengerBalance
    BY DEF IInv, ConnectionInv
<1> QED
    BY Invariance, <1>1, PTL

(* mq_error() is not set after a call that succeeded and is not            *)
(* mq_set_cluster(), which leaves the error as it was.                     *)
THEOREM ErrorsFresh == Spec => []ErrorIsFresh
<1>1. IInv => ErrorIsFresh
    BY DEF IInv, ConnectionInv
<1> QED
    BY Invariance, <1>1, PTL

(* A delivery ends up as the application asked, or untouched if it had     *)
(* left the window, for a window of any size.                              *)
THEOREM DispositionsTakeEffect == Spec => []DispositionFollows
<1>1. IInv => DispositionFollows
    BY DEF IInv, HandleInv, DeliveryInv
<1> QED
    BY Invariance, <1>1, PTL

(* What is in the window has its message at hand.                          *)
THEOREM WindowHeld == Spec => []SettledWithHandle
<1>1. IInv => SettledWithHandle
    BY DEF IInv, HandleInv, DeliveryInv
<1> QED
    BY Invariance, <1>1, PTL

(* Two messages never stand for one delivery.                              *)
THEOREM OneMessagePerDelivery == Spec => []TrackersDistinct
<1>1. IInv => TrackersDistinct
    BY DEF IInv, HandleInv, DeliveryInv, TrackerInv, TrackersDistinct
<1> QED
    BY Invariance, <1>1, PTL

(* Every message goes where the application addressed it.                  *)
THEOREM Addressing == Spec => []AddressedRight
<1>1. IInv => AddressedRight
  <2> SUFFICES ASSUME IInv, NEW i \in 1..Len(sent \o outgoing)
               PROVE  (sent \o outgoing)[i] \in RightTransfers
    BY DEF AddressedRight, RightTransfers
  <2>1. sent \o outgoing \in Seq(RightTransfers)
    BY ConcatProperties DEF IInv, TransferInv
  <2> QED
    BY <2>1, ElementOfSeq
<1> QED
    BY Invariance, <1>1, PTL

-----------------------------------------------------------------------------
(* Every step of the connection is one of MessageQueue or changes nothing  *)
(* that it knows of.                                                       *)

FatesOf(lg) == [n \in DOMAIN lg |-> lg[n].state]

LEMMA Fates ==
    ASSUME NEW lg \in Seq(Deliveries)
    PROVE  /\ FatesOf(lg) \in Seq(Dispositions) /\ Len(FatesOf(lg)) = Len(lg)
           /\ Len(lg) \in Nat /\ DOMAIN FatesOf(lg) = 1..Len(lg) /\ DOMAIN lg = 1..Len(lg)
           /\ \A n \in 1..Len(lg) : FatesOf(lg)[n] = lg[n].state
<1>1. Len(lg) \in Nat /\ DOMAIN lg = 1..Len(lg)
    BY LenProperties
<1>2. \A n \in 1..Len(lg) : lg[n].state \in Dispositions
  <2>1. \A n \in 1..Len(lg) : lg[n] \in Deliveries
    BY ElementOfSeq
  <2> QED
    BY <2>1 DEF Deliveries
<1>3. FatesOf(lg) = [n \in 1..Len(lg) |-> lg[n].state]
    BY <1>1 DEF FatesOf
<1>4. FatesOf(lg) \in [1..Len(lg) -> Dispositions]
    BY <1>2, <1>3
<1>5. FatesOf(lg) \in Seq(Dispositions) /\ Len(FatesOf(lg)) = Len(lg)
    BY <1>1, <1>4
<1> QED
    BY <1>1, <1>3, <1>5

LEMMA Stuttering ==
    ASSUME UNCHANGED <<life, log, outgoing, sent>>,
           \/ UNCHANGED handle
           \/ \A m \in MsgHandles :
                 /\ handle'[m] = Null <=> handle[m] = Null
                 /\ handle[m] # Null => handle'[m].tracker = handle[m].tracker
    PROVE  UNCHANGED Queue!vars
    BY DEF Queue!vars, heldBar, fateBar

(* A delivery got from the messenger has no fate yet.                      *)
LEMMA FateAdded ==
    ASSUME LogType, NEW a \in Nat \ {0}, NEW decoded \in BOOLEAN, PnGet(a, decoded),
           inbox' \in Nat
    PROVE  fateBar' = Append(fateBar, "none") /\ Len(fateBar') = Len(log) + 1
<1>1. /\ log \in Seq(Deliveries) /\ log' \in Seq(Deliveries)
      /\ Len(log) \in Nat /\ Len(log') = Len(log) + 1
      /\ \A n \in 1..Len(log) : log'[n] = log[n]
      /\ log'[Len(log')].state = "none"
  <2>1. /\ LogType' /\ Len(log) \in Nat /\ Len(log') = Len(log) + 1
        /\ \A n \in 1..Len(log) : log'[n] = log[n]
        /\ log'[Len(log')] = [state |-> "none", asked |-> "none", decoded |-> decoded]
    BY GetExtends
  <2>2. log'[Len(log')].state = "none"
    BY <2>1
  <2> QED
    BY <2>1, <2>2 DEF LogType
<1>2. "none" \in Dispositions
    BY DEF Dispositions
<1>3. /\ FatesOf(log) \in Seq(Dispositions) /\ Len(FatesOf(log)) = Len(log)
      /\ \A n \in 1..Len(log) : FatesOf(log)[n] = log[n].state
    BY <1>1, Fates
<1>4. /\ FatesOf(log') \in Seq(Dispositions) /\ Len(FatesOf(log')) = Len(log')
      /\ \A n \in 1..Len(log') : FatesOf(log')[n] = log'[n].state
    BY <1>1, Fates
<1>5. /\ Append(FatesOf(log), "none") \in Seq(Dispositions)
      /\ Len(Append(FatesOf(log), "none")) = Len(log) + 1
      /\ \A n \in 1..Len(log) : Append(FatesOf(log), "none")[n] = FatesOf(log)[n]
      /\ Append(FatesOf(log), "none")[Len(log) + 1] = "none"
    BY <1>2, <1>3, AppendProperties
<1>6. \A n \in 1..(Len(log) + 1) : FatesOf(log')[n] = Append(FatesOf(log), "none")[n]
    BY <1>1, <1>3, <1>4, <1>5
<1>7. FatesOf(log') = Append(FatesOf(log), "none")
    BY <1>1, <1>4, <1>5, <1>6, SeqEqual
<1> QED
    BY <1>1, <1>4, <1>7 DEF fateBar, FatesOf

(* The fate of the disposed message's delivery is decided in the window.   *)
LEMMA FateDecided ==
    ASSUME HandleInv, LogType, NEW m \in Live, NEW d, Disposes(m, d)
    PROVE  fateBar' = [n \in DOMAIN fateBar |->
                          IF n = heldBar[m] /\ n > Len(fateBar) - Window THEN d ELSE fateBar[n]]
<1>1. /\ Len(log) \in Nat /\ Len(log') = Len(log)
      /\ DOMAIN log = 1..Len(log) /\ DOMAIN log' = 1..Len(log)
      /\ \A n \in 1..Len(log) :
            log'[n].state = IF n = handle[m].tracker /\ n > Len(log) - Window
                            THEN d ELSE log[n].state
    BY DisposedLog
<1>2. Len(fateBar) = Len(log)
    BY Fates DEF fateBar, FatesOf, LogType
<1>3. heldBar[m] = handle[m].tracker
    BY DEF heldBar, Live
<1> QED
    BY <1>1, <1>2, <1>3 DEF fateBar

LEMMA ConnectionImplements ==
    ASSUME IInv, ConnectionCall
    PROVE  Queue!Next \/ UNCHANGED Queue!vars
<1>1. CASE ConnectRecv \/ ConnectSend
    BY <1>1 DEF ConnectRecv, ConnectSend, external, Queue!Next, Queue!Open, heldBar, fateBar
<1>2. CASE ConnectNoMemory \/ ConnectFails
    BY <1>2, Stuttering DEF ConnectNoMemory, ConnectFails, external
<1>3. CASE Disconnect
  <2>1. heldBar' = [m \in MsgHandles |-> Null] /\ fateBar' = fateBar
    BY <1>3 DEF Disconnect, heldBar, fateBar
  <2> QED
    BY <1>3, <2>1 DEF Disconnect, Queue!Next, Queue!Close, Queue!Delivered
<1>4. CASE NextRecvError \/ NextNothing \/ NextNoMemory
    BY <1>4, Stuttering DEF NextRecvError, NextNothing, NextNoMemory, NextFails
<1>5. CASE NextGetFails
  <2>1. PICK k \in 0..inbox :
           incoming + k > 0 /\ NextFails(k, "proton") /\ PnGet(incoming + k, FALSE)
    BY <1>5 DEF NextGetFails
  <2>2. incoming + k \in Nat \ {0} /\ inbox' \in Nat
    BY <2>1 DEF IInv, LogType, NextFails
  <2>3. fateBar' = Append(fateBar, "none")
    BY <2>1, <2>2, FateAdded DEF IInv
  <2>4. life = "open" /\ heldBar' = heldBar /\ UNCHANGED <<life, outgoing, sent>>
    BY <1>5, <2>1 DEF NextGetFails, NextFails, heldBar
  <2> QED
    BY <2>3, <2>4 DEF Queue!Next, Queue!ReceiveBad
<1>6. CASE CreateFails \/ DeliverInvalid
    BY <1>6, QuietCallsInv, Stuttering
<1>7. CASE Deliver \/ DeliverFails
  <2>1. life = "open" /\ UNCHANGED <<life, heldBar, fateBar>>
    BY <1>7 DEF Deliver, DeliverFails, heldBar, fateBar
  <2>2. outgoing \in Seq(RightTransfers) /\ Len(outgoing) \in Nat
    BY LenProperties DEF IInv, TransferInv
  <2>3. \E k \in 0..Len(outgoing) :
           /\ sent' = sent \o SubSeq(outgoing, 1, k)
           /\ outgoing' = SubSeq(outgoing, k + 1, Len(outgoing))
    <3>1. CASE Deliver
      <4>1. SubSeq(outgoing, 1, Len(outgoing)) = outgoing
        BY <2>2, SubSeqFull
      <4>2. SubSeq(outgoing, Len(outgoing) + 1, Len(outgoing)) = <<>>
        BY <2>2, SubSeqEmpty
      <4> QED
        BY <3>1, <2>2, <4>1, <4>2 DEF Deliver
    <3>2. CASE DeliverFails
      BY <3>2 DEF DeliverFails
    <3> QED
      BY <1>7, <3>1, <3>2
  <2> QED
    BY <2>1, <2>3 DEF Queue!Next, Queue!Flush, Queue!Delivered
<1>8. CASE SetPartition \/ SetCluster
    BY <1>8, PartitionInv, Stuttering
<1> QED
    BY <1>1, <1>2, <1>3, <1>4, <1>5, <1>6, <1>7, <1>8 DEF ConnectionCall

(* Disposing of a message decides the fate of its delivery.                 *)
LEMMA DisposingImplements ==
    ASSUME IInv, NEW m \in MsgHandles, Accept(m) \/ Reject(m) \/ Pass(m) \/ Free(m)
    PROVE  Queue!Next
<1>1. /\ m \in Live /\ life = "open" /\ UNCHANGED <<life, outgoing, sent>>
      /\ handle' = [handle EXCEPT ![m] = Null]
    BY DEF Accept, Reject, Pass, Free, Dispose, Release
<1>2. PICK d \in {"none", "accepted", "rejected"} : Disposes(m, d)
    BY DisposingInv
<1>3. heldBar[m] # Null
  <2>1. handle[m] # Null /\ heldBar[m] = handle[m].tracker
    BY <1>1 DEF heldBar, Live
  <2>2. handle[m].tracker \in Nat
    BY <1>1, LiveMessage DEF IInv, HandleInv, Messages
  <2> QED
    BY <2>1, <2>2, NullAssumption
<1>4. heldBar' = [heldBar EXCEPT ![m] = Null]
    BY <1>1 DEF heldBar, IInv, HandleInv, HandleType
<1>5. fateBar' = [n \in DOMAIN fateBar |->
                    IF n = heldBar[m] /\ n > Len(fateBar) - Window THEN d ELSE fateBar[n]]
    BY <1>1, <1>2, FateDecided DEF IInv
<1>6. Queue!Dispose(m, d)
    BY <1>1, <1>3, <1>4, <1>5 DEF Queue!Dispose
<1> QED
    BY <1>6 DEF Queue!Next, Queue!Fates

(* The calls that change a message do not change what it stands for.       *)
LEMMA SameDeliveryStutters ==
    ASSUME IInv, NEW m \in Live, NEW msg \in Messages, SameDelivery(msg, handle[m]),
           handle' = [handle EXCEPT ![m] = msg]
    PROVE  UNCHANGED heldBar
<1>1. handle \in [MsgHandles -> Messages \cup {Null}] /\ m \in MsgHandles /\ handle[m] # Null
    BY DEF IInv, HandleInv, HandleType, Live
<1>2. msg # Null /\ msg.tracker = handle[m].tracker
    BY NullAssumption DEF SameDelivery
<1>3. \A o \in MsgHandles : handle'[o] = IF o = m THEN msg ELSE handle[o]
    BY <1>1
<1> QED
    BY <1>1, <1>2, <1>3 DEF heldBar

(* A message that is sent is one of the application's own.                 *)
LEMMA SendImplements ==
    ASSUME IInv, NEW m \in MsgHandles, Send(m)
    PROVE  Queue!Next
<1> DEFINE t == [content |-> Addressed(m).content, want |-> handle[m].want]
<1>1. /\ life = "open" /\ m \in Live /\ handle[m].kind # "incoming"
      /\ UNCHANGED <<life, log, sent>>
      /\ handle' = [handle EXCEPT ![m] = Addressed(m)]
      /\ outgoing' = Append(outgoing, t)
    BY DEF Send, Incoming
<1>2. /\ Addressed(m) \in Messages /\ SameDelivery(Addressed(m), handle[m])
      /\ t \in RightTransfers
    BY <1>1, AddressedRightly DEF IInv, HandleInv
<1>3. heldBar[m] = 0
    BY <1>1 DEF heldBar, Live, IInv, HandleInv, HandleType
<1>4. UNCHANGED <<heldBar, fateBar>>
    BY <1>1, <1>2, SameDeliveryStutters DEF fateBar
<1> HIDE DEF t
<1>5. outgoing \in Seq(RightTransfers) /\ Len(outgoing) \in Nat
    BY LenProperties DEF IInv, TransferInv
<1>6. Len(outgoing') = Len(outgoing) + 1
    BY <1>1, <1>2, <1>5, AppendProperties
<1>7. SubSeq(outgoing', 1, Len(outgoing)) = outgoing
  <2>1. /\ outgoing' \in Seq(RightTransfers)
        /\ \A i \in 1..Len(outgoing) : outgoing'[i] = outgoing[i]
    BY <1>1, <1>2, <1>5, AppendProperties
  <2>2. /\ SubSeq(outgoing', 1, Len(outgoing)) \in Seq(RightTransfers)
        /\ Len(SubSeq(outgoing', 1, Len(outgoing))) = Len(outgoing)
        /\ \A i \in 1..Len(outgoing) :
              SubSeq(outgoing', 1, Len(outgoing))[i] = outgoing'[i]
    <3>1. \A i \in 1..Len(outgoing) : outgoing'[i] \in RightTransfers
      BY <1>5, <2>1, ElementOfSeq
    <3> QED
      BY <1>5, <3>1, SubSeqProperties
  <2> QED
    BY <1>5, <2>1, <2>2, SeqEqual
<1>8. Queue!Post(m)
    BY <1>1, <1>3, <1>4, <1>6, <1>7 DEF Queue!Post
<1> QED
    BY <1>8 DEF Queue!Next

LEMMA MessageImplements ==
    ASSUME IInv, NEW m \in MsgHandles, MessageCall(m)
    PROVE  Queue!Next \/ UNCHANGED Queue!vars
<1>1. CASE NextMessage(m)
  <2>1. PICK k \in 0..inbox : incoming + k > 0 /\ inbox' = inbox - k /\ PnGet(incoming + k, TRUE)
    BY <1>1 DEF NextMessage
  <2>2. incoming + k \in Nat \ {0} /\ inbox' \in Nat /\ Len(log) + 1 \in Nat
    BY <2>1, LenProperties DEF IInv, LogType
  <2>3. fateBar' = Append(fateBar, "none") /\ Len(fateBar') = Len(log) + 1
    BY <2>1, <2>2, FateAdded DEF IInv
  <2>4. /\ life = "open" /\ handle[m] = Null /\ UNCHANGED <<life, outgoing, sent>>
        /\ handle' = [handle EXCEPT ![m] = NewMessage("incoming", Len(log) + 1)]
    BY <1>1 DEF NextMessage
  <2>5. heldBar[m] = Null
    BY <2>4 DEF heldBar
  <2>6. heldBar' = [heldBar EXCEPT ![m] = Len(log) + 1]
    <3>1. /\ NewMessage("incoming", Len(log) + 1) \in Messages
          /\ NewMessage("incoming", Len(log) + 1).tracker = Len(log) + 1
      BY <2>2, NewMessageType
    <3> QED
      BY <2>4, <3>1, NullAssumption DEF heldBar, IInv, HandleInv, HandleType
  <2>7. Queue!Receive(m)
    BY <2>3, <2>4, <2>5, <2>6 DEF Queue!Receive
  <2> QED
    BY <2>7 DEF Queue!Next
<1>2. CASE Accept(m) \/ Reject(m) \/ Pass(m) \/ Free(m)
    BY <1>2, DisposingImplements
<1>3. CASE Create(m)
  <2>1. /\ life = "open" /\ handle[m] = Null /\ UNCHANGED <<life, log, outgoing, sent>>
        /\ handle' = [handle EXCEPT ![m] = NewMessage("outgoing", 0)]
    BY <1>3 DEF Create, Quiet, external
  <2>2. NewMessage("outgoing", 0) \in Messages /\ NewMessage("outgoing", 0).tracker = 0
    BY NewMessageType
  <2>3. heldBar[m] = Null /\ fateBar' = fateBar
    BY <2>1 DEF heldBar, fateBar
  <2>4. heldBar' = [heldBar EXCEPT ![m] = 0]
    BY <2>1, <2>2, NullAssumption DEF heldBar, IInv, HandleInv, HandleType
  <2>5. Queue!Compose(m)
    BY <2>1, <2>3, <2>4 DEF Queue!Compose
  <2> QED
    BY <2>5 DEF Queue!Next
<1>4. CASE GetField(m) \/ GetBody(m) \/ SetterFails(m) \/ SendInvalid(m) \/ SendNoAddress(m)
    BY <1>4, QuietCallsInv, Stuttering
<1>5. CASE Changes(m)
  <2>1. m \in Live /\ UNCHANGED <<life, log, outgoing, sent>>
    BY <1>5, ChangesInv
  <2>2. PICK msg \in Messages : /\ SameDelivery(msg, handle[m])
                                /\ handle' = [handle EXCEPT ![m] = msg]
    BY <1>5, ChangesInv
  <2>3. UNCHANGED heldBar
    BY <2>1, <2>2, SameDeliveryStutters
  <2> QED
    BY <2>1, <2>3 DEF Queue!vars, fateBar
<1>6. CASE Send(m)
    BY <1>6, SendImplements
<1> QED
    BY <1>1, <1>2, <1>3, <1>4, <1>5, <1>6 DEF MessageCall, Changes

LEMMA InitImplements == Init => Queue!Init
<1> SUFFICES ASSUME Init PROVE Queue!Init
    OBVIOUS
<1>1. heldBar = [m \in MsgHandles |-> Null]
    BY DEF Init, heldBar
<1>2. fateBar = <<>>
    BY DEF Init, fateBar
<1> QED
    BY <1>1, <1>2 DEF Init, Queue!Init

(* Each sequence of calls on a connection is one that libmq.h promises:    *)
(* whatever fails, a delivery's fate is decided once, by its own message,  *)
(* and what was sent is delivered in its order, once.                      *)
THEOREM Refinement == Spec => QueueSpec
<1>1. IInv /\ [Next]_vars => [Queue!Next]_(Queue!vars)
  <2> SUFFICES ASSUME IInv, [Next]_vars PROVE [Queue!Next]_(Queue!vars)
    OBVIOUS
  <2>1. CASE ConnectionCall
    BY <2>1, ConnectionImplements
  <2>2. ASSUME NEW m \in MsgHandles, MessageCall(m)
        PROVE  [Queue!Next]_(Queue!vars)
    BY <2>2, MessageImplements
  <2>3. CASE UNCHANGED vars
    BY <2>3, Stuttering DEF vars, external
  <2> QED
    BY <2>1, <2>2, <2>3 DEF Next
<1> QED
    BY InitImplements, Invariance, <1>1, PTL DEF Spec, QueueSpec, Queue!Spec
===============================================================================
