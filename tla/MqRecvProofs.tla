----------------------------- MODULE MqRecvProofs -----------------------------
(***************************************************************************)
(* Proofs about MqRecv, for any number of messages, any room of stdout and *)
(* any number of crashes.                                                  *)
(*                                                                         *)
(* LossBounded is not inductive: it speaks of what the broker knows, and   *)
(* the broker is told later.  So the bound is proved of what it knows or   *)
(* will come to know (Owed).  Only a crash or a failing write adds to what *)
(* is owed and not printed, and no more than stdout held back and the      *)
(* message at hand.                                                        *)
(***************************************************************************)
EXTENDS MqRecv, FiniteSetTheorems, SequenceTheorems, TLAPS

Steps == {"connect", "next", "print", "accept", "disconnect", "ended"}

(* The places between mq_next() and the end of the loop.                   *)
InHand == {"print", "accept"}

ProcessInv ==
    /\ step \in Steps /\ room \in Rooms
    /\ runs \in 1..MaxRuns /\ crashes \in 0..runs
    /\ step # "ended" => crashes < runs

StreamInv ==
    /\ output \in Seq(Messages) /\ stdio \in Seq(Messages)
    /\ Len(stdio) <= room
    /\ failures \in Nat

DeliveryInv ==
    /\ offer \in Seq(Messages) /\ told \subseteq Messages
    /\ inbox \in Nat /\ incoming \in Nat
    /\ log \in Seq(Queue!Deliveries)
    /\ Len(log) + incoming + inbox <= Len(offer)

(* The message at hand stands for the latest delivery.                     *)
HandInv ==
    /\ handle \in [{Msg} -> Queue!Messages \cup {Null}]
    /\ step # "ended" => (handle[Msg] # Null <=> step \in InHand)
    /\ step \in InHand =>
          /\ handle[Msg].kind = "incoming" /\ handle[Msg].tracker = Len(log)
          /\ Len(log) # 0 /\ Len(log) \in tracked

AcceptedInv ==
    \A n \in 1..Len(log) :
       log[n].decoded => \/ log[n].state = "accepted"
                         \/ handle[Msg] # Null /\ n = handle[Msg].tracker

(* The messages the broker knows to be accepted or may come to know of:    *)
(* what this process has accepted, and is about to accept.                 *)
Owed ==
    {x \in Messages :
       \/ x \in told
       \/ step # "ended" /\ x \in Accepted
       \/ step = "accept" /\ x = offer[handle[Msg].tracker]}

Allowed == (crashes + failures) * room + failures

LossInv == Cardinality(Owed \ PrintedMessages) <= Allowed

(* All but the bound on the loss.                                          *)
RunInv == ProcessInv /\ StreamInv /\ DeliveryInv /\ HandInv /\ AcceptedInv

IInv == RunInv /\ LossInv

-----------------------------------------------------------------------------
(* What becomes of the printed messages.                                   *)

Elements(s) == {s[i] : i \in 1..Len(s)}

LEMMA ElementsOfConcat ==
    ASSUME NEW S, NEW s \in Seq(S), NEW t \in Seq(S)
    PROVE  Elements(s \o t) = Elements(s) \cup Elements(t)
<1>1. /\ Len(s) \in Nat /\ Len(t) \in Nat /\ Len(s \o t) = Len(s) + Len(t)
      /\ \A i \in 1..(Len(s) + Len(t)) : (s \o t)[i] = IF i <= Len(s) THEN s[i] ELSE t[i - Len(s)]
    BY ConcatProperties, LenProperties
<1>2. ASSUME NEW x \in Elements(s \o t) PROVE x \in Elements(s) \cup Elements(t)
  <2>1. PICK i \in 1..(Len(s) + Len(t)) : x = (s \o t)[i]
    BY <1>1, <1>2 DEF Elements
  <2>2. CASE i <= Len(s)
    BY <1>1, <2>1, <2>2 DEF Elements
  <2>3. CASE i > Len(s)
    <3>1. i - Len(s) \in 1..Len(t) /\ x = t[i - Len(s)]
      BY <1>1, <2>1, <2>3
    <3> QED
      BY <3>1 DEF Elements
  <2> QED
    BY <1>1, <2>2, <2>3
<1>3. ASSUME NEW x \in Elements(s) PROVE x \in Elements(s \o t)
  <2>1. PICK i \in 1..Len(s) : x = s[i]
    BY <1>3 DEF Elements
  <2>2. i \in 1..Len(s \o t) /\ x = (s \o t)[i]
    BY <1>1, <2>1
  <2> QED
    BY <2>2 DEF Elements
<1>4. ASSUME NEW x \in Elements(t) PROVE x \in Elements(s \o t)
  <2>1. PICK i \in 1..Len(t) : x = t[i]
    BY <1>4 DEF Elements
  <2>2. i + Len(s) \in 1..Len(s \o t) /\ x = (s \o t)[i + Len(s)]
    BY <1>1, <2>1
  <2> QED
    BY <2>2 DEF Elements
<1> QED
    BY <1>2, <1>3, <1>4

LEMMA PrintedElements == PrintedMessages = Elements(output \o stdio)
    BY DEF PrintedMessages, Elements

(* A sequence has no more elements than its length.                        *)
LEMMA ElementsBounded ==
    ASSUME NEW S, NEW s \in Seq(S)
    PROVE  IsFiniteSet(Elements(s)) /\ Cardinality(Elements(s)) <= Len(s)
<1>1. Len(s) \in Nat /\ s \in [1..Len(s) -> S] /\ DOMAIN s = 1..Len(s)
    BY LenProperties
<1>2. IsFiniteSet(1..Len(s)) /\ Cardinality(1..Len(s)) = Len(s)
    BY <1>1, FS_Interval
<1>3. s \in [1..Len(s) -> Elements(s)] /\ \A x \in Elements(s) : \E i \in 1..Len(s) : s[i] = x
    BY <1>1 DEF Elements
<1>4. s \in Surjection(1..Len(s), Elements(s))
    BY <1>3 DEF Surjection
<1>5. IsFiniteSet(Elements(s)) /\ Cardinality(Elements(s)) <= Cardinality(1..Len(s))
    BY <1>2, <1>4, FS_Surjection
<1> QED
    BY <1>2, <1>5

(* What is lost can be counted, in a state and in the next one.            *)
LEMMA OwedFinite ==
    IsFiniteSet(Owed \ PrintedMessages) /\ Cardinality(Owed \ PrintedMessages) \in Nat
<1>1. IsFiniteSet(Messages)
    BY RecvAssumption, FS_Interval DEF Messages
<1>2. Owed \ PrintedMessages \subseteq Messages
    BY DEF Owed
<1> QED
    BY <1>1, <1>2, FS_Subset, FS_CardinalityType

LEMMA OwedFiniteNext ==
    IsFiniteSet(Owed' \ PrintedMessages') /\ Cardinality(Owed' \ PrintedMessages') \in Nat
<1>1. IsFiniteSet(Messages)
    BY RecvAssumption, FS_Interval DEF Messages
<1>2. Owed' \ PrintedMessages' \subseteq Messages
    BY DEF Owed, Messages
<1> QED
    BY <1>1, <1>2, FS_Subset, FS_CardinalityType

LEMMA AllowedType == ASSUME ProcessInv, StreamInv PROVE Allowed \in Nat
<1>1. crashes \in Nat /\ failures \in Nat /\ room \in Nat
    BY RecvAssumption DEF ProcessInv, StreamInv
<1>2. (crashes + failures) * room \in Nat
    BY <1>1
<1> QED
    BY <1>1, <1>2 DEF Allowed

(* Owing nothing more, and keeping what was printed, costs nothing.        *)
LEMMA LossKept ==
    ASSUME ProcessInv, StreamInv, LossInv,
           Owed' \ PrintedMessages' \subseteq Owed \ PrintedMessages,
           UNCHANGED <<crashes, failures, room>>
    PROVE  LossInv'
<1>1. Cardinality(Owed' \ PrintedMessages') <= Cardinality(Owed \ PrintedMessages)
    BY OwedFinite, FS_Subset
<1>2. Allowed' = Allowed
    BY DEF Allowed
<1> QED
    BY <1>1, <1>2, OwedFinite, OwedFiniteNext, AllowedType DEF LossInv

(* Up to n printed messages are lost, and that many more are allowed.      *)
LEMMA LossGrows ==
    ASSUME ProcessInv, StreamInv, LossInv,
           NEW s \in Seq(Messages), NEW n \in Nat, Len(s) <= n, Allowed' = Allowed + n,
           Owed' \ PrintedMessages' \subseteq (Owed \ PrintedMessages) \cup Elements(s)
    PROVE  LossInv'
<1> DEFINE lost == Owed \ PrintedMessages
           held == Elements(s)
<1>1. IsFiniteSet(held) /\ Cardinality(held) <= Len(s) /\ Len(s) \in Nat
    BY ElementsBounded, LenProperties
<1>2. IsFiniteSet(lost) /\ Cardinality(lost) \in Nat /\ Cardinality(lost) <= Allowed
    BY OwedFinite DEF LossInv
<1>3. /\ IsFiniteSet(lost \cup held) /\ IsFiniteSet(lost \cap held)
      /\ Cardinality(lost \cup held)
            = Cardinality(lost) + Cardinality(held) - Cardinality(lost \cap held)
    BY <1>1, <1>2, FS_Union, FS_Subset
<1>4. Cardinality(Owed' \ PrintedMessages') <= Cardinality(lost \cup held)
    BY <1>3, FS_Subset
<1>5. /\ Cardinality(held) \in Nat /\ Cardinality(lost \cap held) \in Nat
      /\ Cardinality(lost \cup held) \in Nat
    BY <1>1, <1>3, FS_CardinalityType
<1> HIDE DEF lost, held
<1> QED
    BY <1>1, <1>2, <1>3, <1>4, <1>5, OwedFiniteNext, AllowedType DEF LossInv

(* If stdout passes something on and loses all else, that is no more than  *)
(* what it held back.                                                      *)
LEMMA PrintedShrinks ==
    ASSUME StreamInv, StreamInv', NEW t \in Seq(Messages), output' = output \o t
    PROVE  PrintedMessages \subseteq PrintedMessages' \cup Elements(stdio)
<1>1. PrintedMessages = Elements(output) \cup Elements(stdio)
    BY PrintedElements, ElementsOfConcat DEF StreamInv
<1>2. PrintedMessages' = Elements(output' \o stdio')
    BY DEF PrintedMessages, Elements
<1>3. Elements(output' \o stdio') = Elements(output') \cup Elements(stdio')
    BY ElementsOfConcat DEF StreamInv
<1>4. Elements(output') = Elements(output) \cup Elements(t)
    BY ElementsOfConcat DEF StreamInv
<1> QED
    BY <1>1, <1>2, <1>3, <1>4

-----------------------------------------------------------------------------
LEMMA InitInv == Init => IInv
<1> SUFFICES ASSUME Init PROVE IInv
    OBVIOUS
<1>1. /\ handle = [m \in {Msg} |-> Null] /\ log = <<>> /\ incoming = 0 /\ inbox = Count
      /\ step = "connect" /\ runs = 1 /\ crashes = 0 /\ room \in Rooms
      /\ stdio = <<>> /\ output = <<>> /\ failures = 0
      /\ told = {} /\ offer = [i \in Messages |-> i]
    BY DEF Init, Queue!Init
<1>2. room \in Nat /\ Count \in Nat
    BY <1>1, RecvAssumption
<1>3. ProcessInv
    BY <1>1, RecvAssumption DEF ProcessInv, Steps
<1>4. StreamInv
    BY <1>1, <1>2, EmptySeq DEF StreamInv
<1>5. DeliveryInv
  <2>1. offer \in Seq(Messages) /\ Len(offer) = Count
    BY <1>1, <1>2 DEF Messages
  <2> QED
    BY <1>1, <1>2, <2>1, EmptySeq DEF DeliveryInv
<1>6. HandInv
    BY <1>1 DEF HandInv, InHand
<1>7. AcceptedInv
    BY <1>1 DEF AcceptedInv
<1>8. LossInv
  <2>1. Owed \ PrintedMessages = {}
    BY <1>1 DEF Owed, Accepted
  <2>2. Allowed = 0
    BY <1>1, <1>2 DEF Allowed
  <2> QED
    BY <2>1, <2>2, FS_EmptySet DEF LossInv
<1> QED
    BY <1>3, <1>4, <1>5, <1>6, <1>7, <1>8 DEF IInv, RunInv

(* Connecting, and waiting for a message.                                  *)
LEMMA IdleInv ==
    ASSUME IInv, Connect \/ Misuse \/ ConnectFailure \/ Wait
    PROVE  IInv'
<1>1. /\ UNCHANGED <<room, stdio, output, failures, offer, runs, crashes, handle, inbox,
                     incoming, log, tracked>>
      /\ step \in {"connect", "next"} /\ step' \in {"next", "ended"}
      /\ told' \in {told, told \cup Accepted}
    BY DEF Connect, Misuse, ConnectFailure, Wait, Goes, printed, broker, history, queue,
           Queue!ConnectRecv, Queue!ConnectFails, Queue!ConnectNoMemory, Queue!external
<1>2. ProcessInv' /\ StreamInv'
    BY <1>1 DEF IInv, RunInv, ProcessInv, StreamInv, Steps
<1>3. DeliveryInv' /\ told' \subseteq told \cup Accepted
  <2>1. \A n \in 1..Len(log) : offer[n] \in Messages
    BY LenProperties, ElementOfSeq DEF IInv, RunInv, DeliveryInv
  <2>2. Accepted \subseteq Messages
    BY <2>1, LenProperties DEF IInv, RunInv, DeliveryInv, Accepted
  <2> QED
    BY <1>1, <2>2 DEF IInv, RunInv, DeliveryInv
<1>4. HandInv' /\ AcceptedInv'
    BY <1>1 DEF IInv, RunInv, HandInv, AcceptedInv, InHand
<1>5. PrintedMessages' = PrintedMessages /\ Accepted' = Accepted
    BY <1>1 DEF PrintedMessages, Accepted
<1>6. LossInv'
  <2>1. Owed' \subseteq Owed
    BY <1>1, <1>3, <1>5 DEF Owed, Messages
  <2> QED
    BY <1>1, <1>5, <2>1, LossKept DEF IInv, RunInv
<1> QED
    BY <1>2, <1>3, <1>4, <1>6 DEF IInv, RunInv

(* A delivery is added to the log, and nothing is accepted.                *)
LEMMA Got ==
    ASSUME DeliveryInv, NEW k \in 0..inbox, incoming + k > 0, inbox' = inbox - k,
           NEW decoded \in BOOLEAN, Queue!PnGet(incoming + k, decoded),
           UNCHANGED <<offer, told>>
    PROVE  /\ DeliveryInv' /\ Len(log) \in Nat /\ Len(log') = Len(log) + 1
           /\ \A n \in 1..Len(log) : log'[n] = log[n]
           /\ log'[Len(log')].decoded = decoded
           /\ Len(log') \in tracked'
           /\ Accepted' = Accepted
<1> DEFINE new == [state |-> "none", asked |-> "none", decoded |-> decoded]
<1>1. /\ incoming' = (incoming + k) - 1 /\ log' = Append(log, new)
      /\ tracked' = {i \in tracked \cup {Len(log) + 1} : i > Len(log) + 1 - 1}
  <2>1. incoming' = (incoming + k) - 1
    BY DEF Queue!PnGet
  <2>2. log' = Append(log, new)
    BY DEF Queue!PnGet
  <2>3. tracked' = {i \in tracked \cup {Len(log) + 1} : i > Len(log) + 1 - 1}
    BY DEF Queue!PnGet
  <2> QED
    BY <2>1, <2>2, <2>3
<1>2. new \in Queue!Deliveries /\ new.decoded = decoded /\ new.state = "none"
    BY DEF Queue!Deliveries, Queue!Dispositions
<1>3. log \in Seq(Queue!Deliveries) /\ Len(log) \in Nat /\ DOMAIN log = 1..Len(log)
    BY LenProperties DEF DeliveryInv
<1> HIDE DEF new
<1>4. /\ log' \in Seq(Queue!Deliveries) /\ Len(log') = Len(log) + 1
      /\ \A n \in 1..Len(log) : log'[n] = log[n]
      /\ log'[Len(log) + 1] = new
    BY <1>1, <1>2, <1>3, AppendProperties
<1>5. DOMAIN log' = 1..Len(log')
    BY <1>4, LenProperties
<1>6. DeliveryInv'
    BY <1>1, <1>3, <1>4 DEF DeliveryInv
<1>7. {n \in DOMAIN log' : log'[n].state = "accepted"}
         = {n \in DOMAIN log : log[n].state = "accepted"}
    BY <1>2, <1>3, <1>4, <1>5
<1>8. Accepted' = Accepted
    BY <1>7 DEF Accepted
<1>9. Len(log') \in tracked'
    BY <1>1, <1>3, <1>4
<1> QED
    BY <1>2, <1>3, <1>4, <1>6, <1>8, <1>9

(* mq_next()                                                               *)
LEMMA ReceiveInv ==
    ASSUME IInv, Receive
    PROVE  IInv'
<1>1. /\ step = "next" /\ step' = "print"
      /\ UNCHANGED <<room, stdio, output, failures, offer, told, runs, crashes>>
      /\ handle' = [handle EXCEPT ![Msg] = Queue!NewMessage("incoming", Len(log) + 1)]
    BY DEF Receive, Goes, printed, broker, history, Queue!NextMessage
<1>2. PICK k \in 0..inbox : incoming + k > 0 /\ inbox' = inbox - k
                            /\ Queue!PnGet(incoming + k, TRUE)
    BY DEF Receive, Queue!NextMessage
<1>3. /\ DeliveryInv' /\ Len(log) \in Nat /\ Len(log') = Len(log) + 1
      /\ \A n \in 1..Len(log) : log'[n] = log[n]
      /\ Len(log') \in tracked' /\ Accepted' = Accepted
    BY <1>1, <1>2, Got DEF IInv, RunInv
<1> DEFINE new == Queue!NewMessage("incoming", Len(log) + 1)
<1>4. new \in Queue!Messages /\ new.kind = "incoming" /\ new.tracker = Len(log')
  <2>1. ("incoming" = "incoming") \in BOOLEAN
    OBVIOUS
  <2>2. Queue!Blank \in Queue!Contents
    BY DEF Queue!Blank, Queue!Contents
  <2>3. new \in Queue!Messages
    BY <1>3, <2>1, <2>2 DEF Queue!NewMessage, Queue!Messages
  <2>4. new.kind = "incoming" /\ new.tracker = Len(log')
    BY <1>3 DEF Queue!NewMessage
  <2> QED
    BY <2>3, <2>4
<1> HIDE DEF new
<1>5. handle' \in [{Msg} -> Queue!Messages \cup {Null}] /\ handle'[Msg] = new
    BY <1>1, <1>4 DEF IInv, RunInv, HandInv, new
<1>6. ProcessInv' /\ StreamInv'
    BY <1>1 DEF IInv, RunInv, ProcessInv, StreamInv, Steps
<1>7. HandInv'
    BY <1>1, <1>3, <1>4, <1>5, NullAssumption DEF HandInv, InHand
<1>8. AcceptedInv'
  <2>1. handle[Msg] = Null
    BY <1>1 DEF IInv, RunInv, HandInv, InHand
  <2> QED
    BY <1>3, <1>4, <1>5, <2>1, NullAssumption DEF IInv, RunInv, AcceptedInv
<1>9. PrintedMessages' = PrintedMessages
    BY <1>1 DEF PrintedMessages
<1>10. LossInv'
  <2>1. Owed' \subseteq Owed
    BY <1>1, <1>3 DEF Owed, Messages
  <2> QED
    BY <1>1, <1>9, <2>1, LossKept DEF IInv, RunInv
<1> QED
    BY <1>3, <1>6, <1>7, <1>8, <1>10 DEF IInv, RunInv

LEMMA ReceiveFailureInv ==
    ASSUME IInv, ReceiveFailure
    PROVE  IInv'
<1>1. /\ step = "next" /\ step' = "disconnect"
      /\ UNCHANGED <<room, stdio, output, failures, offer, told, runs, crashes, handle>>
    BY DEF ReceiveFailure, Goes, printed, broker, history, Queue!NextRecvError,
           Queue!NextNothing, Queue!NextNoMemory, Queue!NextGetFails, Queue!NextFails
<1>2. handle[Msg] = Null
    BY <1>1 DEF IInv, RunInv, HandInv, InHand
<1>3. DeliveryInv' /\ AcceptedInv' /\ Accepted' = Accepted
  <2>1. CASE Queue!NextGetFails
    <3>1. PICK k \in 0..inbox : incoming + k > 0 /\ inbox' = inbox - k
                                /\ Queue!PnGet(incoming + k, FALSE)
      BY <2>1 DEF Queue!NextGetFails, Queue!NextFails
    <3>2. /\ DeliveryInv' /\ Len(log) \in Nat /\ Len(log') = Len(log) + 1
          /\ \A n \in 1..Len(log) : log'[n] = log[n]
          /\ log'[Len(log')].decoded = FALSE
          /\ Accepted' = Accepted
      BY <1>1, <3>1, Got DEF IInv, RunInv
    <3>3. AcceptedInv'
      BY <1>2, <3>2 DEF IInv, RunInv, AcceptedInv
    <3> QED
      BY <3>2, <3>3
  <2>2. CASE Queue!NextRecvError \/ Queue!NextNothing \/ Queue!NextNoMemory
    <3>1. UNCHANGED log /\ \E k \in 0..inbox : inbox' = inbox - k /\ incoming' = incoming + k
      <4>1. inbox \in Nat /\ incoming \in Nat
        BY DEF IInv, RunInv, DeliveryInv
      <4>2. CASE Queue!NextNothing
        BY <4>1, <4>2 DEF Queue!NextNothing, Queue!NextFails
      <4>3. CASE Queue!NextRecvError \/ Queue!NextNoMemory
        BY <4>3 DEF Queue!NextRecvError, Queue!NextNoMemory, Queue!NextFails
      <4> QED
        BY <2>2, <4>2, <4>3
    <3>2. Len(log) \in Nat /\ Len(offer) \in Nat
      BY LenProperties DEF IInv, RunInv, DeliveryInv
    <3> QED
      BY <1>1, <3>1, <3>2 DEF IInv, RunInv, DeliveryInv, AcceptedInv, Accepted
  <2> QED
    BY <2>1, <2>2 DEF ReceiveFailure
<1>4. ProcessInv' /\ StreamInv'
    BY <1>1 DEF IInv, RunInv, ProcessInv, StreamInv, Steps
<1>5. HandInv'
    BY <1>1, <1>2 DEF IInv, RunInv, HandInv, InHand
<1>6. PrintedMessages' = PrintedMessages
    BY <1>1 DEF PrintedMessages
<1>7. LossInv'
  <2>1. Owed' \subseteq Owed
    BY <1>1, <1>3 DEF Owed, Messages
  <2> QED
    BY <1>1, <1>6, <2>1, LossKept DEF IInv, RunInv
<1> QED
    BY <1>3, <1>4, <1>5, <1>7 DEF IInv, RunInv

(* What stdout is given and passes on or keeps is printed.                 *)
LEMMA WriteInv ==
    ASSUME StreamInv, room \in Nat, NEW x \in Messages, Write(Append(stdio, x)), UNCHANGED room
    PROVE  StreamInv' /\ PrintedMessages \cup {x} \subseteq PrintedMessages'
<1> DEFINE all == Append(stdio, x)
<1>1. PICK k \in 0..Len(all) : /\ Len(all) - k <= room
                               /\ output' = output \o SubSeq(all, 1, k)
                               /\ stdio' = SubSeq(all, k + 1, Len(all))
    BY DEF Write
<1>2. /\ output \in Seq(Messages) /\ stdio \in Seq(Messages) /\ Len(stdio) \in Nat
      /\ all \in Seq(Messages) /\ Len(all) = Len(stdio) + 1
      /\ all[Len(all)] = x /\ \A i \in 1..Len(stdio) : all[i] = stdio[i]
    BY AppendProperties, LenProperties DEF StreamInv
<1> HIDE DEF all
<1>3. \A i \in 1..Len(all) : all[i] \in Messages
    BY <1>2, ElementOfSeq
<1>4. /\ SubSeq(all, 1, k) \in Seq(Messages) /\ Len(SubSeq(all, 1, k)) = k
      /\ \A i \in 1..k : SubSeq(all, 1, k)[i] = all[i]
    BY <1>2, <1>3, SubSeqProperties
<1>5. /\ stdio' \in Seq(Messages) /\ Len(stdio') = Len(all) - k
      /\ \A i \in 1..(Len(all) - k) : stdio'[i] = all[k + i]
    BY <1>1, <1>2, <1>3, SubSeqProperties
<1>6. StreamInv'
  <2>1. failures' \in Nat
    BY DEF Write, StreamInv
  <2> QED
    BY <1>1, <1>2, <1>4, <1>5, <2>1, ConcatProperties DEF StreamInv
<1>7. Elements(all) \subseteq Elements(SubSeq(all, 1, k)) \cup Elements(stdio')
  <2> SUFFICES ASSUME NEW i \in 1..Len(all)
               PROVE  all[i] \in Elements(SubSeq(all, 1, k)) \cup Elements(stdio')
    BY DEF Elements
  <2>1. CASE i <= k
    BY <1>2, <1>4, <2>1 DEF Elements
  <2>2. CASE i > k
    <3>1. i - k \in 1..Len(stdio') /\ all[i] = stdio'[i - k]
      BY <1>2, <1>5, <2>2
    <3> QED
      BY <3>1 DEF Elements
  <2> QED
    BY <1>2, <2>1, <2>2
<1>8. PrintedMessages \cup {x} \subseteq PrintedMessages'
  <2>1. PrintedMessages = Elements(output) \cup Elements(stdio)
    BY <1>2, PrintedElements, ElementsOfConcat
  <2>2. PrintedMessages' = Elements(output' \o stdio')
    BY DEF PrintedMessages, Elements
  <2>3. Elements(output' \o stdio') = Elements(output') \cup Elements(stdio')
    BY <1>6, ElementsOfConcat DEF StreamInv
  <2>4. Elements(output') = Elements(output) \cup Elements(SubSeq(all, 1, k))
    BY <1>1, <1>2, <1>4, ElementsOfConcat
  <2>5. Elements(stdio) \subseteq Elements(all) /\ x \in Elements(all)
    BY <1>2 DEF Elements
  <2> QED
    BY <1>7, <2>1, <2>2, <2>3, <2>4, <2>5
<1> QED
    BY <1>6, <1>8

(* A failing write loses what stdout held back and what it was given, at   *)
(* most.                                                                   *)
LEMMA WriteFailsInv ==
    ASSUME StreamInv, room \in Nat, NEW x \in Messages, WriteFails(Append(stdio, x)),
           UNCHANGED room
    PROVE  /\ StreamInv'
           /\ PrintedMessages \subseteq PrintedMessages' \cup Elements(stdio)
<1> DEFINE all == Append(stdio, x)
<1>1. PICK k \in 0..Len(all) :
         /\ output' = output \o SubSeq(all, 1, k)
         /\ \E i \in (k + 1)..(Len(all) + 1), j \in k..Len(all) : stdio' = SubSeq(all, i, j)
    BY DEF WriteFails
<1>2. PICK i \in (k + 1)..(Len(all) + 1), j \in k..Len(all) : stdio' = SubSeq(all, i, j)
    BY <1>1
<1>3. all \in Seq(Messages) /\ Len(all) \in Nat
    BY AppendProperties, LenProperties DEF StreamInv
<1> HIDE DEF all
<1>4. \A n \in 1..Len(all) : all[n] \in Messages
    BY <1>3, ElementOfSeq
<1>5. SubSeq(all, 1, k) \in Seq(Messages)
    BY <1>3, <1>4, SubSeqProperties
<1>6. stdio' \in Seq(Messages)
    BY <1>2, <1>3, <1>4, SubSeqProperties
<1>7. output' \in Seq(Messages)
    BY <1>1, <1>5, ConcatProperties DEF StreamInv
<1>8. StreamInv'
    BY <1>6, <1>7 DEF WriteFails, StreamInv
<1> QED
    BY <1>1, <1>5, <1>8, PrintedShrinks

(* The message at hand goes to stdout, whatever becomes of it there.       *)
LEMMA ShowInv ==
    ASSUME IInv, Show
    PROVE  IInv'
<1> DEFINE x == offer[handle[Msg].tracker]
           all == Append(stdio, x)
<1>1. /\ step = "print" /\ step' = "accept"
      /\ UNCHANGED <<room, offer, told, runs, crashes, handle, inbox, incoming, log, tracked>>
      /\ Write(all) \/ WriteFails(all)
    BY DEF Show, Goes, broker, history, Queue!GetBody, Queue!Quiet, Queue!external
<1>2. x \in Messages
  <2>1. handle[Msg].tracker = Len(log) /\ Len(log) # 0
    BY <1>1 DEF IInv, RunInv, HandInv, InHand
  <2>2. handle[Msg].tracker \in 1..Len(offer) /\ offer \in Seq(Messages)
    BY <2>1, LenProperties DEF IInv, RunInv, DeliveryInv
  <2> QED
    BY <2>2, ElementOfSeq
<1>3. Owed' = Owed \cup {x}
  <2>1. Accepted' = Accepted /\ offer'[handle'[Msg].tracker] = x
    BY <1>1 DEF Accepted
  <2> QED
    BY <1>1, <1>2, <2>1 DEF Owed, Messages
<1> HIDE DEF x
<1>4. room \in Nat /\ crashes \in Nat /\ failures \in Nat
    BY RecvAssumption DEF IInv, RunInv, ProcessInv, StreamInv
<1>5. StreamInv' /\ LossInv'
  <2>1. CASE Write(all)
    <3>1. StreamInv' /\ PrintedMessages \cup {x} \subseteq PrintedMessages'
      BY <1>1, <1>2, <1>4, <2>1, WriteInv DEF IInv, RunInv
    <3>2. UNCHANGED <<crashes, failures, room>>
      BY <1>1, <2>1 DEF Write
    <3>3. Owed' \ PrintedMessages' \subseteq Owed \ PrintedMessages
      BY <1>3, <3>1
    <3> QED
      BY <3>1, <3>2, <3>3, LossKept DEF IInv, RunInv
  <2>2. CASE WriteFails(all)
    <3>1. StreamInv' /\ PrintedMessages \subseteq PrintedMessages' \cup Elements(stdio)
      BY <1>1, <1>2, <1>4, <2>2, WriteFailsInv DEF IInv, RunInv
    <3>2. /\ all \in Seq(Messages) /\ Len(all) = Len(stdio) + 1
          /\ Len(stdio) \in Nat /\ Len(stdio) <= room
          /\ all[Len(all)] = x /\ \A i \in 1..Len(stdio) : all[i] = stdio[i]
      BY <1>2, AppendProperties, LenProperties DEF IInv, RunInv, StreamInv
    <3> HIDE DEF all
    <3>3. Elements(stdio) \subseteq Elements(all) /\ x \in Elements(all)
      BY <3>2 DEF Elements
    <3>4. Owed' \ PrintedMessages' \subseteq (Owed \ PrintedMessages) \cup Elements(all)
      BY <1>3, <3>1, <3>3
    <3>5. Allowed' = Allowed + (room + 1)
      BY <1>1, <1>4, <2>2 DEF Allowed, WriteFails
    <3>6. room + 1 \in Nat /\ Len(all) <= room + 1
      BY <1>4, <3>2
    <3> QED
      BY <3>1, <3>2, <3>4, <3>5, <3>6, LossGrows DEF IInv, RunInv
  <2> QED
    BY <1>1, <2>1, <2>2
<1>6. ProcessInv' /\ DeliveryInv' /\ HandInv' /\ AcceptedInv'
    BY <1>1 DEF IInv, RunInv, ProcessInv, Steps, DeliveryInv, HandInv, InHand, AcceptedInv
<1> QED
    BY <1>5, <1>6 DEF IInv, RunInv

(* mq_message_accept()                                                     *)
LEMMA AcceptInv ==
    ASSUME IInv, Accept
    PROVE  IInv'
<1> DEFINE n == handle[Msg].tracker
<1>1. /\ step = "accept" /\ step' = "next"
      /\ UNCHANGED <<room, stdio, output, failures, offer, told, runs, crashes, inbox, incoming>>
      /\ handle' = [handle EXCEPT ![Msg] = Null]
      /\ log' = IF handle[Msg].kind = "incoming"
                THEN Queue!PnUpdate(Queue!Ask(log, n, "accepted"), n, "accepted") ELSE log
    BY DEF Accept, Goes, printed, broker, history, Queue!Accept, Queue!Dispose, Queue!Release,
           Queue!Incoming
<1>2. /\ handle[Msg].kind = "incoming" /\ n = Len(log) /\ Len(log) # 0 /\ n \in tracked
      /\ handle \in [{Msg} -> Queue!Messages \cup {Null}]
    BY <1>1 DEF IInv, RunInv, HandInv, InHand
<1>3. /\ log \in Seq(Queue!Deliveries) /\ Len(log) \in Nat /\ DOMAIN log = 1..Len(log)
    BY LenProperties DEF IInv, RunInv, DeliveryInv
<1>4. n \in 1..Len(log) /\ log[n] \in Queue!Deliveries
    BY <1>2, <1>3, ElementOfSeq
<1> DEFINE new == [log[n] EXCEPT !.asked = "accepted", !.state = "accepted"]
<1>5. new \in Queue!Deliveries /\ new.state = "accepted"
    BY <1>4 DEF Queue!Deliveries, Queue!Dispositions
<1> HIDE DEF n
<1>6. log' = [log EXCEPT ![n] = new]
  <2>1. Queue!Ask(log, n, "accepted") = [log EXCEPT ![n] = [log[n] EXCEPT !.asked = "accepted"]]
    BY <1>4 DEF Queue!Ask
  <2>2. log' = [log EXCEPT ![n] = [[log[n] EXCEPT !.asked = "accepted"]
                                   EXCEPT !.state = "accepted"]]
    BY <1>1, <1>2, <1>3, <1>4, <2>1 DEF Queue!PnUpdate
  <2> QED
    BY <1>4, <2>2 DEF Queue!Deliveries
<1> HIDE DEF new
<1>7. /\ log' \in Seq(Queue!Deliveries) /\ Len(log') = Len(log)
      /\ \A i \in 1..Len(log) : log'[i] = IF i = n THEN new ELSE log[i]
    BY <1>3, <1>4, <1>5, <1>6, ExceptSeq
<1>8. ProcessInv' /\ StreamInv'
    BY <1>1 DEF IInv, RunInv, ProcessInv, StreamInv, Steps
<1>9. DeliveryInv'
    BY <1>1, <1>7 DEF IInv, RunInv, DeliveryInv
<1>10. HandInv'
    BY <1>1, <1>2 DEF HandInv, InHand
<1>11. AcceptedInv'
    BY <1>5, <1>7 DEF IInv, RunInv, AcceptedInv, n
<1>12. PrintedMessages' = PrintedMessages
    BY <1>1 DEF PrintedMessages
<1>13. LossInv'
  <2>1. DOMAIN log' = 1..Len(log)
    BY <1>7, LenProperties
  <2>2. Accepted' \subseteq Accepted \cup {offer[n]}
    BY <1>1, <1>3, <1>7, <2>1 DEF Accepted
  <2>3. Owed' \subseteq Owed
    BY <1>1, <2>2 DEF Owed, Messages, n
  <2> QED
    BY <1>1, <1>12, <2>3, LossKept DEF IInv, RunInv
<1> QED
    BY <1>8, <1>9, <1>10, <1>11, <1>13 DEF IInv, RunInv

(* mq_disconnect() and exit()                                              *)
LEMMA LeaveInv ==
    ASSUME IInv, Leave
    PROVE  IInv'
<1>1. /\ step = "disconnect" /\ step' = "ended"
      /\ UNCHANGED <<room, offer, runs, crashes, inbox, log>>
      /\ told' \in {told, told \cup Accepted}
      /\ stdio' = <<>>
      /\ handle' = [m \in {Msg} |-> Null] /\ incoming' = 0
    BY DEF Leave, Goes, history, Queue!Disconnect
<1>2. PICK k \in 0..Len(stdio) :
         /\ output' = output \o SubSeq(stdio, 1, k)
         /\ \/ k = Len(stdio) /\ UNCHANGED failures
            \/ failures' = failures + 1
  <2>1. Len(stdio) \in 0..Len(stdio) /\ SubSeq(stdio, 1, Len(stdio)) = stdio
    BY LenProperties, SubSeqFull DEF IInv, RunInv, StreamInv
  <2> QED
    BY <2>1 DEF Leave
<1> DEFINE t == SubSeq(stdio, 1, k)
<1>3. ProcessInv' /\ StreamInv' /\ t \in Seq(Messages)
  <2>1. room \in Nat
    BY RecvAssumption DEF IInv, RunInv, ProcessInv
  <2>2. /\ stdio \in Seq(Messages) /\ Len(stdio) \in Nat
        /\ \A i \in 1..Len(stdio) : stdio[i] \in Messages
    BY LenProperties, ElementOfSeq DEF IInv, RunInv, StreamInv
  <2>3. t \in Seq(Messages)
    BY <2>2, SubSeqProperties
  <2>4. output' \in Seq(Messages) /\ stdio' \in Seq(Messages) /\ Len(stdio') = 0
    BY <1>1, <1>2, <2>3, ConcatProperties, EmptySeq DEF IInv, RunInv, StreamInv
  <2> QED
    BY <1>1, <1>2, <2>1, <2>3, <2>4 DEF IInv, RunInv, ProcessInv, StreamInv, Steps
<1>4. \A n \in DOMAIN log : offer[n] \in Messages
  <2>1. DOMAIN log = 1..Len(log) /\ Len(log) \in Nat /\ Len(offer) \in Nat
    BY LenProperties DEF IInv, RunInv, DeliveryInv
  <2>2. \A n \in 1..Len(offer) : offer[n] \in Messages
    BY ElementOfSeq DEF IInv, RunInv, DeliveryInv
  <2> QED
    BY <2>1, <2>2 DEF IInv, RunInv, DeliveryInv
<1>5. DeliveryInv'
  <2>1. Accepted \subseteq Messages
    BY <1>4 DEF Accepted
  <2>2. Len(log) \in Nat /\ Len(offer) \in Nat
    BY LenProperties DEF IInv, RunInv, DeliveryInv
  <2> QED
    BY <1>1, <2>1, <2>2 DEF IInv, RunInv, DeliveryInv
<1>6. HandInv'
    BY <1>1 DEF HandInv, InHand
<1>7. AcceptedInv'
  <2>1. handle[Msg] = Null
    BY <1>1 DEF IInv, RunInv, HandInv, InHand
  <2> QED
    BY <1>1, <2>1 DEF IInv, RunInv, AcceptedInv
<1>8. Owed' \subseteq Owed
    BY <1>1 DEF Owed, Messages
<1>9. LossInv'
  <2>1. CASE k = Len(stdio) /\ UNCHANGED failures
    <3>1. output' \o stdio' = output \o stdio
      <4>1. t = stdio
        BY <2>1, SubSeqFull DEF IInv, RunInv, StreamInv
      <4>2. output \o stdio \in Seq(Messages)
        BY ConcatProperties DEF IInv, RunInv, StreamInv
      <4> QED
        BY <1>1, <1>2, <4>1, <4>2, ConcatEmptySeq
    <3>2. PrintedMessages' = PrintedMessages
      BY <3>1 DEF PrintedMessages
    <3> QED
      BY <1>1, <1>8, <2>1, <3>2, LossKept DEF IInv, RunInv
  <2>2. CASE failures' = failures + 1
    <3>1. PrintedMessages \subseteq PrintedMessages' \cup Elements(stdio)
      BY <1>2, <1>3, PrintedShrinks DEF IInv, RunInv
    <3>2. Owed' \ PrintedMessages' \subseteq (Owed \ PrintedMessages) \cup Elements(stdio)
      BY <1>8, <3>1
    <3>3. room \in Nat /\ crashes \in Nat /\ failures \in Nat
      BY RecvAssumption DEF IInv, RunInv, ProcessInv, StreamInv
    <3>4. Allowed' = Allowed + (room + 1)
      BY <1>1, <2>2, <3>3 DEF Allowed
    <3>5. stdio \in Seq(Messages) /\ room + 1 \in Nat /\ Len(stdio) <= room + 1
      BY <3>3, LenProperties DEF IInv, RunInv, StreamInv
    <3> QED
      BY <3>2, <3>4, <3>5, LossGrows DEF IInv, RunInv
  <2> QED
    BY <1>2, <2>1, <2>2
<1> QED
    BY <1>3, <1>5, <1>6, <1>7, <1>9 DEF IInv, RunInv

LEMMA CrashInv ==
    ASSUME IInv, Crash
    PROVE  IInv'
<1>1. /\ step # "ended" /\ step' = "ended" /\ crashes' = crashes + 1 /\ stdio' = <<>>
      /\ UNCHANGED <<room, output, failures, offer, told, runs, handle, inbox, incoming, log,
                     tracked>>
    BY DEF Crash, broker, queue
<1>2. ProcessInv'
    BY <1>1 DEF IInv, RunInv, ProcessInv, Steps
<1>3. StreamInv'
    BY <1>1, EmptySeq, RecvAssumption DEF IInv, RunInv, ProcessInv, StreamInv
<1>4. DeliveryInv' /\ HandInv' /\ AcceptedInv'
    BY <1>1 DEF IInv, RunInv, DeliveryInv, HandInv, InHand, AcceptedInv
<1>5. LossInv'
  <2>1. Owed' \subseteq Owed
    BY <1>1 DEF Owed, Messages
  <2>2. PrintedMessages \subseteq PrintedMessages' \cup Elements(stdio)
    <3>1. <<>> \in Seq(Messages) /\ output' = output \o <<>>
      BY <1>1, ConcatEmptySeq, EmptySeq DEF IInv, RunInv, StreamInv
    <3> QED
      BY <1>3, <3>1, PrintedShrinks DEF IInv, RunInv
  <2>3. room \in Nat /\ crashes \in Nat /\ failures \in Nat
    BY RecvAssumption DEF IInv, RunInv, ProcessInv, StreamInv
  <2>4. Allowed' = Allowed + room
    BY <1>1, <2>3 DEF Allowed
  <2>5. stdio \in Seq(Messages) /\ Len(stdio) <= room
    BY DEF IInv, RunInv, StreamInv
  <2>6. Owed' \ PrintedMessages' \subseteq (Owed \ PrintedMessages) \cup Elements(stdio)
    BY <2>1, <2>2
  <2> QED
    BY <2>3, <2>4, <2>5, <2>6, LossGrows DEF IInv, RunInv
<1> QED
    BY <1>2, <1>3, <1>4, <1>5 DEF IInv, RunInv

(* The next process knows nothing of the one before.                       *)
LEMMA StartInv ==
    ASSUME IInv, Start
    PROVE  IInv'
<1> DEFINE rest == Messages \ told
<1>1. /\ step = "ended" /\ step' = "connect" /\ runs < MaxRuns /\ runs' = runs + 1
      /\ offer' \in [1..Cardinality(rest) -> rest] /\ inbox' = Len(offer')
      /\ handle' = [m \in {Msg} |-> Null] /\ incoming' = 0 /\ log' = <<>>
      /\ UNCHANGED <<room, stdio, output, failures, told, crashes>>
    BY DEF Start, Goes, printed, Ordered
<1>2. Cardinality(rest) \in Nat
  <2>1. IsFiniteSet(Messages)
    BY RecvAssumption, FS_Interval DEF Messages
  <2> QED
    BY <2>1, FS_Subset, FS_CardinalityType
<1>3. offer' \in Seq(Messages) /\ Len(offer') \in Nat
  <2>1. offer' \in Seq(rest)
    <3> DEFINE c == Cardinality(rest)
    <3>1. c \in Nat /\ offer' \in [1..c -> rest]
      BY <1>1, <1>2
    <3> HIDE DEF c, rest
    <3> QED
      BY <3>1
  <2> QED
    BY <2>1, SeqMonotonic, LenProperties
<1>4. ProcessInv' /\ StreamInv'
    BY <1>1, RecvAssumption DEF IInv, RunInv, ProcessInv, StreamInv, Steps
<1>5. DeliveryInv'
    BY <1>1, <1>3, EmptySeq DEF IInv, RunInv, DeliveryInv
<1>6. HandInv' /\ AcceptedInv'
    BY <1>1 DEF HandInv, InHand, AcceptedInv
<1>7. PrintedMessages' = PrintedMessages
    BY <1>1 DEF PrintedMessages
<1>8. Owed' \subseteq Owed
    BY <1>1 DEF Owed, Accepted, Messages
<1>9. LossInv'
    BY <1>1, <1>7, <1>8, LossKept DEF IInv, RunInv
<1> QED
    BY <1>4, <1>5, <1>6, <1>9 DEF IInv, RunInv

LEMMA Invariance == Spec => []IInv
<1>1. ASSUME IInv, [Next]_vars
      PROVE  IInv'
  <2>1. CASE UNCHANGED vars
    <3>1. UNCHANGED <<step, room, stdio, output, failures, offer, told, runs, crashes, handle,
                      inbox, incoming, log, tracked>>
      BY <2>1 DEF vars, printed, broker, history, queue
    <3>2. RunInv'
      BY <1>1, <3>1
      DEF IInv, RunInv, ProcessInv, StreamInv, DeliveryInv, HandInv, AcceptedInv
    <3>3. PrintedMessages' = PrintedMessages /\ Owed' = Owed /\ Allowed' = Allowed
      BY <3>1 DEF PrintedMessages, Owed, Accepted, Messages, Allowed
    <3> QED
      BY <1>1, <3>2, <3>3 DEF IInv, RunInv, LossInv
  <2> QED
    BY <1>1, <2>1, IdleInv, ReceiveInv, ReceiveFailureInv, ShowInv, AcceptInv, LeaveInv,
       CrashInv, StartInv DEF Next, Work
<1> QED
    BY InitInv, <1>1, PTL DEF Spec

-----------------------------------------------------------------------------
(* The variables of mq-recv and its surroundings have their types, and the *)
(* loop has a message at hand between mq_next() and the accept.            *)
THEOREM RecvTypes == Spec => []RecvTypeOK
<1>1. IInv => RecvTypeOK
    BY DEF IInv, RunInv, ProcessInv, StreamInv, DeliveryInv, HandInv, RecvTypeOK, Steps, InHand
<1> QED
    BY Invariance, <1>1, PTL

(* Of the messages the broker has forgotten, each crash of mq-recv and     *)
(* each failure of stdout has lost at most as many as stdout holds back,   *)
(* and such a failure one more, for any number of messages.                *)
THEOREM Losses == Spec => []LossBounded
<1>1. IInv => LossBounded
  <2> SUFFICES ASSUME IInv PROVE LossBounded
    OBVIOUS
  <2>1. told \ PrintedMessages \subseteq Owed \ PrintedMessages
    BY DEF IInv, RunInv, DeliveryInv, Owed
  <2>2. /\ Cardinality(told \ PrintedMessages) <= Cardinality(Owed \ PrintedMessages)
        /\ Cardinality(told \ PrintedMessages) \in Nat
    BY <2>1, OwedFinite, FS_Subset, FS_CardinalityType
  <2> QED
    BY <2>2, OwedFinite, AllowedType DEF IInv, RunInv, LossInv, Allowed, LossBounded
<1> QED
    BY Invariance, <1>1, PTL

(* What mq-recv has received it has accepted, up to the message at hand.   *)
THEOREM EverythingAccepted == Spec => []AllAccepted
<1>1. IInv => AllAccepted
  <2> SUFFICES ASSUME IInv PROVE AllAccepted
    OBVIOUS
  <2>1. DOMAIN log = 1..Len(log)
    BY LenProperties DEF IInv, RunInv, DeliveryInv
  <2> QED
    BY <2>1 DEF IInv, RunInv, AcceptedInv, AllAccepted
<1> QED
    BY Invariance, <1>1, PTL

-----------------------------------------------------------------------------
(* mq-recv calls the library only as the owner of a connection may, from   *)
(* one start of a process to the next: a kill leaves what the connection   *)
(* did before it, and a new process begins with a new connection.          *)
THEOREM UsesConnection == Spec => [][Queue!Next \/ Start]_queue
<1>1. ASSUME [Next]_vars
      PROVE  [Queue!Next \/ Start]_queue
  <2>1. CASE Wait \/ Misuse \/ Crash \/ UNCHANGED vars
    BY <2>1 DEF Wait, Misuse, Crash, vars, queue
  <2>2. CASE Connect \/ ConnectFailure \/ ReceiveFailure \/ Leave
    BY <2>2
    DEF Connect, ConnectFailure, ReceiveFailure, Leave, Queue!Next,
        Queue!ConnectionCall
  <2>3. CASE Receive \/ Show \/ Accept
    <3>1. Queue!MessageCall(Msg)
      BY <2>3 DEF Receive, Show, Accept, Queue!MessageCall
    <3> QED
      BY <3>1 DEF Queue!Next
  <2> QED
    BY <1>1, <2>1, <2>2, <2>3 DEF Next, Work
<1> QED
    BY <1>1, PTL DEF Spec
===============================================================================
