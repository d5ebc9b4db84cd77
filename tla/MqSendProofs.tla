----------------------------- MODULE MqSendProofs -----------------------------
(***************************************************************************)
(* Proofs about MqSend, for every size of the blocks and of the input.     *)
(*                                                                         *)
(* The buffer is safe because it grows by a block whenever less than one   *)
(* is free, and a read takes less than one.  That success means that the   *)
(* message was sent follows from what each place in main() implies about   *)
(* the input, the message and the queue (PlaceInv).  That the program uses *)
(* its connection as the owner of one may follows step by step.            *)
(***************************************************************************)
EXTENDS MqSend, TLAPS

(* The places before the message exists, and those that work on it.        *)
Reading   == {"options", "connect", "while", "fread", "create"}
Composing == {"subject", "type", "add"}
Finishing == {"free", "disconnect", "sent"}

(* A transfer that is what the program was asked to send.                  *)
Right(msg) == msg.content.body = <<input>> /\ msg.content.address = Uri

(* The message as the program has made it, with body b so far.             *)
Mine(b) ==
    /\ handle \in [{Msg} -> Queue!Messages]
    /\ handle[Msg].kind = "outgoing" /\ ~handle[Msg].addressed
    /\ handle[Msg].content.body = b

PlaceInv ==
    /\ step \in Reading => outgoing = <<>> /\ sent = <<>> /\ handle = [m \in {Msg} |-> Null]
    /\ step \in Composing => outgoing = <<>> /\ sent = <<>> /\ Mine(<<>>)
    /\ step = "send" => outgoing = <<>> /\ sent = <<>> /\ Mine(<<input>>)
    /\ step = "deliver" => sent = <<>> /\ \E msg : outgoing = <<msg>> /\ Right(msg)
    /\ step \in Finishing => outgoing = <<>> /\ \E msg : sent = <<msg>> /\ Right(msg)

(* From the end of the loop on, the buffer has the whole input.            *)
ReadInv ==
    step \in {"create", "send", "deliver"} \cup Composing \cup Finishing => buflen = input

IInv == SendTypeOK /\ BufferSafe /\ ReadInv /\ PlaceInv

-----------------------------------------------------------------------------
LEMMA InitInv == Init => IInv
<1> SUFFICES ASSUME Init PROVE IInv
    OBVIOUS
<1> USE SendAssumption DEF Init
<1>1. SendTypeOK
  <2>1. eof \in BOOLEAN /\ ferror \in BOOLEAN /\ (eof => unread = 0)
    BY Zenon
  <2>2. input \in Nat
    OBVIOUS
  <2> QED
    BY <2>1, <2>2 DEF SendTypeOK, Steps, Ended
<1>2. BufferSafe
    BY DEF BufferSafe
<1>3. ReadInv
    BY DEF ReadInv, Composing, Finishing
<1>4. PlaceInv
    BY DEF PlaceInv, Reading, Composing, Finishing, Queue!Init
<1> QED
    BY <1>1, <1>2, <1>3, <1>4 DEF IInv

(* Less than a block is read into the block that is free.                  *)
LEMMA GotInv ==
    ASSUME IInv, NEW n \in 0..unread, n < Block, Got(n),
           eof' \in BOOLEAN, ferror' \in BOOLEAN, eof' => unread' = 0
    PROVE  SendTypeOK' /\ BufferSafe' /\ ReadInv'
<1> USE SendAssumption
<1>1. /\ unread \in Nat /\ buflen \in Nat /\ bufsize \in Nat /\ n \in Nat /\ n <= unread
      /\ input = buflen + unread /\ type \in {Null, Type} /\ subj \in {Null, Subject}
    BY DEF IInv, SendTypeOK
<1>2. /\ step = "fread" /\ step' = "while" /\ unread' = unread - n /\ buflen' = buflen + n
      /\ UNCHANGED <<type, subj, input, bufsize>>
    BY DEF Got, Goes, options
<1>3. buflen + Block <= bufsize /\ bufsize < buflen + 2 * Block
    BY <1>2 DEF IInv, BufferSafe
<1>4. SendTypeOK'
    BY <1>1, <1>2 DEF SendTypeOK, Steps, Ended
<1>5. BufferSafe'
  <2>1. buflen' < bufsize' /\ bufsize' < buflen' + 2 * Block
    BY <1>1, <1>2, <1>3
  <2> QED
    BY <1>1, <1>2, <2>1 DEF BufferSafe
<1>6. ReadInv'
    BY <1>2 DEF ReadInv, Composing, Finishing
<1> QED
    BY <1>4, <1>5, <1>6

(* The part of main() that reads: BufferSafe is the point.                 *)
LEMMA ReadingInv ==
    ASSUME IInv, [Next]_vars
    PROVE  SendTypeOK' /\ BufferSafe' /\ ReadInv'
<1> USE SendAssumption DEF IInv, SendTypeOK, BufferSafe, ReadInv, Steps, Ended, Composing,
        Finishing, Goes, AtEnd, Full, Got, options, stdin
<1>1. CASE Help \/ Misuse \/ Options
    BY <1>1 DEF Help, Misuse, Options
<1>2. CASE Connect \/ ConnectFailure
    BY <1>2 DEF Connect, ConnectFailure, Calls
<1>3. CASE Grow
  <2>1. /\ step' = "fread" /\ bufsize' = bufsize + Block
        /\ bufsize - buflen < Block
        /\ UNCHANGED <<type, subj, input, unread, buflen, eof, ferror>>
    BY <1>3 DEF Grow
  <2>2. SendTypeOK'
    BY <2>1
  <2>3. BufferSafe'
    BY <2>1
  <2>4. ReadInv'
    BY <2>1
  <2> QED
    BY <2>2, <2>3, <2>4
<1>4. CASE GrowFails
    BY <1>4 DEF GrowFails
<1>5. CASE Roomy
    BY <1>5 DEF Roomy
<1>6. CASE Read
  <2> DEFINE n == IF unread < Block - 1 THEN unread ELSE Block - 1
  <2>1. /\ n \in 0..unread /\ n < Block
        /\ n < Block - 1 => unread = n
        /\ eof' = (n < Block - 1) /\ ferror' = ferror /\ Got(n)
    BY <1>6 DEF Read
  <2>2. eof' \in BOOLEAN
    <3>1. CASE n < Block - 1
      <4>1. eof'
        BY <2>1, <3>1
      <4> QED
        BY <4>1, Zenon
    <3>2. CASE ~(n < Block - 1)
      <4>1. eof' = FALSE
        BY <2>1, <3>2
      <4> QED
        BY <4>1, Zenon
    <3> QED
      BY <3>1, <3>2
  <2>3. eof' => unread' = 0
    BY <2>1
  <2> QED
    BY <2>1, <2>2, <2>3, GotInv, <1>6 DEF Read
<1>7. CASE ReadError
  <2>1. PICK n \in 0..(Block - 2) : n <= unread /\ Got(n)
    BY <1>7 DEF ReadError
  <2>2. ferror' = TRUE /\ eof' = eof
    BY <1>7 DEF ReadError
  <2>3. eof \in BOOLEAN /\ ferror' \in BOOLEAN
    BY <2>2, Zenon
  <2>4. eof' => unread' = 0
    BY <2>1, <2>2
  <2>5. n \in 0..unread /\ n < Block
    BY <2>1
  <2> QED
    BY <2>1, <2>2, <2>3, <2>4, <2>5, GotInv
<1>8. CASE EndOfInput
    BY <1>8 DEF EndOfInput
<1>9. CASE Create \/ CreateFailure
    BY <1>9 DEF Create, CreateFailure, Calls
<1>10. CASE SetSubject \/ SetType
    BY <1>10 DEF SetSubject, SetType, Calls
<1>11. CASE AddBytes \/ AddBytesFailure
    BY <1>11 DEF AddBytes, AddBytesFailure, Calls
<1>12. CASE Send \/ SendFailure
    BY <1>12 DEF Send, SendFailure, Calls
<1>13. CASE Deliver \/ DeliverFailure
    BY <1>13 DEF Deliver, DeliverFailure, Calls
<1>14. CASE Free \/ Disconnect
    BY <1>14 DEF Free, Disconnect, Calls
<1>15. CASE UNCHANGED vars
    BY <1>15 DEF vars
<1> QED
    BY <1>1, <1>2, <1>3, <1>4, <1>5, <1>6, <1>7, <1>8, <1>9, <1>10, <1>11, <1>12, <1>13, <1>14,
       <1>15 DEF Next

(* The part of main() that sends.                                          *)
LEMMA PlaceStep ==
    ASSUME IInv, [Next]_vars
    PROVE  PlaceInv'
<1> USE DEF Goes, options, stdin, queue, Reading, Composing, Finishing, Mine, Right
<1>0. PlaceInv /\ ReadInv
    BY DEF IInv
<1>1. CASE Help \/ Misuse \/ Options
    BY <1>0, <1>1 DEF PlaceInv, Help, Misuse, Options
<1>2. CASE Grow \/ GrowFails \/ Roomy \/ EndOfInput
    BY <1>0, <1>2 DEF PlaceInv, Grow, GrowFails, Roomy, EndOfInput
<1>3. CASE Read \/ ReadError
    BY <1>0, <1>3 DEF PlaceInv, Read, ReadError, Got
<1>4. CASE Connect
    BY <1>0, <1>4 DEF PlaceInv, Connect, Calls, Queue!ConnectSend, Queue!external
<1>5. CASE ConnectFailure
    BY <1>0, <1>5 DEF PlaceInv, ConnectFailure, Calls
<1>6. CASE Create
  <2>1. /\ step = "create" /\ step' = "subject" /\ outgoing' = outgoing /\ sent' = sent
        /\ handle' = [handle EXCEPT ![Msg] = Queue!NewMessage("outgoing", 0)]
    BY <1>6 DEF Create, Calls, Queue!Create, Queue!Quiet, Queue!external
  <2>2. Queue!NewMessage("outgoing", 0) \in Queue!Messages
    BY DEF Queue!NewMessage, Queue!Messages, Queue!Contents, Queue!Blank
  <2>3. handle = [m \in {Msg} |-> Null] /\ outgoing = <<>> /\ sent = <<>>
    BY <1>0, <2>1 DEF PlaceInv
  <2>4. handle' \in [{Msg} -> Queue!Messages] /\ handle'[Msg] = Queue!NewMessage("outgoing", 0)
    BY <2>1, <2>2, <2>3
  <2>5. Mine(<<>>)'
    BY <2>4 DEF Queue!NewMessage, Queue!Blank
  <2> QED
    BY <2>1, <2>3, <2>5 DEF PlaceInv
<1>7. CASE CreateFailure
    BY <1>7 DEF PlaceInv, CreateFailure, Calls
<1>8. CASE SetSubject
  <2>1. /\ step = "subject" /\ step' = "type"
        /\ outgoing' = outgoing /\ sent' = sent /\ input' = input
    BY <1>8 DEF SetSubject, Calls, Queue!SetSubject, Queue!SetterFails, Queue!Setter,
                Queue!Quiet, Queue!external
  <2>2. Mine(<<>>) /\ outgoing = <<>> /\ sent = <<>>
    BY <1>0, <2>1 DEF PlaceInv
  <2>3. CASE handle' = handle
    BY <2>1, <2>2, <2>3 DEF PlaceInv
  <2>4. CASE Queue!SetSubject(Msg, subj) /\ subj # Null
    <3> DEFINE new == [handle[Msg] EXCEPT !.content.type = subj, !.want.subject = subj]
    <3>1. handle' = [handle EXCEPT ![Msg] = new]
      BY <2>4 DEF Queue!SetSubject, Queue!Setter
    <3>2. subj = Subject
      BY <2>4 DEF IInv, SendTypeOK
    <3>3. /\ new \in Queue!Messages /\ new.kind = "outgoing" /\ ~new.addressed
          /\ new.content.body = <<>>
      BY <2>2, <3>2 DEF Queue!Messages, Queue!Contents
    <3> HIDE DEF new
    <3>4. handle' \in [{Msg} -> Queue!Messages] /\ handle'[Msg] = new
      BY <2>2, <3>1, <3>3
    <3> QED
      BY <2>1, <2>2, <3>3, <3>4 DEF PlaceInv
  <2> QED
    BY <1>8, <2>3, <2>4 DEF SetSubject, Calls, Queue!SetterFails
<1>9. CASE SetType
  <2>1. /\ step = "type" /\ step' = "add"
        /\ outgoing' = outgoing /\ sent' = sent /\ input' = input
    BY <1>9 DEF SetType, Calls, Queue!SetType, Queue!SetterFails, Queue!Setter,
                Queue!Quiet, Queue!external
  <2>2. Mine(<<>>) /\ outgoing = <<>> /\ sent = <<>>
    BY <1>0, <2>1 DEF PlaceInv
  <2>3. CASE handle' = handle
    BY <2>1, <2>2, <2>3 DEF PlaceInv
  <2>4. CASE Queue!SetType(Msg, type) /\ type # Null
    <3> DEFINE new == [handle[Msg] EXCEPT !.content.type = type, !.want.type = type]
    <3>1. handle' = [handle EXCEPT ![Msg] = new]
      BY <2>4 DEF Queue!SetType, Queue!Setter
    <3>2. type = Type
      BY <2>4 DEF IInv, SendTypeOK
    <3>3. /\ new \in Queue!Messages /\ new.kind = "outgoing" /\ ~new.addressed
          /\ new.content.body = <<>>
      BY <2>2, <3>2 DEF Queue!Messages, Queue!Contents
    <3> HIDE DEF new
    <3>4. handle' \in [{Msg} -> Queue!Messages] /\ handle'[Msg] = new
      BY <2>2, <3>1, <3>3
    <3> QED
      BY <2>1, <2>2, <3>3, <3>4 DEF PlaceInv
  <2> QED
    BY <1>9, <2>3, <2>4 DEF SetType, Calls, Queue!SetterFails
<1>10. CASE AddBytes
  <2>1. /\ step = "add" /\ step' = "send"
        /\ outgoing' = outgoing /\ sent' = sent /\ input' = input
    BY <1>10 DEF AddBytes, Calls, Queue!AddBytes, Queue!Setter, Queue!Quiet, Queue!external
  <2>2. Mine(<<>>) /\ outgoing = <<>> /\ sent = <<>>
    BY <1>0, <2>1 DEF PlaceInv
  <2>3. buflen = input /\ buflen \in Nat
    BY <1>0, <2>1 DEF ReadInv, IInv, SendTypeOK
  <2> DEFINE new == [handle[Msg] EXCEPT !.body = TRUE,
                                        !.content.body = Append(@, buflen),
                                        !.want.body = Append(@, buflen)]
  <2>4. handle' = [handle EXCEPT ![Msg] = new]
    BY <1>10 DEF AddBytes, Calls, Queue!AddBytes, Queue!Setter
  <2>5. new.content.body = <<input>>
    <3>1. Append(handle[Msg].content.body, buflen) = <<input>>
      BY <2>2, <2>3
    <3> QED
      BY <2>2, <3>1 DEF Queue!Messages, Queue!Contents
  <2>6. new \in Queue!Messages /\ new.kind = "outgoing" /\ ~new.addressed
    <3>1. /\ Append(handle[Msg].content.body, buflen) \in Seq(Nat)
          /\ Append(handle[Msg].want.body, buflen) \in Seq(Nat)
      BY <2>2, <2>3 DEF Queue!Messages, Queue!Contents
    <3> QED
      BY <2>2, <3>1 DEF Queue!Messages, Queue!Contents
  <2> HIDE DEF new
  <2>7. handle' \in [{Msg} -> Queue!Messages] /\ handle'[Msg] = new
    BY <2>2, <2>4, <2>6
  <2> QED
    BY <2>1, <2>2, <2>5, <2>6, <2>7 DEF PlaceInv
<1>11. CASE AddBytesFailure \/ SendFailure
    BY <1>11 DEF PlaceInv, AddBytesFailure, SendFailure, Calls
<1>12. CASE Send
  <2> DEFINE out == [content |-> Queue!Addressed(Msg).content, want |-> handle[Msg].want]
  <2>1. /\ step = "send" /\ step' = "deliver"
        /\ outgoing' = Append(outgoing, out) /\ sent' = sent /\ input' = input
    BY <1>12 DEF Send, Calls, Queue!Send
  <2>2. Mine(<<input>>) /\ outgoing = <<>> /\ sent = <<>>
    BY <1>0, <2>1 DEF PlaceInv
  <2>3. out.content.body = <<input>> /\ out.content.address = Uri
    BY <2>2 DEF Queue!Addressed, Queue!Destination, Queue!Messages, Queue!Contents
  <2> HIDE DEF out
  <2>4. outgoing' = <<out>>
    BY <2>1, <2>2
  <2> QED
    BY <2>1, <2>2, <2>3, <2>4 DEF PlaceInv
<1>13. CASE Deliver
  <2>1. /\ step = "deliver" /\ step' = "free"
        /\ outgoing' = <<>> /\ sent' = sent \o outgoing /\ input' = input
    BY <1>13 DEF Deliver, Calls, Queue!Deliver
  <2>2. sent = <<>>
    BY <1>0, <2>1 DEF PlaceInv
  <2>3. PICK msg : outgoing = <<msg>> /\ Right(msg)
    BY <1>0, <2>1 DEF PlaceInv
  <2>4. sent' = <<msg>>
    BY <2>1, <2>2, <2>3
  <2> QED
    BY <2>1, <2>3, <2>4 DEF PlaceInv
<1>14. CASE DeliverFailure
    BY <1>14 DEF PlaceInv, DeliverFailure, Calls
<1>15. CASE Free
    BY <1>0, <1>15 DEF PlaceInv, Free, Calls, Queue!Free
<1>16. CASE Disconnect
  <2>1. /\ step = "disconnect" /\ step' = "sent" /\ outgoing' = <<>> /\ input' = input
        /\ \E j \in 0..Len(outgoing) : sent' = sent \o SubSeq(outgoing, 1, j)
    BY <1>16 DEF Disconnect, Calls, Queue!Disconnect
  <2>2. outgoing = <<>>
    BY <1>0, <2>1 DEF PlaceInv
  <2>3. PICK msg : sent = <<msg>> /\ Right(msg)
    BY <1>0, <2>1 DEF PlaceInv
  <2>4. \A j \in 0..Len(outgoing) : SubSeq(outgoing, 1, j) = <<>>
    BY <2>2
  <2>5. sent' = <<msg>> \o <<>>
    BY <2>1, <2>3, <2>4
  <2>6. sent' = <<msg>>
    BY <2>5
  <2> QED
    BY <2>1, <2>3, <2>6 DEF PlaceInv
<1>17. CASE UNCHANGED vars
    BY <1>0, <1>17 DEF PlaceInv, vars
<1> QED
    BY <1>1, <1>2, <1>3, <1>4, <1>5, <1>6, <1>7, <1>8, <1>9, <1>10, <1>11, <1>12, <1>13,
       <1>14, <1>15, <1>16, <1>17 DEF Next

-----------------------------------------------------------------------------
(* IInv is an invariant.                                                   *)
LEMMA Invariance == Spec => []IInv
<1>1. ASSUME IInv, [Next]_vars
      PROVE  IInv'
    BY <1>1, ReadingInv, PlaceStep DEF IInv
<1> QED
    BY InitInv, <1>1, PTL DEF Spec

(* The variables of main() have their types in every execution, and what   *)
(* was read and what was not make up the input.                            *)
THEOREM SendTypes == Spec => []SendTypeOK
<1>1. IInv => SendTypeOK
    BY DEF IInv
<1> QED
    BY Invariance, <1>1, PTL

(* mq-send.c never writes past its buffer, whatever the size of the blocks *)
(* and of the input and however the reads fall.                            *)
THEOREM BufferNeverOverrun == Spec => []BufferSafe
<1>1. IInv => BufferSafe
    BY DEF IInv
<1> QED
    BY Invariance, <1>1, PTL

(* If mq-send exits with success, the broker has the whole input, once, in *)
(* one message to the URI.                                                 *)
THEOREM SuccessIsTrue == Spec => []SuccessMeansSent
<1>1. IInv => SuccessMeansSent
  <2> SUFFICES ASSUME IInv, step = "sent"
               PROVE  /\ Len(sent) = 1 /\ outgoing = <<>>
                      /\ sent[1].content.body = <<input>> /\ sent[1].content.address = Uri
    BY DEF SuccessMeansSent
  <2>1. PICK msg : sent = <<msg>> /\ Right(msg)
    BY DEF IInv, PlaceInv, Finishing
  <2>2. outgoing = <<>>
    BY DEF IInv, PlaceInv, Finishing
  <2> QED
    BY <2>1, <2>2 DEF Right
<1> QED
    BY Invariance, <1>1, PTL

-----------------------------------------------------------------------------
(* The program as a user of the library.                                   *)

LEMMA CallsOnly ==
    ASSUME SendTypeOK, Next
    PROVE  [Queue!Next]_(Queue!vars)
<1>1. CASE \/ Help \/ Misuse \/ Options \/ Grow \/ GrowFails \/ Roomy
           \/ Read \/ ReadError \/ EndOfInput
    BY <1>1
    DEF Help, Misuse, Options, Grow, GrowFails, Roomy, Read, ReadError, Got,
        EndOfInput, queue, Queue!vars, Queue!external
<1>2. CASE \/ Connect \/ ConnectFailure \/ CreateFailure \/ Deliver \/ DeliverFailure
           \/ Disconnect
    BY <1>2
    DEF Connect, ConnectFailure, CreateFailure, Deliver, DeliverFailure, Disconnect,
        Calls, Queue!Next, Queue!ConnectionCall
<1>3. CASE \/ Create \/ AddBytesFailure \/ Send \/ SendFailure \/ Free
  <2>1. Queue!MessageCall(Msg)
    BY <1>3
    DEF Create, AddBytesFailure, Send, SendFailure, Free, Calls, Queue!MessageCall
  <2> QED
    BY <2>1 DEF Queue!Next
<1>4. CASE SetSubject \/ SetType
  <2>1. subj \in {Null, Subject} /\ type \in {Null, Type}
    BY DEF SendTypeOK
  <2>2. Queue!MessageCall(Msg) \/ UNCHANGED queue
    BY <1>4, <2>1 DEF SetSubject, SetType, Calls, Queue!MessageCall
  <2> QED
    BY <2>2 DEF Queue!Next, queue, Queue!vars, Queue!external
<1>5. CASE AddBytes
  <2>1. Queue!MessageCall(Msg)
    BY <1>5 DEF SendTypeOK, AddBytes, Calls, Queue!MessageCall
  <2> QED
    BY <2>1 DEF Queue!Next
<1> QED
    BY <1>1, <1>2, <1>3, <1>4, <1>5 DEF Next

(* mq-send calls the library only as the owner of a connection may, with   *)
(* the arguments it may give: what is proved of ProtonQueue holds of the   *)
(* connection of mq-send, whatever the size of its input.                  *)
THEOREM UsesConnection == Spec => Queue!Spec
<1>1. Init => Queue!Init
    BY DEF Init
<1>2. SendTypeOK /\ [Next]_vars => [Queue!Next]_(Queue!vars)
  <2>1. UNCHANGED vars => UNCHANGED Queue!vars
    BY DEF vars, queue, Queue!vars, Queue!external
  <2> QED
    BY <2>1, CallsOnly
<1> QED
    BY <1>1, <1>2, SendTypes, PTL DEF Spec, Queue!Spec
===============================================================================
