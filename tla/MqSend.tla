-------------------------------- MODULE MqSend --------------------------------
(***************************************************************************)
(* The tool mq-send.c: reads its standard input into a buffer that grows   *)
(* as needed, and sends it as one message over an AMQP connection.         *)
(*                                                                         *)
(* `step' is the place in main().  A call of the library is an action of   *)
(* ProtonQueue, with whatever failures that has; here is what the program  *)
(* does with the result.  The input is a number of bytes: their values do  *)
(* not matter, and the body of the message is given by its length.         *)
(***************************************************************************)
EXTENDS Integers, Sequences

CONSTANTS
    Block,    \* by how much the buffer grows: 1024
    Sizes,    \* the sizes of the input
    Uri,      \* the URI it is given
    Type, Subject,  \* the values of the options -t and -s
    Msg,      \* the message
    Null

ASSUME SendAssumption ==
    /\ Block \in Nat /\ Block >= 2
    /\ Sizes \subseteq Nat
    /\ Null \notin {Uri, Type, Subject, Msg} \cup Nat

VARIABLES
    step,     \* the place in main(), or how it ended
    type, subj,  \* the options, Null when not given
    input,    \* the size of the input
    unread,   \* how much of it has not been read
    bufsize, buflen,
    eof, ferror,  \* the indicators of stdin
    life, q, messengers, handle, inbox, incoming, log, tracked, outgoing, sent, last

Queue == INSTANCE ProtonQueue WITH
            MsgHandles <- {Msg}, Window <- 1, Types <- {Type}, Subjects <- {Subject},
            Addresses <- {}, Chunks <- Nat, Arrivals <- 0, MaxPuts <- 1, MaxChunks <- 1

options == <<type, subj, input>>
stdin   == <<unread, bufsize, buflen, eof, ferror>>
queue   == <<life, q, messengers, handle, inbox, incoming, log, tracked, outgoing, sent, last>>
vars    == <<step, options, stdin, queue>>

Ended == {"helped", "misused", "sent", "failed", "crashed"}

Goes(from, to) == step = from /\ step' = to

(* A step of main() that only calls the library.                           *)
Calls(from, to, Call) ==
    /\ Goes(from, to)
    /\ Call
    /\ UNCHANGED <<options, stdin>>

-----------------------------------------------------------------------------
(* The options.                                                            *)

Help    == Goes("options", "helped") /\ UNCHANGED <<options, stdin, queue>>

(* An unknown option, or no URI.                                           *)
Misuse  == Goes("options", "misused") /\ UNCHANGED <<options, stdin, queue>>

Options == Goes("options", "connect") /\ UNCHANGED <<options, stdin, queue>>

Connect == Calls("connect", "while", Queue!ConnectSend)

ConnectFailure ==
    Calls("connect", "failed", Queue!ConnectFails \/ Queue!ConnectNoMemory)

-----------------------------------------------------------------------------
(* Reading the input.                                                      *)

(* Seeded fault: the loop ends on an error.                                *)
AtEnd_Error == ferror

(* feof(stdin)                                                             *)
AtEnd == eof

(* Seeded fault: no room is left for the terminator.                       *)
Full_NoTerminator == bufsize - buflen < Block - 1

Full == bufsize - buflen < Block

Grow ==
    /\ Goes("while", "fread")
    /\ ~AtEnd /\ Full
    /\ bufsize' = bufsize + Block
    /\ UNCHANGED <<options, unread, buflen, eof, ferror, queue>>

GrowFails ==
    /\ Goes("while", "failed")
    /\ ~AtEnd /\ Full
    /\ UNCHANGED <<options, stdin, queue>>

Roomy ==
    /\ Goes("while", "fread")
    /\ ~AtEnd /\ ~Full
    /\ UNCHANGED <<options, stdin, queue>>

(* Seeded fault: buflen = r instead of buflen += r.                        *)
Got_Forgets(n) ==
    /\ Goes("fread", "while")
    /\ unread' = unread - n
    /\ buflen' = n
    /\ UNCHANGED <<options, bufsize, queue>>

(* fread() gives n bytes, and the terminator is written after them.        *)
Got(n) ==
    /\ Goes("fread", "while")
    /\ unread' = unread - n
    /\ buflen' = buflen + n
    /\ UNCHANGED <<options, bufsize, queue>>

(* It stops short of what it was asked for at the end of the input only.   *)
Read ==
    LET n == IF unread < Block - 1 THEN unread ELSE Block - 1
    IN  /\ Got(n)
        /\ eof' = (n < Block - 1)
        /\ UNCHANGED ferror

(* Or because reading fails.  The test for it, r < 0, is never true of     *)
(* what fread() returns, and the loop goes on.                             *)
ReadError ==
    /\ \E n \in 0..(Block - 2) : n <= unread /\ Got(n)
    /\ ferror' = TRUE
    /\ UNCHANGED eof

EndOfInput ==
    /\ Goes("while", "create")
    /\ AtEnd
    /\ UNCHANGED <<options, stdin, queue>>

-----------------------------------------------------------------------------
(* Sending.                                                                *)

Create == Calls("create", "subject", Queue!Create(Msg))

(* The next call on the message dereferences NULL.                         *)
CreateFailure == Calls("create", "crashed", Queue!CreateFails)

(* The results of the setters are ignored.                                 *)
SetSubject ==
    Calls("subject", "type",
          IF subj = Null THEN UNCHANGED queue
                         ELSE Queue!SetSubject(Msg, subj) \/ Queue!SetterFails(Msg))

SetType ==
    Calls("type", "add",
          IF type = Null THEN UNCHANGED queue
                         ELSE Queue!SetType(Msg, type) \/ Queue!SetterFails(Msg))

AddBytes == Calls("add", "send", Queue!AddBytes(Msg, buflen))

AddBytesFailure == Calls("add", "failed", Queue!AddBytesFails(Msg))

Send == Calls("send", "deliver", Queue!Send(Msg))

SendFailure ==
    Calls("send", "failed", Queue!SendNoAddress(Msg) \/ Queue!PutFails(Msg))

Deliver == Calls("deliver", "free", Queue!Deliver)

(* Seeded fault: the result of mq_deliver() is ignored.                    *)
DeliverFailure_Ignored == Calls("deliver", "free", Queue!DeliverFails)

DeliverFailure == Calls("deliver", "failed", Queue!DeliverFails)

Free == Calls("free", "disconnect", Queue!Free(Msg))

Disconnect == Calls("disconnect", "sent", Queue!Disconnect)

-----------------------------------------------------------------------------
Init ==
    /\ step = "options"
    /\ type \in {Null, Type} /\ subj \in {Null, Subject}
    /\ input \in Sizes
    /\ unread = input
    /\ bufsize = 0 /\ buflen = 0
    /\ eof = FALSE /\ ferror = FALSE
    /\ Queue!Init

Next ==
    \/ Help \/ Misuse \/ Options \/ Connect \/ ConnectFailure
    \/ Grow \/ GrowFails \/ Roomy \/ Read \/ ReadError \/ EndOfInput
    \/ Create \/ CreateFailure \/ SetSubject \/ SetType
    \/ AddBytes \/ AddBytesFailure \/ Send \/ SendFailure
    \/ Deliver \/ DeliverFailure \/ Free \/ Disconnect

Spec == Init /\ [][Next]_vars

(* The program does not stop between two steps, its input does not make it *)
(* wait for ever, and neither does the messenger.                          *)
FairSpec == Spec /\ WF_vars(Next)

-----------------------------------------------------------------------------
(* Correctness.                                                            *)

Steps ==
    Ended \cup {"options", "connect", "while", "fread", "create", "subject", "type", "add",
                "send", "deliver", "free", "disconnect"}

(* Every variable of main() has its type, and the size of the input is     *)
(* what has been read and what has not: nothing is left after the end.     *)
SendTypeOK ==
    /\ step \in Steps
    /\ type \in {Null, Type} /\ subj \in {Null, Subject}
    /\ bufsize \in Nat /\ buflen \in Nat /\ unread \in Nat
    /\ input = buflen + unread
    /\ eof \in BOOLEAN /\ ferror \in BOOLEAN
    /\ eof => unread = 0

(* mq-send.c:93, :104, :112: when fread() is called, the Block - 1 bytes   *)
(* it may give and the terminator after them are within the buffer; the    *)
(* terminator always was; and the buffer never has two blocks to spare, so *)
(* it does not grow without the input.                                     *)
BufferSafe ==
    /\ step = "fread" => buflen + Block <= bufsize
    /\ bufsize = buflen => bufsize = 0
    /\ buflen <= bufsize
    /\ bufsize < buflen + 2 * Block

(* mq-send.c:148: if the program reports success, the broker has received  *)
(* exactly one message from it, which has the whole input in one section   *)
(* of its body and went to the URI, and nothing is pending: whatever the   *)
(* sizes of the reads and whichever calls could have failed.               *)
SuccessMeansSent ==
    step = "sent" =>
       /\ Len(sent) = 1 /\ outgoing = <<>>
       /\ sent[1].content.body = <<input>>
       /\ sent[1].content.address = Uri

(* The program ends, unless reading fails: whichever call fails, its loop  *)
(* gives up or reaches the end of the input, growing the buffer as often   *)
(* as that takes.                                                          *)
ProgramEnds == <>(step \in Ended \/ ferror)

-----------------------------------------------------------------------------
(* What the program says and does not do.                                  *)

(* mq-send.c:107: an error reading from standard input ends the program    *)
(* with a failure.                                                         *)
ReadErrorReported == ferror ~> step \in Ended \ {"sent"}
===============================================================================
