-------------------------------- MODULE MqRecv --------------------------------
(***************************************************************************)
(* The tool mq-recv.c: prints every message it receives over an AMQP       *)
(* connection, and accepts it.  It may be killed at any point and started  *)
(* again.                                                                  *)
(*                                                                         *)
(* `step' is the place in main(); a call of the library is an action of    *)
(* ProtonQueue.  The messages have numbers.  Three things around the       *)
(* program matter to what becomes of them: stdout, which may be buffered   *)
(* by the C library and may fail, which mq-recv does not notice; the       *)
(* messenger, which tells the broker of an accepted  *)
(* delivery when it runs, and that is while mq_next() waits or the         *)
(* connection is closed; and the broker, which offers to the next process  *)
(* whatever it has not been told of.                                       *)
(***************************************************************************)
EXTENDS Integers, Sequences, FiniteSets

CONSTANTS
    Count,    \* the messages are 1..Count
    Rooms,    \* how many messages stdout may hold back: 0 for a terminal
    MaxRuns,  \* bound on the number of times it is started
    Msg, Uri, Null

ASSUME RecvAssumption ==
    /\ Count \in Nat /\ MaxRuns \in Nat \ {0}
    /\ Rooms \subseteq Nat
    /\ Null \notin {Msg, Uri}

VARIABLES
    step,     \* the place in main(), or "ended"
    room,     \* how many messages this stdout may hold back
    stdio,    \* the messages it holds back
    output,   \* the messages that have left it
    failures, \* the messages and the exits for which writing to it failed
    offer,    \* the messages on offer to this process, in their order
    told,     \* the messages the broker knows to be accepted
    runs, crashes,
    life, q, messengers, handle, inbox, incoming, log, tracked, outgoing, sent, last

Queue == INSTANCE ProtonQueue WITH
            MsgHandles <- {Msg}, Window <- 1, Types <- {}, Subjects <- {}, Addresses <- {},
            Chunks <- {}, Arrivals <- Count, MaxPuts <- 0, MaxChunks <- 0

printed == <<room, stdio, output, failures>>
broker  == <<offer, told>>
history == <<runs, crashes>>
queue   == <<life, q, messengers, handle, inbox, incoming, log, tracked, outgoing, sent, last>>
vars    == <<step, printed, broker, history, queue>>

Messages == 1..Count

(* NULL is no message.                                                     *)
ASSUME NullAssumption == Null \notin Queue!Messages

Accepted == {offer[n] : n \in {i \in DOMAIN log : log[i].state = "accepted"}}

Goes(from, to) == step = from /\ step' = to

-----------------------------------------------------------------------------
Connect ==
    /\ Goes("connect", "next")
    /\ Queue!ConnectRecv
    /\ UNCHANGED <<printed, broker, history>>

(* There is not exactly one argument: the program prints how it is used.   *)
Misuse ==
    /\ Goes("connect", "ended")
    /\ UNCHANGED <<printed, broker, history, queue>>

ConnectFailure ==
    /\ Goes("connect", "ended")
    /\ Queue!ConnectFails \/ Queue!ConnectNoMemory
    /\ UNCHANGED <<printed, broker, history>>

(* mq_next() waits, and the messenger runs.                                *)
Wait ==
    /\ step = "next" /\ incoming = 0
    /\ told' = told \cup Accepted
    /\ UNCHANGED <<step, printed, offer, history, queue>>

Receive ==
    /\ Goes("next", "print")
    /\ Queue!NextMessage(Msg)
    /\ UNCHANGED <<printed, broker, history>>

(* Whatever the reason, the loop is left.                                  *)
ReceiveFailure ==
    /\ Goes("next", "disconnect")
    /\ \/ Queue!NextRecvError \/ Queue!NextNothing
       \/ Queue!NextNoMemory \/ Queue!NextGetFails
    /\ UNCHANGED <<printed, broker, history>>

(* Seeded fault: the loop goes on without accepting the message.           *)
Show_Continues ==
    /\ Goes("print", "next")
    /\ Queue!GetBody(Msg)
    /\ output' = Append(output \o stdio, offer[handle[Msg].tracker])
    /\ stdio' = <<>>
    /\ UNCHANGED <<room, failures, broker, history>>

(* stdout passes on at least what it has no room for.                      *)
Write(all) ==
    /\ \E k \in 0..Len(all) :
          /\ Len(all) - k <= room
          /\ output' = output \o SubSeq(all, 1, k)
          /\ stdio' = SubSeq(all, k + 1, Len(all))
    /\ UNCHANGED failures

(* A write fails: some of it has left, and the C library may drop what it  *)
(* held back, or keep it and refuse what is new.                           *)
WriteFails(all) ==
    /\ \E k \in 0..Len(all) :
          /\ output' = output \o SubSeq(all, 1, k)
          /\ \E i \in (k + 1)..(Len(all) + 1), j \in k..Len(all) :
                stdio' = SubSeq(all, i, j)
    /\ Len(stdio') <= room
    /\ failures' = failures + 1

(* The message goes to stdout.  The results of printf() and fwrite() are   *)
(* ignored.                                                                *)
Show ==
    /\ Goes("print", "accept")
    /\ Queue!GetBody(Msg)
    /\ LET all == Append(stdio, offer[handle[Msg].tracker])
       IN  Write(all) \/ WriteFails(all)
    /\ UNCHANGED <<room, broker, history>>

Accept ==
    /\ Goes("accept", "next")
    /\ Queue!Accept(Msg)
    /\ UNCHANGED <<printed, broker, history>>

(* Seeded fault: the program leaves through _exit(), without a flush.      *)
Leave_NoFlush ==
    /\ Goes("disconnect", "ended")
    /\ Queue!Disconnect
    /\ told' \in {told, told \cup Accepted}
    /\ stdio' = <<>>
    /\ UNCHANGED <<room, output, failures, offer, history>>

(* mq_disconnect() and the exit of the program, which flushes stdout: what *)
(* cannot be written then is lost.                                         *)
Leave ==
    /\ Goes("disconnect", "ended")
    /\ Queue!Disconnect
    /\ told' \in {told, told \cup Accepted}
    /\ \/ output' = output \o stdio /\ UNCHANGED failures
       \/ /\ \E k \in 0..Len(stdio) : output' = output \o SubSeq(stdio, 1, k)
          /\ failures' = failures + 1
    /\ stdio' = <<>>
    /\ UNCHANGED <<room, offer, history>>

-----------------------------------------------------------------------------
(* The process is killed, by a write to a closed pipe for example, and     *)
(* what stdout held back is gone with it.                                  *)
Crash ==
    /\ step # "ended"
    /\ step' = "ended"
    /\ crashes' = crashes + 1
    /\ stdio' = <<>>
    /\ UNCHANGED <<room, output, failures, broker, runs, queue>>

(* The sequence of a set of messages, in their order.                      *)
Ordered(set) ==
    {o \in [1..Cardinality(set) -> set] : \A i, j \in DOMAIN o : i < j => o[i] < o[j]}

(* A new process is offered what the broker was not told of.               *)
Start ==
    /\ Goes("ended", "connect")
    /\ runs < MaxRuns
    /\ runs' = runs + 1
    /\ offer' \in Ordered(Messages \ told)
    /\ inbox' = Len(offer')
    /\ life' = "new" /\ q' = Queue!Constructed /\ messengers' = 0
    /\ handle' = [m \in {Msg} |-> Null]
    /\ incoming' = 0 /\ log' = <<>> /\ tracked' = {}
    /\ last' = "ok"
    /\ UNCHANGED <<printed, told, crashes, outgoing, sent>>

Init ==
    /\ step = "connect"
    /\ room \in Rooms
    /\ stdio = <<>> /\ output = <<>> /\ failures = 0
    /\ offer = [i \in Messages |-> i]
    /\ told = {}
    /\ runs = 1 /\ crashes = 0
    /\ Queue!Init

Work == Connect \/ Wait \/ Receive \/ Show \/ Accept \/ Leave

Next == Work \/ Misuse \/ ConnectFailure \/ ReceiveFailure \/ Crash \/ Start

Spec == Init /\ [][Next]_vars

(* The process is scheduled, what is sent to it arrives, and the messenger *)
(* runs while the program waits.                                           *)
FairSpec == Spec /\ WF_vars(Work)

-----------------------------------------------------------------------------
(* Correctness.                                                            *)

(* Every variable has its type, stdout holds back no more than it may, and *)
(* there is a message at hand between mq_next() and the end of the loop.   *)
RecvTypeOK ==
    /\ step \in {"connect", "next", "print", "accept", "disconnect", "ended"}
    /\ step # "ended" => (handle[Msg] # Null <=> step \in {"print", "accept"})
    /\ room \in Rooms
    /\ output \in Seq(Messages)
    /\ stdio \in Seq(Messages) /\ Len(stdio) <= room
    /\ failures \in Nat
    /\ offer \in Seq(Messages) /\ Len(log) + incoming + inbox <= Len(offer)
    /\ told \subseteq Messages
    /\ runs \in 1..MaxRuns /\ crashes \in 0..runs

PrintedMessages == {(output \o stdio)[i] : i \in 1..Len(output \o stdio)}

(* mq-recv.c:58-73: a message is accepted after printf() and fwrite(), so  *)
(* the broker never forgets one that they have not written, however often  *)
(* the program is killed and started again: except for those that stdout   *)
(* was holding back when it was killed or could not write, and the message *)
(* at hand then.  A terminal loses one message for each that could not be  *)
(* written, and none by a kill.                                            *)
LossBounded ==
    Cardinality(told \ PrintedMessages) <= (crashes + failures) * room + failures

(* The program holds one message at a time, so the incoming window of one  *)
(* is enough for it: whatever it has received it has accepted, up to the   *)
(* message at hand and one that could not be decoded.                      *)
AllAccepted ==
    \A n \in DOMAIN log :
       log[n].decoded /\ handle[Msg] = Null => log[n].state = "accepted"

(* Unless it ends, the program gets through the queue: every message is    *)
(* accepted, and the broker comes to know of it.                           *)
Drained == []<>(told = Messages \/ step = "ended")
===============================================================================
