----------------------------- MODULE MessageQueue -----------------------------
(***************************************************************************)
(* What libmq.h promises of a connection: an abstract specification that   *)
(* ProtonQueue implements.                                                 *)
(*                                                                         *)
(* A message in the application's hands is one of its own, or stands for   *)
(* the delivery it came with.  Every delivery has a fate; it is decided by *)
(* the application when it disposes of the message, once and for all, and  *)
(* not at all if too many deliveries have come since.  What the            *)
(* application has sent is delivered in that order, each message once, or  *)
(* is lost when the connection is closed.  Any call may fail.              *)
(***************************************************************************)
EXTENDS Integers, Sequences

CONSTANTS
    MsgHandles,  \* the messages the application may have at a time
    Window,      \* how many of the latest deliveries can be disposed of
    Null

VARIABLES
    life,    \* "new", "open" or "closed"
    held,    \* for each message the number of its delivery, 0 for a message
             \* of the application's own, or Null if there is no such message
    fate,    \* what became of each delivery
    unsent,  \* the messages sent and not delivered
    sent     \* the messages delivered

vars == <<life, held, fate, unsent, sent>>

Fates == {"none", "accepted", "rejected"}

-----------------------------------------------------------------------------
Open ==
    /\ life = "new"
    /\ life' = "open"
    /\ UNCHANGED <<held, fate, unsent, sent>>

(* The first k of the pending messages are delivered.                      *)
Delivered(k) == sent' = sent \o SubSeq(unsent, 1, k)

Close ==
    /\ life = "open"
    /\ life' = "closed"
    /\ held' = [m \in MsgHandles |-> Null]
    /\ \E k \in 0..Len(unsent) : Delivered(k)
    /\ unsent' = <<>>
    /\ UNCHANGED fate

(* mq_next()                                                               *)
Receive(m) ==
    /\ life = "open" /\ held[m] = Null
    /\ fate' = Append(fate, "none")
    /\ held' = [held EXCEPT ![m] = Len(fate')]
    /\ UNCHANGED <<life, unsent, sent>>

(* mq_next() gets a delivery that is no message.                           *)
ReceiveBad ==
    /\ life = "open"
    /\ fate' = Append(fate, "none")
    /\ UNCHANGED <<life, held, unsent, sent>>

(* mq_message_create()                                                     *)
Compose(m) ==
    /\ life = "open" /\ held[m] = Null
    /\ held' = [held EXCEPT ![m] = 0]
    /\ UNCHANGED <<life, fate, unsent, sent>>

(* mq_message_accept(), _reject(), _pass() and _free(), for d.             *)
Dispose(m, d) ==
    /\ life = "open" /\ held[m] # Null
    /\ held' = [held EXCEPT ![m] = Null]
    /\ fate' = [n \in DOMAIN fate |->
                   IF n = held[m] /\ n > Len(fate) - Window THEN d ELSE fate[n]]
    /\ UNCHANGED <<life, unsent, sent>>

(* mq_message_send()                                                       *)
Post(m) ==
    /\ life = "open" /\ held[m] = 0
    /\ Len(unsent') = Len(unsent) + 1
    /\ SubSeq(unsent', 1, Len(unsent)) = unsent
    /\ UNCHANGED <<life, held, fate, sent>>

(* mq_deliver(), which may fail after some of the messages.                *)
Flush ==
    /\ life = "open"
    /\ \E k \in 0..Len(unsent) :
          /\ Delivered(k)
          /\ unsent' = SubSeq(unsent, k + 1, Len(unsent))
    /\ UNCHANGED <<life, held, fate>>

-----------------------------------------------------------------------------
Init ==
    /\ life = "new"
    /\ held = [m \in MsgHandles |-> Null]
    /\ fate = <<>>
    /\ unsent = <<>>
    /\ sent = <<>>

Next ==
    \/ Open \/ Close \/ ReceiveBad \/ Flush
    \/ \E m \in MsgHandles :
          Receive(m) \/ Compose(m) \/ Post(m) \/ \E d \in Fates : Dispose(m, d)

Spec == Init /\ [][Next]_vars
===============================================================================
