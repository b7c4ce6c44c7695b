---------------------------- MODULE MessageQueue ----------------------------
(***************************************************************************)
(* What Core::SharedMessages promises to its users: a first-in first-out   *)
(* queue of messages on which every operation takes effect at one instant. *)
(*                                                                         *)
(* Readers never see half of a delMessagesForDest(), messages that stay    *)
(* keep their order, and a message is owned by the queue, by the thread    *)
(* readMessage() returned it to, or by nobody (its memory is free).        *)
(* SharedMessages is the linked list that implements this.                 *)
(***************************************************************************)
EXTENDS Naturals, Sequences, Lists

CONSTANTS
    Thread,     \* the threads that use the queue
    Message,    \* the addresses at which a Message can be allocated
    NoMessage,  \* NULL
    Dest,       \* the objects messages are addressed to
    Event       \* the values of Message::m_Type

VARIABLES
    queue,      \* the messages waiting, the oldest first
    inHand      \* the message each thread has read and not deleted yet

vars == <<queue, inHand>>

\* A message: its address and the fields readMessage() and
\* delMessagesForDest() look at.
Entry == [at : Message, dest : Dest, event : Event, async : BOOLEAN]

TypeOK ==
    /\ queue \in Seq(Entry)
    /\ inHand \in [Thread -> Message \cup {NoMessage}]

Init ==
    /\ queue = <<>>
    /\ inHand = [t \in Thread |-> NoMessage]

\* An address no live message has.
Unused(m) ==
    /\ \A i \in 1..Len(queue) : queue[i].at # m
    /\ \A t \in Thread : inHand[t] # m

\* postMessage(): the message goes behind every message posted before it.
Post(e) ==
    /\ Unused(e.at)
    /\ queue' = Append(queue, e)
    /\ UNCHANGED inHand

\* readMessage(stopOnAsync): the oldest message, unless it must wait.
Read(t, stopOnAsync) ==
    /\ inHand[t] = NoMessage
    /\ queue # <<>>
    /\ ~(stopOnAsync /\ Head(queue).async)
    /\ inHand' = [inHand EXCEPT ![t] = Head(queue).at]
    /\ queue' = Tail(queue)

\* The reader is done with its message and deletes it.
Dispose(t) ==
    /\ inHand[t] # NoMessage
    /\ inHand' = [inHand EXCEPT ![t] = NoMessage]
    /\ UNCHANGED queue

\* delMessagesForDest(dest, event): every message it names goes, at once.  The
\* flags stand for dest == NULL and event == -1.
Delete(d, anyDest, e, anyEvent) ==
    /\ queue' \in Purges(queue, {m \in Elements(queue) :
                                    /\ anyDest \/ m.dest = d
                                    /\ anyEvent \/ m.event = e})
    /\ UNCHANGED inHand

Next ==
    \/ \E e \in Entry : Post(e)
    \/ \E t \in Thread, s \in BOOLEAN : Read(t, s)
    \/ \E t \in Thread : Dispose(t)
    \/ \E d \in Dest, e \in Event, ad, ae \in BOOLEAN : Delete(d, ad, e, ae)

Spec == Init /\ [][Next]_vars
=============================================================================
