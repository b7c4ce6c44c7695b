--------------------------- MODULE SharedMessages ---------------------------
(***************************************************************************)
(* Core::SharedMessages: the linked list behind every queue of the program *)
(* (the event loop's and each worker's).                                   *)
(*                                                                         *)
(* The names are the code's, which are unusual: "queue" is where messages  *)
(* leave, "head" is where they enter, and m.prev is the message that       *)
(* entered after m.  The lists' mutex is held by at most one thread, but   *)
(* hasPendingMessages() and hasAsyncMessages() read the counters without   *)
(* it, so they can fall between any two steps: addMessage() links, then    *)
(* counts; delMessagesForDest() is a loop that keeps the mutex and calls   *)
(* m_Cleaner half-way through each removal.                                *)
(***************************************************************************)
EXTENDS Naturals, Sequences, Lists, FiniteSets

CONSTANTS
    Thread,     \* the threads that use the list
    NoThread,   \* the mutex is free
    Message,    \* the addresses at which a Message can be allocated
    NoMessage,  \* NULL
    Dest,       \* the objects messages are addressed to
    Event       \* the values of Message::m_Type

\* The addresses are those of a memory, and NULL is none of them.
ASSUME AddressAssumption == IsFiniteSet(Message) /\ NoMessage \notin Message
ASSUME ThreadAssumption == NoThread \notin Thread

VARIABLES
    queue,      \* m_MessagesList.queue: the oldest message
    head,       \* m_MessagesList.head: the newest message
    prev,       \* Message::prev
    count,      \* m_MessagesList.count
    asyncCount, \* m_MessagesList.asyncCount
    info,       \* m_Dest, m_Type and m_ForceAsync of each message
    lock,       \* the holder of m_MessagesList.lock
    inHand,     \* the message each thread has read and not deleted yet
    adding,     \* the message of the addMessage() that has linked it
    del         \* the local variables of the delMessagesForDest() under way

list == <<queue, head, prev, count, asyncCount>>
vars == <<list, info, lock, inHand, adding, del>>

Link == Message \cup {NoMessage}
Info == [dest : Dest, event : Event, async : BOOLEAN]

\* What freed memory holds: nothing reads it, so one value stands for all.
Blank == [dest |-> NoMessage, event |-> NoMessage, async |-> FALSE]

\* delMessagesForDest(): the message the loop looks at, the last one it kept,
\* the messages its arguments name, and whether m_Cleaner is running.
NoDelete == [message |-> NoMessage, next |-> NoMessage, named |-> {},
             cleaning |-> FALSE]

Init ==
    /\ queue = NoMessage
    /\ head = NoMessage
    /\ prev = [m \in Message |-> NoMessage]
    /\ count = 0
    /\ asyncCount = 0
    /\ info = [m \in Message |-> Blank]
    /\ lock = NoThread
    /\ inHand = [t \in Thread |-> NoMessage]
    /\ adding = NoMessage
    /\ del = NoDelete

\* The list as a sequence, the oldest message first.
Chain == Walk(prev, queue, NoMessage, Cardinality(Message) + 1)

\* new Message: an address no live message has.
Unused(m) ==
    /\ m \notin Elements(Chain)
    /\ \A t \in Thread : inHand[t] # m
    /\ ~(del.cleaning /\ del.message = m)

\* delete m.
Free(m) ==
    /\ info' = [info EXCEPT ![m] = Blank]
    /\ prev' = [prev EXCEPT ![m] = NoMessage]
-----------------------------------------------------------------------------
(* Definitions named ...Wrongly are slips that code like this invites.  No   *)
(* behaviour of the program uses them: each is there to be put in the place *)
(* of the definition it precedes, and to be found out by a property.        *)

\* postMessage() -> addMessage(): the message is linked ...
AddMessage(t, m, i) ==
    /\ lock = NoThread
    /\ Unused(m)
    /\ lock' = t /\ adding' = m
    /\ info' = [info EXCEPT ![m] = i]
    /\ prev' = [n \in Message |-> IF n = m THEN NoMessage
                                  ELSE IF n = head THEN m ELSE prev[n]]
    /\ queue' = IF queue = NoMessage THEN m ELSE queue
    /\ asyncCount' = IF i.async THEN asyncCount + 1 ELSE asyncCount
    /\ head' = m
    /\ UNCHANGED <<count, inHand, del>>

\* ... then counted.
AddCount(t) ==
    /\ lock = t /\ adding # NoMessage
    /\ count' = count + 1
    /\ lock' = NoThread /\ adding' = NoMessage
    /\ UNCHANGED <<queue, head, prev, asyncCount, info, inHand, del>>

\* asyncCount once m has left the list.
AsyncWithout(m) == IF info[m].async THEN asyncCount - 1 ELSE asyncCount

\* readMessage(stopOnAsync).  A call that returns NULL changes nothing.
ReadMessage(t, stopOnAsync) ==
    /\ lock = NoThread
    /\ inHand[t] = NoMessage
    /\ queue # NoMessage
    /\ ~(stopOnAsync /\ info[queue].async)
    /\ inHand' = [inHand EXCEPT ![t] = queue]
    /\ queue' = prev[queue]
    /\ head' = IF prev[queue] = NoMessage THEN NoMessage ELSE head
    /\ asyncCount' = AsyncWithout(queue)
    /\ count' = count - 1
    /\ UNCHANGED <<prev, info, lock, adding, del>>

\* The reader deletes the message it was given.
DeleteRead(t) ==
    /\ inHand[t] # NoMessage
    /\ inHand' = [inHand EXCEPT ![t] = NoMessage]
    /\ Free(inHand[t])
    /\ UNCHANGED <<queue, head, count, asyncCount, lock, adding, del>>

\* The messages that (dest == NULL || m->dest() == dest) &&
\* (event == -1 || event == m->event()) holds for.
Named(d, anyDest, e, anyEvent) ==
    {m \in Message : /\ anyDest \/ info[m].dest = d
                     /\ anyEvent \/ info[m].event = e}

\* delMessagesForDest() takes the mutex and starts at the oldest message.
DelBegin(t, S) ==
    /\ lock = NoThread
    /\ lock' = t
    /\ del' = [NoDelete EXCEPT !.message = queue, !.named = S]
    /\ UNCHANGED <<list, info, inHand, adding>>

\* One turn of the loop for a message that stays.
DelKeepWrongly(t) ==        \* counts the message that stays, too
    /\ lock = t
    /\ del.message # NoMessage
    /\ del.message \notin del.named
    /\ count' = count - 1
    /\ del' = [del EXCEPT !.message = prev[del.message], !.next = del.message]
    /\ UNCHANGED <<queue, head, prev, asyncCount, info, lock, inHand, adding>>
DelKeep(t) ==
    /\ lock = t
    /\ del.message # NoMessage
    /\ del.message \notin del.named
    /\ del' = [del EXCEPT !.message = prev[del.message], !.next = del.message]
    /\ UNCHANGED <<list, info, lock, inHand, adding>>

\* The links once m, which is behind del.next, has left the list ...
RelinkedWrongly(m) == prev
Relinked(m) ==
    IF del.next # NoMessage THEN [prev EXCEPT ![del.next] = prev[m]] ELSE prev

\* ... and its newest message, when q is the oldest one.
HeadWithoutWrongly(m, q) == IF q = NoMessage THEN NoMessage ELSE head
HeadWithout(m, q) ==
    IF q = NoMessage THEN NoMessage ELSE IF m = head THEN del.next ELSE head

\* One turn of the loop for a message that goes, up to the call of m_Cleaner.
DelUnlink(t) ==
    LET m == del.message
    IN  /\ lock = t
        /\ m # NoMessage /\ m \in del.named /\ ~del.cleaning
        /\ prev' = Relinked(m)
        /\ queue' = IF del.next # NoMessage THEN queue ELSE prev[m]
        /\ head' = HeadWithout(m, queue')
        /\ asyncCount' = AsyncWithout(m)
        /\ del' = [del EXCEPT !.cleaning = TRUE]
        /\ UNCHANGED <<count, info, lock, inHand, adding>>

\* The rest of that turn: m_Cleaner has returned, the message is deleted.
DelFree(t) ==
    /\ lock = t
    /\ del.cleaning
    /\ count' = count - 1
    /\ Free(del.message)
    /\ del' = [del EXCEPT !.message = prev[del.message], !.cleaning = FALSE]
    /\ UNCHANGED <<queue, head, asyncCount, lock, inHand, adding>>

\* The loop has reached the end of the list: the mutex is released.
DelEnd(t) ==
    /\ lock = t /\ adding = NoMessage
    /\ del.message = NoMessage
    /\ lock' = NoThread
    /\ del' = NoDelete
    /\ UNCHANGED <<list, info, inHand, adding>>

Next ==
    \/ \E t \in Thread, m \in Message, i \in Info : AddMessage(t, m, i)
    \/ \E t \in Thread : AddCount(t)
    \/ \E t \in Thread, s \in BOOLEAN : ReadMessage(t, s)
    \/ \E t \in Thread : DeleteRead(t)
    \/ \E t \in Thread, d \in Dest, e \in Event, ad, ae \in BOOLEAN :
          DelBegin(t, Named(d, ad, e, ae))
    \/ \E t \in Thread : DelKeep(t)
    \/ \E t \in Thread : DelUnlink(t)
    \/ \E t \in Thread : DelFree(t)
    \/ \E t \in Thread : DelEnd(t)

Spec == Init /\ [][Next]_vars
-----------------------------------------------------------------------------
TypeOK ==
    /\ queue \in Link /\ head \in Link
    /\ prev \in [Message -> Link]
    /\ count \in Nat /\ asyncCount \in Nat
    /\ info \in [Message -> Info \cup {Blank}]
    /\ lock \in Thread \cup {NoThread}
    /\ inHand \in [Thread -> Link]
    /\ adding \in Link
    /\ del \in [message : Link, next : Link, named : SUBSET Message,
                cleaning : BOOLEAN]

\* Messages that have left the list, and have each one reader.
NoDanglingLink ==
    /\ \A t \in Thread : inHand[t] = NoMessage \/ inHand[t] \notin Elements(Chain)
    /\ del.cleaning => del.message \notin Elements(Chain)
    /\ \A t, u \in Thread : inHand[t] = inHand[u] => t = u \/ inHand[t] = NoMessage

\* Whenever the mutex is free the list is in one piece: walking it from queue
\* ends at head, and both counters say what the walk finds.  addMessage()
\* links through head and readMessage() unlinks through queue, so a head left
\* behind by delMessagesForDest() would lose every later message.  And at no
\* step does it reach a message that was handed out or is being cleaned, whose
\* memory is about to be used again.
ListIsWhole ==
    /\ NoDanglingLink
    /\ lock = NoThread =>
        /\ head = IF Chain = <<>> THEN NoMessage ELSE Chain[Len(Chain)]
        /\ count = Len(Chain)
        /\ asyncCount = Cardinality({m \in Elements(Chain) : info[m].async})

\* The message of an addMessage() under way is not the users' yet, nor are
\* those that a deletion under way has named.
Hidden == IF adding = NoMessage THEN del.named ELSE {adding}

\* hasPendingMessages() is read without the mutex (by a worker about to go to
\* sleep, TaskManager.cpp:32): at no step, not even inside the loop of
\* delMessagesForDest() or its m_Cleaner call, may it deny a message that is
\* in the list, but for the one whose postMessage() has still to count it.
NeverDeniesAMessage ==
    count >= IF adding = NoMessage THEN Len(Chain) ELSE Len(Chain) - 1

Entries(s) ==
    [i \in 1..Len(s) |-> [at |-> s[i], dest |-> info[s[i]].dest,
                          event |-> info[s[i]].event, async |-> info[s[i]].async]]

\* The list as its users see it: a deletion has happened once it has begun, a
\* post when it has counted, which is what hasPendingMessages() looks at.
AbstractQueue ==
    CHOOSE q \in {Entries(s) : s \in Purges(Chain, Hidden)} : TRUE

\* Every operation on the linked list is, or is part of, one operation of the
\* abstract queue.
Abstract == INSTANCE MessageQueue WITH queue <- AbstractQueue

ImplementsMessageQueue == Abstract!Spec
=============================================================================
