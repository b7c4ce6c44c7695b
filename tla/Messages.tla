------------------------------ MODULE Messages ------------------------------
(***************************************************************************)
(* Core::Messages: objects that post messages to one another, and the      *)
(* reader that hands the messages over on the main thread.                 *)
(*                                                                         *)
(* A timer runs Messages_handle() on the main thread.  A message posted    *)
(* from the main thread is handed over before postMessage() returns, when  *)
(* that cannot upset anyone: postMessage() then runs Messages_handle()     *)
(* itself, perhaps from inside a handler that Messages_handle() is running.*)
(* "stack" holds the Messages_handle() calls under way, innermost last.    *)
(*                                                                         *)
(* Every Messages object here is created by the main thread.  The list is  *)
(* the abstract one of MessageQueue: a delMessagesForDest() is one step.   *)
(***************************************************************************)
EXTENDS Integers, Sequences, FiniteSets, Lists

CONSTANTS
    Object,         \* the addresses of Messages objects
    NoObject,       \* NULL
    Message,        \* the addresses at which a Message can be allocated
    NoMessage,      \* NULL
    Event,          \* the values of Message::m_Type
    Thread,         \* the threads, other than the main one, that post
    MaxInRow,       \* MAX_MSG_IN_ROW
    MaxCalls,       \* bound: the calls one handler makes before it returns
    MaxPending      \* bound: _m_CountMessagePending of one object

ASSUME NamesAssumption == NoObject \notin Object /\ NoMessage \notin Message

ASSUME BoundsAssumption ==
    /\ MaxInRow \in Nat /\ MaxInRow >= 2
    /\ MaxCalls \in Nat /\ MaxPending \in Nat

ASSUME MessageAssumption == IsFiniteSet(Message)

VARIABLES
    reader,     \* g_MessagesList # nullptr
    list,       \* *g_MessagesList
    posting,    \* g_PostingSyncMsg
    info,       \* m_Dest, m_Type and m_ForceAsync of each message
    pending,    \* Messages::_m_CountMessagePending
    alive,      \* the Messages objects that exist
    stack,      \* the calls of Messages_handle() under way
    inPost,     \* the message each other thread is about to enqueue
    syncWaits   \* history: the message of the current one is still queued

vars == <<reader, list, posting, info, pending, alive, stack, inPost, syncWaits>>

Info(o, e, a) == [dest |-> o, event |-> e, async |-> a]
Free == Info(NoObject, NoObject, FALSE)     \* the address is not allocated
Posted == [dest : Object, event : Event, async : BOOLEAN]

\* A call of Messages_handle(): the message whose handler runs (NoMessage:
\* the loop is between two messages), the calls its handler may still make,
\* nread, stopOnAsync; and, when postMessage() made the call, the message it
\* has yet to enqueue.
NewFrameWrongly(sync, m) == [cur |-> NoMessage, calls |-> 0, nread |-> 0,
                             stopOnAsync |-> TRUE, sync |-> sync, toPost |-> m]
NewFrame(sync, m) == [cur |-> NoMessage, calls |-> 0, nread |-> 0,
                      stopOnAsync |-> FALSE, sync |-> sync, toPost |-> m]

Frame == [cur : Message \cup {NoMessage}, calls : 0..MaxCalls, nread : Nat,
          stopOnAsync : BOOLEAN, sync : BOOLEAN,
          toPost : Message \cup {NoMessage}]

Init ==
    /\ reader = TRUE
    /\ list = <<>>
    /\ posting = NoMessage
    /\ info = [m \in Message |-> Free]
    /\ pending = [o \in Object |-> 0]
    /\ alive = Object
    /\ stack = <<>>
    /\ inPost = [t \in Thread |-> NoMessage]
    /\ syncWaits = FALSE

Top == stack[Len(stack)]
SetTop(f) == stack' = [stack EXCEPT ![Len(stack)] = f]

\* The main thread runs code that may use Messages: a handler that
\* Messages_handle() called, or any other callback of the event loop.
MayCall == stack # <<>> => Top.cur # NoMessage /\ Top.calls > 0

\* The stack once the handler has made one more call.
Called == IF stack = <<>> THEN stack
          ELSE [stack EXCEPT ![Len(stack)].calls = @ - 1]

HasAsyncMessages == \E m \in Elements(list) : info[m].async
-----------------------------------------------------------------------------
(* Posting. *)

(* Definitions named ...Wrongly are slips that code like this invites.  No   *)
(* behaviour of the program uses them: each is there to be put in the place *)
(* of the definition it precedes, and to be found out by a property.        *)

\* new Message, setDest() and Inc(_m_CountMessagePending), by any thread.  The
\* assertion on g_MessagesList must hold.
PrepareWrongly(o, m, e, a) ==   \* without the count
    /\ reader /\ o \in alive /\ info[m] = Free
    /\ info' = [info EXCEPT ![m] = Info(o, e, a)]
    /\ UNCHANGED pending
Prepare(o, m, e, a) ==
    /\ reader
    /\ o \in alive
    /\ info[m] = Free
    /\ pending[o] < MaxPending
    /\ info' = [info EXCEPT ![m] = Info(o, e, a)]
    /\ pending' = [pending EXCEPT ![o] = @ + 1]

\* "Must not recursively post sync message", "Must not have forced async message
\* in queue".
MayPostSync == ~HasAsyncMessages /\ posting = NoMessage

\* postMessage() by the main thread, when the message can be posted
\* synchronously.  hasAsyncMessages() was read without the list's mutex: the
\* message is enqueued in a later step.
PostSync(o, m, e) ==
    /\ MayCall
    /\ MayPostSync
    /\ Prepare(o, m, e, FALSE)
    /\ posting' = m
    /\ stack' = Append(Called, NewFrame(TRUE, m))
    /\ syncWaits' = TRUE
    /\ UNCHANGED <<reader, list, alive, inPost>>

\* postMessage() by the main thread, when it only enqueues the message.
PostAsync(o, m, e, forceAsync) ==
    /\ MayCall
    /\ forceAsync \/ ~MayPostSync
    /\ Prepare(o, m, e, forceAsync)
    /\ list' = Append(list, m)
    /\ stack' = Called
    /\ UNCHANGED <<reader, posting, alive, inPost, syncWaits>>

\* The synchronous postMessage() enqueues its message and starts reading.
EnqueueSync ==
    /\ stack # <<>>
    /\ Top.toPost # NoMessage
    /\ list' = Append(list, Top.toPost)
    /\ SetTop([Top EXCEPT !.toPost = NoMessage])
    /\ UNCHANGED <<reader, posting, info, pending, alive, inPost, syncWaits>>

\* postMessage() by another thread: m_GenesisThread is not pthread_self().
ThreadPosts(t, o, m, e) ==
    /\ inPost[t] = NoMessage
    /\ Prepare(o, m, e, FALSE)
    /\ inPost' = [inPost EXCEPT ![t] = m]
    /\ UNCHANGED <<reader, list, posting, alive, stack, syncWaits>>

ThreadEnqueues(t) ==
    /\ inPost[t] # NoMessage
    /\ list' = Append(list, inPost[t])
    /\ inPost' = [inPost EXCEPT ![t] = NoMessage]
    /\ UNCHANGED <<reader, posting, info, pending, alive, stack, syncWaits>>
-----------------------------------------------------------------------------
(* Messages_handle(). *)

TimerFires ==
    /\ reader
    /\ stack = <<>>
    /\ stack' = <<NewFrame(FALSE, NoMessage)>>
    /\ UNCHANGED <<reader, list, posting, info, pending, alive, inPost, syncWaits>>

\* The loop of Messages_handle() is about to read: not before postMessage() has
\* enqueued the message it runs the loop for.
BetweenMessagesWrongly == stack # <<>> /\ Top.cur = NoMessage
BetweenMessages ==
    stack # <<>> /\ Top.cur = NoMessage /\ Top.toPost = NoMessage

\* The loop's condition: nread, then what readMessage(stopOnAsync) returns.
MayRead ==
    /\ Top.nread + 1 < MaxInRow
    /\ list # <<>>
    /\ ~(Top.stopOnAsync /\ info[Head(list)].async)

\* A message is read, its object counts it down and its handler starts.
HandleNext ==
    /\ BetweenMessages
    /\ MayRead
    /\ list' = Tail(list)
    /\ pending' = [pending EXCEPT ![info[Head(list)].dest] = @ - 1]
    /\ SetTop([Top EXCEPT !.cur = Head(list), !.calls = MaxCalls,
                          !.nread = @ + 1])
    /\ syncWaits' = (syncWaits /\ posting # Head(list))
    /\ UNCHANGED <<reader, posting, info, alive, inPost>>

\* The handler returns: the message is deleted, and its address compared with
\* the one being posted synchronously.
HandlerReturns ==
    /\ stack # <<>>
    /\ Top.cur # NoMessage
    /\ info' = [info EXCEPT ![Top.cur] = Free]
    /\ SetTop([Top EXCEPT !.cur = NoMessage, !.calls = 0,
                          !.stopOnAsync = @ \/ posting = Top.cur])
    /\ UNCHANGED <<reader, list, posting, pending, alive, inPost, syncWaits>>

\* The loop ends, and with it the postMessage() that ran it, if one did.
LoopEnds ==
    /\ BetweenMessages
    /\ ~MayRead
    /\ stack' = SubSeq(stack, 1, Len(stack) - 1)
    /\ posting' = IF Top.sync THEN NoMessage ELSE posting
    /\ syncWaits' = (syncWaits /\ ~Top.sync)
    /\ UNCHANGED <<reader, list, info, pending, alive, inPost>>
-----------------------------------------------------------------------------
(* Deleting messages, objects and the reader. *)

\* delMessagesForDest(): the messages of S that are in the list go.
\* Messages_lost() hands each to onMessageLost(); nothing is counted down.
Purge(S) ==
    /\ list' \in Purges(list, S)
    /\ info' = [m \in Message |-> IF m \in S /\ m \in Elements(list)
                                  THEN Free ELSE info[m]]
    /\ syncWaits' = (syncWaits /\ posting \notin S \cap Elements(list))

MessagesFor(o) == {m \in Message : info[m].dest = o}

\* delMessages(event) of o; event == -1 names every message.
DelMessages(o, e, anyEvent) ==
    /\ MayCall
    /\ reader
    /\ o \in alive
    /\ Purge({m \in MessagesFor(o) : anyEvent \/ info[m].event = e})
    /\ stack' = Called
    /\ UNCHANGED <<reader, posting, pending, alive, inPost>>

\* ~Messages(): also from a handler, of any object.  Whoever deletes an object
\* sees to it that no thread is still posting to it.
DestroyWrongly(o) ==        \* the object's messages stay
    /\ MayCall
    /\ o \in alive
    /\ \A t \in Thread : inPost[t] \notin MessagesFor(o)
    /\ alive' = alive \ {o}
    /\ stack' = Called
    /\ UNCHANGED <<reader, list, posting, info, pending, inPost, syncWaits>>
Destroy(o) ==
    /\ MayCall
    /\ o \in alive
    /\ \A t \in Thread : inPost[t] \notin MessagesFor(o)
    /\ alive' = alive \ {o}
    /\ IF reader THEN Purge(MessagesFor(o))
                 ELSE UNCHANGED <<list, info, syncWaits>>
    /\ stack' = Called
    /\ UNCHANGED <<reader, posting, pending, inPost>>

\* Messages(), at an address that may have been used before.
Create(o) ==
    /\ MayCall
    /\ o \notin alive
    /\ alive' = alive \cup {o}
    /\ pending' = [pending EXCEPT ![o] = 0]
    /\ stack' = Called
    /\ UNCHANGED <<reader, list, posting, info, inPost, syncWaits>>

\* DestroyReader(), from ~Context(): ~SharedMessages() deletes every message.
DestroyReader ==
    /\ reader
    /\ stack = <<>>
    /\ \A t \in Thread : inPost[t] = NoMessage
    /\ Purge(Message)
    /\ reader' = FALSE
    /\ UNCHANGED <<posting, pending, alive, stack, inPost>>
-----------------------------------------------------------------------------
MainContinues ==
    EnqueueSync \/ HandleNext \/ HandlerReturns \/ LoopEnds

Next ==
    \/ \E o \in Object, m \in Message, e \in Event : PostSync(o, m, e)
    \/ \E o \in Object, m \in Message, e \in Event, f \in BOOLEAN :
          PostAsync(o, m, e, f)
    \/ \E t \in Thread, o \in Object, m \in Message, e \in Event :
          ThreadPosts(t, o, m, e)
    \/ \E t \in Thread : ThreadEnqueues(t)
    \/ TimerFires
    \/ MainContinues
    \/ \E o \in Object, e \in Event, any \in BOOLEAN : DelMessages(o, e, any)
    \/ \E o \in Object : Destroy(o)
    \/ \E o \in Object : Create(o)
    \/ DestroyReader

\* Handlers return, threads are scheduled, and the event loop runs its timers
\* whatever else it does.
Fairness ==
    /\ WF_vars(MainContinues)
    /\ SF_vars(TimerFires)
    /\ \A t \in Thread : WF_vars(ThreadEnqueues(t))

Spec == Init /\ [][Next]_vars
FairSpec == Spec /\ Fairness
-----------------------------------------------------------------------------
TypeOK ==
    /\ reader \in BOOLEAN
    /\ list \in Seq(Message)
    /\ posting \in Message \cup {NoMessage}
    /\ info \in [Message -> {Free} \cup Posted]
    /\ pending \in [Object -> 0..MaxPending]
    /\ alive \subseteq Object
    /\ stack \in Seq(Frame)
    /\ inPost \in [Thread -> Message \cup {NoMessage}]
    /\ syncWaits \in BOOLEAN

\* "Must not recursively post sync message": however handlers post from within
\* handlers, at most two Messages_handle() are on the C++ stack, the inner one
\* run by the postMessage() that g_PostingSyncMsg belongs to.
OneSyncPostAtATime ==
    /\ Len(stack) <= 2
    /\ \A i \in 1..Len(stack) : stack[i].sync <=> (i = Len(stack) /\ posting # NoMessage)
    /\ posting # NoMessage => stack # <<>>

Handled == {stack[i].cur : i \in 1..Len(stack)} \cap Message
BeingPosted == ({stack[i].toPost : i \in 1..Len(stack)}
                \cup {inPost[t] : t \in Thread}) \cap Message

\* A message has one owner: it is about to be posted, in the list once, or with
\* the one Messages_handle() that will delete it - also when its handler
\* posts, deletes messages, or deletes the object it runs for.
OneOwner ==
    /\ NoDuplicates(list)
    /\ \A i, j \in 1..Len(stack) :
          i # j => stack[i].cur # stack[j].cur \/ stack[i].cur = NoMessage
    /\ Elements(list) \cap Handled = {}
    /\ BeingPosted \cap (Elements(list) \cup Handled) = {}
    /\ \A m \in Message : info[m] # Free <=>
          m \in Elements(list) \cup Handled \cup BeingPosted

\* Messages_handle() and Messages_lost() call the object a message is for
\* without asking whether it still exists: it always does, even after its
\* address has been given to a new object.
QueuedForTheLiving ==
    \A m \in Elements(list) \cup BeingPosted : info[m].dest \in alive

\* Every message has exactly one who will see to it: an object that exists, and
\* a place from which it is handed over or deleted once.
OwnedAndForTheLiving == OneSyncPostAtATime /\ OneOwner /\ QueuedForTheLiving

\* hasPendingMessages() never denies a message that is still to come, which is
\* what hasTaskOrMessagePending() is trusted for.  (It may go on announcing
\* messages that delMessages() deleted.)
PendingCoversQueued ==
    \A o \in alive :
        Cardinality({m \in MessagesFor(o) : m \notin Handled}) <= pending[o]

SyncReturns == Len(stack') < Len(stack) /\ Top.sync

\* A synchronous postMessage() returns with its message handed over (or
\* deleted), unless its loop ran into MAX_MSG_IN_ROW first: messages forced to
\* be asynchronous by anyone, before or after it, never hold it back.
SyncPostDelivers ==
    [][SyncReturns /\ Top.nread + 1 < MaxInRow => ~syncWaits]_vars

\* Every message that is posted is handed over, or deleted.
EveryMessageEnds ==
    \A m \in Message : info[m] # Free ~> info[m] = Free
=============================================================================
