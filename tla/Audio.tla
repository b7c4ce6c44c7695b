------------------------------- MODULE Audio -------------------------------
(***************************************************************************)
(* The threads of AV::Audio: the main thread, the queue thread (which runs *)
(* the graph of nodes), the decode thread (which runs the sources), and    *)
(* PortAudio's callback, one step of its own.                              *)
(*                                                                         *)
(* They share two recursive mutexes, m_RecurseLock (the "queue") and       *)
(* m_SourcesLock, a list of messages to the queue thread, and four         *)
(* conditions that are used without their mutexes: a signal that comes     *)
(* between the check of NIDIUM_PTHREAD_WAIT and its sleep wakes nobody.    *)
(* A source reads through a Stream that only the main thread may use: the  *)
(* decode thread asks it with a message and waits for the answer, holding  *)
(* m_SourcesLock all the while.                                            *)
(*                                                                         *)
(* The target exists, and every source in the list is connected and plays; *)
(* a stream has no end.  Frames are counted, not computed.                 *)
(***************************************************************************)
EXTENDS Integers, Sequences, Conditions

CONSTANTS
    Source,     \* the AudioSources
    NoSource,
    Ops,        \* what the main thread does
    Ring,       \* the frames that the output ring buffer holds
    MaxDecoded  \* the frames that a source's ring buffer holds

ASSUME AudioAssumption ==
    /\ NoSource \notin Source
    /\ Ops \subseteq {"connect", "add", "open", "set", "call", "play", "close",
                      "release", "shutdown"}
    /\ Ring \in Nat \ {0} /\ MaxDecoded \in Nat \ {0}

VARIABLES
    freeLock,       \* m_QueueFreeLock
    flush,          \* m_SharedMsgFlush
    down,           \* m_ThreadShutdown
    needWork,       \* m_SourceNeedWork
    queueLock,      \* the holder of m_RecurseLock
    sourcesLock,    \* the holder of m_SourcesLock
    inbox,          \* the nodes that have messages in m_SharedMsg
    space,          \* the frames that fit in the output ring buffer
    decoded,        \* per source: the frames in its ring buffer
    life,           \* per source: "new", "listed", "unlisted", "deleted"
    reader,         \* per source: "none", "fresh" or "opened" (m_Opened of it)
    pending,        \* per source: m_Pending, its coroutine waits for the stream
    needWakeup,     \* per source: m_NeedWakup
    packet,         \* per source: its stream has a packet
    haveData,       \* per source: m_HaveDataAvailable
    request,        \* per source: kStream_Read is in the main thread's list
    answer,         \* per source: m_MessagePosted
    err,            \* per source: m_StreamErr and m_StreamBuffer, for _read()
    qpc,            \* where the queue thread is, and its three locals
    msgFlush,
    wrote,
    needSpace,
    dpc,            \* where the decode thread is, the sources it has still to
    todo,           \* look at, and the one whose read is in progress
    cur,
    steps,          \* the main thread: what is left of its operation, and the
    node            \* source that this is about

flags == <<freeLock, flush, down, needWork>>
locks == <<queueLock, sourcesLock>>
readerVars == <<reader, pending, needWakeup, packet, haveData, request, answer,
                err>>
coroutine == <<pending, needWakeup>>
queueVars == <<qpc, msgFlush, wrote, needSpace>>
decodeVars == <<dpc, todo, cur>>
mainVars == <<steps, node>>
vars == <<condVars, flags, locks, inbox, space, decoded, life, readerVars,
          queueVars, decodeVars, mainVars>>

Cond == {"HaveData", "HaveSpace", "NeedData", "MessagesFlushed"}
Listed == {s \in Source : life[s] = "listed"}
Idle == steps = <<>>
At(p) == ~Idle /\ Head(steps) = p

\* needSpace is read uninitialised when the first trylock fails.
Init ==
    /\ cond = [c \in Cond |-> FALSE] /\ wait = [c \in Cond |-> "no"]
    /\ freeLock = FALSE /\ flush = FALSE /\ down = FALSE /\ needWork = FALSE
    /\ queueLock = "free" /\ sourcesLock = "free"
    /\ inbox = {} /\ space = Ring
    /\ decoded = [s \in Source |-> 0]
    /\ life = [s \in Source |-> "new"]
    /\ reader = [s \in Source |-> "none"]
    /\ pending = [s \in Source |-> FALSE]
    /\ needWakeup = [s \in Source |-> FALSE]
    /\ packet = [s \in Source |-> FALSE]
    /\ haveData = [s \in Source |-> FALSE]
    /\ request = [s \in Source |-> FALSE]
    /\ answer = [s \in Source |-> FALSE]
    /\ err = [s \in Source |-> "none"]
    /\ qpc = "read" /\ msgFlush = FALSE /\ wrote = FALSE
    /\ needSpace \in BOOLEAN
    /\ dpc = "lock" /\ todo = {} /\ cur = NoSource
    /\ steps = <<>> /\ node = NoSource
-----------------------------------------------------------------------------
(* Definitions named ...Wrongly are slips that code like this invites.  No   *)
(* behaviour of the program uses them: each is there to be put in the place *)
(* of the definition it precedes, and to be found out by a property.        *)

Condition(c) ==
    /\ Check(c) \/ Sleep(c)
    /\ UNCHANGED <<flags, locks, inbox, space, decoded, life, readerVars,
                   queueVars, decodeVars, mainVars>>
-----------------------------------------------------------------------------
(* Audio::queueThread(). *)

\* readMessages(), which stops before the 1024th message unless it flushes.
ReadMessages ==
    /\ qpc = "read"
    /\ inbox' = {}
    /\ qpc' = "answer"
    /\ UNCHANGED <<flush, queueLock, space, decoded, msgFlush, wrote,
                   needSpace>>
    /\ NoSignal

\* The flush that the iteration began with is answered.
QueueAnswerWrongly ==       \* also one that was asked for since
    /\ qpc = "answer"
    /\ IF flush THEN flush' = FALSE /\ Signal({"MessagesFlushed"})
       ELSE UNCHANGED flush /\ NoSignal
    /\ qpc' = "try"
    /\ UNCHANGED <<inbox, queueLock, space, decoded, msgFlush, wrote,
                   needSpace>>
QueueAnswer ==
    /\ qpc = "answer"
    /\ IF msgFlush /\ flush THEN flush' = FALSE /\ Signal({"MessagesFlushed"})
       ELSE UNCHANGED flush /\ NoSignal
    /\ qpc' = "try"
    /\ UNCHANGED <<inbox, queueLock, space, decoded, msgFlush, wrote,
                   needSpace>>

\* pthread_mutex_trylock().  needSpace keeps its value when it fails.
QueueTry ==
    /\ qpc = "try"
    /\ IF queueLock # "free" \/ msgFlush
       THEN qpc' = "check" /\ UNCHANGED <<queueLock, needSpace>>
       ELSE IF down THEN qpc' = "exit" /\ UNCHANGED <<queueLock, needSpace>>
       ELSE qpc' = "run" /\ queueLock' = "queue" /\ needSpace' = FALSE
    /\ msgFlush' = FALSE
    /\ UNCHANGED <<inbox, flush, space, decoded, wrote>>
    /\ NoSignal

\* One turn of the inner loop.  The output is processed when a source has a
\* frame for it, and is copied to the output ring buffer.  After the last turn
\* the lock is given back.
Ready == {s \in Listed : decoded[s] > 0}
QueueRun ==
    /\ qpc = "run"
    /\ IF space > 0 /\ ~freeLock /\ Ready # {}
       THEN /\ space' = space - 1
            /\ decoded' = [s \in Source |-> IF s \in Ready THEN decoded[s] - 1
                                            ELSE decoded[s]]
            /\ wrote' = TRUE
            /\ UNCHANGED <<qpc, needSpace, queueLock>> /\ NoSignal
       ELSE /\ needSpace' = (space = 0)
            /\ IF wrote THEN Signal({"NeedData"}) ELSE NoSignal
            /\ queueLock' = "free"
            /\ wrote' = FALSE
            /\ qpc' = "check"
            /\ UNCHANGED <<space, decoded>>
    /\ UNCHANGED <<inbox, flush, msgFlush>>

QueueCond == IF needSpace THEN "HaveSpace" ELSE "HaveData"
QueueCheck ==
    /\ qpc = "check"
    /\ IF down THEN qpc' = "exit" /\ NoSignal
       ELSE qpc' = "wait" /\ WaitFor(QueueCond)
    /\ UNCHANGED <<inbox, flush, queueLock, space, decoded, msgFlush, wrote,
                   needSpace>>

\* The thread goes on, with m_SharedMsgFlush as it is then.
QueueWaited ==
    /\ qpc = "wait" /\ Waited(QueueCond)
    /\ qpc' = IF down THEN "exit" ELSE "read"
    /\ msgFlush' = flush
    /\ UNCHANGED <<inbox, flush, queueLock, space, decoded, wrote, needSpace>>
    /\ NoSignal

\* The last readMessages().
QueueExit ==
    /\ qpc = "exit"
    /\ inbox' = {}
    /\ qpc' = "exited"
    /\ UNCHANGED <<flush, queueLock, space, decoded, msgFlush, wrote,
                   needSpace>>
    /\ NoSignal

QueueThread ==
    /\ \/ ReadMessages \/ QueueAnswer \/ QueueTry \/ QueueRun \/ QueueCheck
       \/ QueueWaited \/ QueueExit
    /\ UNCHANGED <<freeLock, down, needWork, sourcesLock, life, readerVars,
                   decodeVars, mainVars>>
-----------------------------------------------------------------------------
(* Audio::decodeThread(), AudioSource::work() and AVStreamReader::_read(). *)

DecodeLock ==
    /\ dpc = "lock" /\ sourcesLock = "free"
    /\ sourcesLock' = "decode"
    /\ todo' = Listed
    /\ dpc' = "work"
    /\ UNCHANGED <<needWork, decoded, pending, needWakeup, request, answer, cur>>
    /\ NoSignal

\* work() of one source returns false at once: it has no open reader, it waits
\* for its stream, its ring buffer is full, or its reader is finished.
Skip(s) ==
    /\ dpc = "work" /\ s \in todo
    /\ \/ reader[s] # "opened"
       \/ pending[s] /\ ~needWakeup[s]
       \/ ~pending[s] /\ (decoded[s] = MaxDecoded \/ err[s] = "exit")
    /\ todo' = todo \ {s}
    /\ UNCHANGED <<needWork, decoded, coroutine, request, answer, sourcesLock,
                   dpc, cur>>
    /\ NoSignal

\* Or it reads, in a new coroutine or in the one that waited for the stream;
\* the latter does not look whether the reader is finished.
Work(s) ==
    /\ dpc = "work" /\ s \in todo
    /\ reader[s] = "opened"
    /\ IF pending[s] THEN needWakeup[s]
       ELSE decoded[s] < MaxDecoded /\ err[s] # "exit"
    /\ pending' = [pending EXCEPT ![s] = FALSE]
    /\ needWakeup' = [needWakeup EXCEPT ![s] = FALSE]
    /\ cur' = s
    /\ dpc' = "post"
    /\ UNCHANGED <<needWork, decoded, request, answer, sourcesLock, todo>>
    /\ NoSignal

\* streamMessage(): the question, ...
PostRead ==
    /\ dpc = "post"
    /\ request' = [request EXCEPT ![cur] = TRUE]
    /\ dpc' = "await"
    /\ UNCHANGED <<needWork, decoded, coroutine, answer, sourcesLock, todo, cur>>
    /\ NoSignal

\* ... and its answer, with what _read() does then: it asks again when a packet
\* came meanwhile or when more is wanted, and gives up its turn when there is
\* nothing to read.
ReadAnswered ==
    /\ dpc = "await" /\ answer[cur]
    /\ answer' = [answer EXCEPT ![cur] = FALSE]
    /\ \/ /\ err[cur] = "again" /\ haveData[cur]
          /\ dpc' = "post"
          /\ UNCHANGED <<pending, decoded, todo, cur>>
       \/ /\ err[cur] = "again" /\ ~haveData[cur]
          /\ pending' = [pending EXCEPT ![cur] = TRUE]
          /\ dpc' = "work" /\ todo' = todo \ {cur} /\ cur' = NoSource
          /\ UNCHANGED decoded
       \/ /\ err[cur] = "data"
          /\ \/ /\ dpc' = "post" /\ UNCHANGED <<decoded, cur>>
             \/ /\ decoded' = [decoded EXCEPT ![cur] = @ + 1]
                /\ dpc' = "work" /\ cur' = NoSource
          /\ UNCHANGED <<pending, todo>>
       \/ /\ err[cur] = "exit"
          /\ dpc' = "work" /\ todo' = todo \ {cur} /\ cur' = NoSource
          /\ UNCHANGED <<pending, decoded>>
    /\ UNCHANGED <<needWork, needWakeup, request, sourcesLock>>
    /\ NoSignal

\* All sources have been looked at.  m_SourcesCount is never counted down.
DecodeUnlock ==
    /\ dpc = "work" /\ todo = {}
    /\ sourcesLock' = "free"
    /\ IF (\E s \in Source : life[s] # "new") /\ space > 0
       THEN Signal({"HaveData"}) ELSE NoSignal
    /\ dpc' = IF down THEN "exited" ELSE "decide"
    /\ UNCHANGED <<needWork, decoded, coroutine, request, answer, todo, cur>>

DecodeDecide ==
    /\ dpc = "decide"
    /\ dpc' = "wait"
    /\ IF needWork THEN NoSignal ELSE WaitFor("NeedData")
    /\ UNCHANGED <<needWork, decoded, coroutine, request, answer, sourcesLock,
                   todo, cur>>

DecodeWaited ==
    /\ dpc = "wait" /\ Waited("NeedData")
    /\ needWork' = FALSE
    /\ dpc' = IF down THEN "exited" ELSE "lock"
    /\ UNCHANGED <<decoded, coroutine, request, answer, sourcesLock, todo, cur>>
    /\ NoSignal

DecodeOthers ==
    UNCHANGED <<freeLock, flush, down, queueLock, inbox, space, life, reader,
                packet, haveData, err, queueVars, mainVars>>
DecodeThread ==
    /\ \/ DecodeLock \/ (\E s \in Source : Skip(s) \/ Work(s)) \/ PostRead
       \/ ReadAnswered \/ DecodeUnlock \/ DecodeDecide \/ DecodeWaited
    /\ DecodeOthers

\* paOutputCallbackMethod(): what PortAudio asks for is read, less than a frame
\* or several.
PlayBack ==
    /\ space' \in space..Ring
    /\ Signal({"HaveSpace"})
    /\ UNCHANGED <<flags, locks, inbox, decoded, life, readerVars, queueVars,
                   decodeVars, mainVars>>
-----------------------------------------------------------------------------
(* The main thread.  An operation is the sequence of its steps. *)

\* AudioSource::closeInternal(): finish() comes before the locks.
CloseInternal ==
    <<"finish", "askQueue", "takeQueue", "takeSources", "close", "give">>
\* JSAudioNode::releaseNode(), with ~AudioSource() and ~AudioNode().
ReleaseNode ==
    <<"askQueue", "takeQueue", "takeSources",
      "flush", "wake", "awaitFlush", "flushed",
      "unlist", "finish", "close", "delete", "give">>
\* ~JSAudioContext(): the next node is deleted, whose releaseNode() has the
\* locks, until there is none; then the threads are told to end.
Shutdown == <<"takeSources", "askQueue", "takeQueue", "next">>
DeleteNext ==
    <<"flush", "wake", "awaitFlush", "flushed",
      "unlist", "finish", "close", "delete", "next">>
EndThreads ==
    <<"flush", "wake", "awaitFlush", "flushed",
      "giveSources", "down", "joinQueue", "joinDecode", "give">>

\* What the program may ask of node s, and what it comes to: lockQueue() asks
\* for the lock and takes it, wakeup() wakes and, without "block", asks no more.
Program(op, s) ==
    CASE op = "connect" -> <<"askQueue", "takeQueue", "give">>
      [] op = "add" -> <<"takeSources", "askQueue", "takeQueue", "list", "give">>
      [] op = "open" /\ reader[s] = "none" -> <<"open">>
      [] op = "open" /\ reader[s] # "none" -> Append(CloseInternal, "open")
      [] op = "set" -> <<"post">>
      [] op = "call" -> <<"post", "wake", "unask">>
      [] op = "play" -> <<"play">>
      [] op = "close" -> CloseInternal
      [] op = "release" -> ReleaseNode
      [] op = "shutdown" -> Shutdown
Allowed(op, s) ==
    CASE op = "add" -> life[s] = "new"
      [] op = "shutdown" -> TRUE
      [] OTHER -> life[s] = "listed"

Call ==
    /\ Idle /\ ~down
    /\ \E op \in Ops, s \in Source :
        /\ Allowed(op, s)
        /\ steps' = Program(op, s)
        /\ node' = s
    /\ UNCHANGED <<condVars, flags, locks, inbox, decoded, life, readerVars>>

Step ==
    /\ steps' = Tail(steps)
    /\ node' = IF Len(steps) = 1 THEN NoSource ELSE node

\* The steps that change flags, locks and messages only.
MainStep ==
    /\ \/ /\ At("askQueue")
          /\ freeLock' = TRUE
          /\ UNCHANGED <<flush, down, locks, inbox>> /\ NoSignal
       \/ /\ At("takeQueue") /\ queueLock = "free"
          /\ queueLock' = "main" /\ freeLock' = FALSE
          /\ UNCHANGED <<flush, down, sourcesLock, inbox>> /\ NoSignal
       \/ /\ At("give")
          /\ queueLock' = "free"
          /\ sourcesLock' = IF sourcesLock = "main" THEN "free" ELSE sourcesLock
          /\ UNCHANGED <<freeLock, flush, down, inbox>> /\ NoSignal
       \/ /\ At("takeSources") /\ sourcesLock = "free"
          /\ sourcesLock' = "main"
          /\ UNCHANGED <<freeLock, flush, down, queueLock, inbox>> /\ NoSignal
       \/ /\ At("giveSources")
          /\ sourcesLock' = "free"
          /\ UNCHANGED <<freeLock, flush, down, queueLock, inbox>> /\ NoSignal
       \/ /\ At("post")
          /\ inbox' = inbox \cup {node}
          /\ UNCHANGED <<freeLock, flush, down, locks>> /\ NoSignal
       \/ /\ At("flush")
          /\ flush' = TRUE
          /\ UNCHANGED <<freeLock, down, locks, inbox>> /\ NoSignal
       \/ /\ At("wake")
          /\ freeLock' = TRUE
          /\ Signal({"HaveData", "HaveSpace"})
          /\ UNCHANGED <<flush, down, locks, inbox>>
       \/ /\ At("awaitFlush")
          /\ WaitFor("MessagesFlushed")
          /\ UNCHANGED <<freeLock, flush, down, locks, inbox>>
       \/ /\ At("unask") \/ (At("flushed") /\ Waited("MessagesFlushed"))
          /\ freeLock' = FALSE
          /\ UNCHANGED <<flush, down, locks, inbox>> /\ NoSignal
       \/ /\ At("play")
          /\ Signal({"NeedData"})
          /\ UNCHANGED <<freeLock, flush, down, locks, inbox>>
       \/ /\ At("down")
          /\ down' = TRUE
          /\ Signal({"HaveData", "HaveSpace", "NeedData"})
          /\ UNCHANGED <<freeLock, flush, locks, inbox>>
       \/ /\ \/ At("joinQueue") /\ qpc = "exited"
             \/ At("joinDecode") /\ dpc = "exited"
          /\ UNCHANGED <<freeLock, flush, down, locks, inbox>> /\ NoSignal
    /\ Step
    /\ UNCHANGED <<needWork, decoded, life, readerVars>>

\* The steps that change the node.
Becomes(l) ==
    /\ life' = [life EXCEPT ![node] = l]
    /\ UNCHANGED <<decoded, readerVars>>

\* AVStreamReader::finish(): whoever waits for an answer is told to exit.
FinishReaderWrongly ==      \* wakes nobody
    /\ err' = [err EXCEPT ![node] = "exit"]
    /\ request' = [request EXCEPT ![node] = FALSE]
    /\ UNCHANGED <<decoded, life, reader, coroutine, packet, haveData, answer>>
FinishReader ==
    /\ err' = [err EXCEPT ![node] = "exit"]
    /\ request' = [request EXCEPT ![node] = FALSE]
    /\ answer' = [answer EXCEPT ![node] = TRUE]
    /\ UNCHANGED <<decoded, life, reader, coroutine, packet, haveData>>

\* The reader, its stream and its messages, the coroutine and the ring buffer.
NewReader(r) ==
    /\ reader' = [reader EXCEPT ![node] = r]
    /\ pending' = [pending EXCEPT ![node] = FALSE]
    /\ needWakeup' = [needWakeup EXCEPT ![node] = FALSE]
    /\ packet' = [packet EXCEPT ![node] = FALSE]
    /\ haveData' = [haveData EXCEPT ![node] = FALSE]
    /\ request' = [request EXCEPT ![node] = FALSE]
    /\ answer' = [answer EXCEPT ![node] = FALSE]
    /\ err' = [err EXCEPT ![node] = "none"]
    /\ decoded' = [decoded EXCEPT ![node] = 0]
    /\ UNCHANGED life

NodeStep ==
    /\ \/ At("list") /\ Becomes("listed")
       \/ At("unlist") /\ Becomes("unlisted")
       \/ At("delete") /\ Becomes("deleted")
       \/ At("finish") /\ reader[node] # "none" /\ FinishReader
       \/ At("finish") /\ reader[node] = "none"
          /\ UNCHANGED <<decoded, life, readerVars>>
       \/ At("close") /\ NewReader("none")
       \/ At("open") /\ NewReader("fresh")
    /\ Step
    /\ UNCHANGED <<condVars, flags, locks, inbox>>

\* The turns of ~JSAudioContext()'s loop.
NextNode ==
    /\ At("next")
    /\ IF Listed = {} THEN steps' = EndThreads /\ UNCHANGED node
       ELSE /\ steps' = DeleteNext
            /\ node' \in Listed
    /\ UNCHANGED <<condVars, flags, locks, inbox, decoded, life, readerVars>>

\* onMessage(kStream_Read), from the event loop.
AnswerRead(s) ==
    /\ Idle /\ request[s]
    /\ request' = [request EXCEPT ![s] = FALSE]
    /\ err' = [err EXCEPT ![s] = IF packet[s] THEN "data" ELSE "again"]
    /\ packet' = [packet EXCEPT ![s] = FALSE]
    /\ haveData' = [haveData EXCEPT ![s] = FALSE]
    /\ answer' = [answer EXCEPT ![s] = TRUE]
    /\ UNCHANGED <<condVars, flags, locks, inbox, decoded, life, reader,
                   coroutine, mainVars>>

\* A packet arrives: onAvailableData() wakes the coroutine that waits for it
\* with sourceNeedWork(), or has the source opened.
OnAvailableDataWrongly(s) ==    \* does not look at m_Pending
    /\ Idle /\ reader[s] # "none" /\ ~packet[s]
    /\ packet' = [packet EXCEPT ![s] = TRUE]
    /\ haveData' = [haveData EXCEPT ![s] = TRUE]
    /\ IF reader[s] = "fresh"
       THEN /\ reader' = [reader EXCEPT ![s] = "opened"]
            /\ Signal({"NeedData"})
            /\ UNCHANGED <<needWork, needWakeup>>
       ELSE UNCHANGED <<needWork, needWakeup, reader>> /\ NoSignal
    /\ UNCHANGED <<freeLock, flush, down, locks, inbox, decoded, life, pending,
                   request, answer, err, mainVars>>
OnAvailableData(s) ==
    /\ Idle /\ reader[s] # "none" /\ ~packet[s]
    /\ packet' = [packet EXCEPT ![s] = TRUE]
    /\ haveData' = [haveData EXCEPT ![s] = TRUE]
    /\ IF pending[s]
       THEN /\ needWakeup' = [needWakeup EXCEPT ![s] = TRUE]
            /\ needWork' = TRUE
            /\ Signal({"NeedData"})
            /\ UNCHANGED reader
       ELSE IF reader[s] = "fresh"
       THEN /\ reader' = [reader EXCEPT ![s] = "opened"]
            /\ Signal({"NeedData"})
            /\ UNCHANGED <<needWork, needWakeup>>
       ELSE UNCHANGED <<needWork, needWakeup, reader>> /\ NoSignal
    /\ UNCHANGED <<freeLock, flush, down, locks, inbox, decoded, life, pending,
                   request, answer, err, mainVars>>

MainOthers == UNCHANGED <<space, queueVars, decodeVars>>
MainThread ==
    /\ \/ Call \/ MainStep \/ NodeStep \/ NextNode
       \/ (\E s \in Source : AnswerRead(s) \/ OnAvailableData(s))
    /\ MainOthers

Next ==
    \/ QueueThread \/ DecodeThread \/ PlayBack \/ MainThread
    \/ \E c \in Cond : Condition(c)

Spec == Init /\ [][Next]_vars
-----------------------------------------------------------------------------
TypeOK ==
    /\ cond \in [Cond -> BOOLEAN]
    /\ wait \in [Cond -> {"no", "check", "unset", "asleep"}]
    /\ freeLock \in BOOLEAN /\ flush \in BOOLEAN /\ down \in BOOLEAN
    /\ needWork \in BOOLEAN
    /\ queueLock \in {"free", "main", "queue"}
    /\ sourcesLock \in {"free", "main", "decode"}
    /\ inbox \subseteq Source /\ space \in 0..Ring
    /\ decoded \in [Source -> 0..MaxDecoded]
    /\ life \in [Source -> {"new", "listed", "unlisted", "deleted"}]
    /\ reader \in [Source -> {"none", "fresh", "opened"}]
    /\ {pending, needWakeup, packet, haveData, request, answer}
          \subseteq [Source -> BOOLEAN]
    /\ err \in [Source -> {"none", "data", "again", "exit"}]
    /\ qpc \in {"read", "answer", "try", "run", "check", "wait", "exit",
                "exited"}
    /\ msgFlush \in BOOLEAN /\ wrote \in BOOLEAN /\ needSpace \in BOOLEAN
    /\ dpc \in {"lock", "work", "post", "await", "decide", "wait", "exited"}
    /\ todo \subseteq Source /\ cur \in Source \cup {NoSource}
    /\ node \in Source \cup {NoSource}

\* "This will flush all pending messages.  That way, we are sure nothing will
\* need to be processed later for this node": no message is left for a node
\* when releaseNode() deletes it, whatever the queue thread was doing when it
\* was asked to flush.
FlushedBeforeDelete == \A s \in inbox : life[s] # "deleted"

\* The two threads keep their hands off what the main thread is taking apart:
\* the queue thread does not run the graph while a node is put in or taken
\* out, and the reader in the decode thread's hands is not deleted.
HandsOff ==
    /\ qpc = "run" => ~\E p \in {"list", "unlist", "close", "delete"} : At(p)
    /\ cur # NoSource => life[cur] = "listed" /\ reader[cur] = "opened"

\* A node leaves undisturbed: nobody works with it, and nobody will.
DeletedInPeace == HandsOff /\ FlushedBeforeDelete

\* Nobody waits in vain.  The decode thread waits for an answer only while
\* somebody owes it: the answer is there, or its question is with the main
\* thread, and then the main thread does not wait for the decode thread's end,
\* nor for its lock in order to close the very source that asks: finish(), which
\* takes the question back, has answered it.  EXCEPTED is a main thread that
\* waits for m_SourcesLock for anything else, to release that source, to shut
\* down, or about another one: those two wait for ever, which is the deadlock
\* that CloseGetsTheLocks shows for a close.
\* And a coroutine that waits for its stream has been woken when there is a
\* packet: one that came while "nothing to read" was on its way is not overlooked.
WaitsToClose ==
    steps \in {<<"takeSources", "close", "give">>,
               <<"takeSources", "close", "give", "open">>}
ClosesTheAsker == WaitsToClose /\ node = cur
NoLostAnswer ==
    dpc = "await" /\ ~answer[cur] =>
        request[cur] /\ ~At("joinDecode") /\ ~ClosesTheAsker
NoLostData == \A s \in Source : pending[s] /\ packet[s] => needWakeup[s]
NobodyWaitsInVain == NoLostAnswer /\ NoLostData

\* closeInternal(): "Finish the reader first, any pending call will be finished
\* (seek, read) so we can lock the thread": when the main thread waits for
\* m_SourcesLock to close a source, who has it does not wait for the main thread.
CloseGetsTheLocks ==
    WaitsToClose /\ sourcesLock = "decode" /\ dpc = "await" => answer[cur]
=============================================================================
