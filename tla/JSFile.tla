------------------------------- MODULE JSFile -------------------------------
(***************************************************************************)
(* Binding::JSFile: the File object of JavaScript programs, and who keeps  *)
(* it alive.                                                               *)
(*                                                                         *)
(* The garbage collector deletes a JSFile, and its File with it, once the  *)
(* program has no reference to it and it is not rooted.  Every operation   *)
(* roots it; it is unrooted after a callback when hasTaskOrMessagePending()*)
(* says that nothing is under way any more.                                *)
(***************************************************************************)
EXTENDS File

CONSTANTS
    Calls,      \* the operations with a callback that the program uses
    MaxWork     \* bound: the tasks and messages under way when it calls one

ASSUME CallsAssumption ==
    Calls \subseteq Opens \cup {"read", "write", "seek"} /\ MaxWork \in Nat

VARIABLES
    rooted,     \* ClassMapper::m_Rooted
    reachable,  \* the program has a reference to the object
    callback,   \* the operation each callback was passed to, "free" if none
    main,       \* where the main thread is, and the callback it is calling
    phase       \* of ~Context(): "running", "jsDestroyed", "readerGone"

jsVars == <<rooted, reachable, callback, main, phase>>
vars == <<fileVars, jsVars>>

MainAt(p, r) == [pc |-> p, ref |-> r]
Idle == MainAt("idle", NoRef)

Init ==
    /\ FileInit
    /\ rooted = FALSE /\ reachable = TRUE
    /\ callback = [r \in Ref |-> "free"]
    /\ main = Idle
    /\ phase = "running"

\* JavaScript code that can name the object runs: the event loop called it, or
\* it is one of the object's own callbacks (which has it as "this").
JSRuns ==
    /\ phase = "running" /\ life = "alive"
    /\ main.pc = "callback" \/ (main.pc = "idle" /\ reachable)

UnderWay == Len(tasks) + Len(inbox) + (IF task = NoTask THEN 0 ELSE 1)

Root(r, op) ==
    /\ callback[r] = "free"
    /\ callback' = [callback EXCEPT ![r] = op]

\* JS_open(), JS_read(), JS_write(), JS_seek(): the callback is rooted until
\* it has been called, the task is added, the object is rooted.
JSCall(op, r) ==
    /\ JSRuns
    /\ UnderWay < MaxWork
    /\ Root(r, op)
    /\ AddTasks(<<NewTask(op, r)>>)
    /\ rooted' = TRUE
    /\ UNCHANGED <<fd, openSync, messageVars, mutex, life, reader,
                   straggler, reachable, main, phase>>

\* JS_listFiles(): what is not open is opened first, without a callback.
\* isOpen() is asked without the mutex.
JS_listFiles(r) ==
    /\ JSRuns
    /\ UnderWay < MaxWork
    /\ Root(r, "list")
    /\ AddTasks((IF fd = "none" THEN <<NewTask("open_r", NoRef)>> ELSE <<>>)
                \o <<NewTask("list", r)>>)
    /\ rooted' = TRUE
    /\ UNCHANGED <<fd, openSync, messageVars, mutex, life, reader,
                   straggler, reachable, main, phase>>

\* JS_close() takes no callback.
JS_close ==
    /\ JSRuns
    /\ UnderWay < MaxWork
    /\ AddTasks(<<NewTask("close", NoRef)>>)
    /\ rooted' = TRUE
    /\ UNCHANGED <<fd, openSync, messageVars, mutex, life, reader,
                   straggler, reachable, callback, main, phase>>

\* File::openSync(), from JS_openSync() or JS_readSync().  m_OpenSync is set
\* when it opens something, and never reset.
JS_openSync ==
    /\ JSRuns
    /\ mutex = "free"
    /\ fd = "none"
    /\ fd' \in {"file", "dir"}
    /\ openSync' = TRUE
    /\ UNCHANGED <<workerVars, messageVars, mutex, life, reader,
                   straggler, jsVars>>

\* File::closeSync()
JS_closeSync ==
    /\ JSRuns
    /\ mutex = "free"
    /\ fd # "none"
    /\ fd' = "none"
    /\ UNCHANGED <<openSync, workerVars, messageVars, mutex, life, reader,
                   straggler, jsVars>>

\* The program drops its reference; a callback can keep a new one.
KeepReference(b) ==
    /\ phase = "running" /\ ~Deleting
    /\ main.pc = "callback" \/ (main.pc = "idle" /\ ~b)
    /\ reachable # b
    /\ reachable' = b
    /\ UNCHANGED <<fileVars, rooted, callback, main, phase>>

\* Messages_handle() -> File::onMessage() -> JSFile::onMessage(): a message
\* without a callback is done with at "if (!ref)".
OnMessage ==
    /\ main.pc = "idle" /\ phase = "running"
    /\ NextMessage
    /\ main' = IF Head(inbox).ref = NoRef THEN Idle
               ELSE MainAt("callback", Head(inbox).ref)
    /\ UNCHANGED <<fd, openSync, workerVars, mutex, life, reader,
                   straggler, rooted, reachable, callback, phase>>

CallbackReturns ==
    /\ main.pc = "callback"
    /\ main' = [main EXCEPT !.pc = "checkTasks"]
    /\ UNCHANGED <<fileVars, rooted, reachable, callback, phase>>

\* The end of JSFile::onMessage(): UnrootObject(ref).
MessageDone ==
    /\ callback' = [callback EXCEPT ![main.ref] = "free"]
    /\ main' = Idle

\* hasTaskOrMessagePending() reads m_TaskQueued first, and only when that is
\* zero _m_CountMessagePending; the worker changes them in the other order.
CheckTasks ==
    /\ main.pc = "checkTasks"
    /\ IF taskQueued = 0
       THEN main' = [main EXCEPT !.pc = "checkMessages"] /\ UNCHANGED callback
       ELSE MessageDone
    /\ UNCHANGED <<fileVars, rooted, reachable, phase>>

CheckMessagesWrongly ==     \* does not ask for messages
    /\ main.pc = "checkMessages"
    /\ rooted' = FALSE
    /\ MessageDone
    /\ UNCHANGED <<fileVars, reachable, phase>>
CheckMessages ==
    /\ main.pc = "checkMessages"
    /\ rooted' = (rooted /\ pending # 0)
    /\ MessageDone
    /\ UNCHANGED <<fileVars, reachable, phase>>

\* The garbage collector calls ~JSFile().
Collect ==
    /\ phase = "running" /\ main.pc = "idle"
    /\ ~reachable /\ ~rooted
    /\ DeleteFile
    /\ UNCHANGED <<reader, straggler, jsVars>>

\* ~Context(): destroyJS() deletes what JavaScript owns, rooted or not ...
DestroyJS ==
    /\ phase = "running" /\ main.pc = "idle" /\ ~Deleting
    /\ IF life = "alive" THEN DeleteFile ELSE UNCHANGED <<fd, openSync,
                                    workerVars, messageVars, mutex, life>>
    /\ rooted' = FALSE /\ reachable' = FALSE
    /\ callback' = [r \in Ref |-> "free"]
    /\ phase' = "jsDestroyed"
    /\ UNCHANGED <<reader, straggler, main>>

\* ... and DestroyReader() deletes the list and the messages in it.
DestroyReader ==
    /\ phase = "jsDestroyed" /\ ~Deleting
    /\ reader' = FALSE
    /\ inbox' = <<>>
    /\ phase' = "readerGone"
    /\ UNCHANGED <<fd, openSync, workerVars, pending, mutex, life, straggler,
                   rooted, reachable, callback, main>>

Next ==
    \/ \E op \in Calls, r \in Ref : JSCall(op, r)
    \/ \E r \in Ref : JS_listFiles(r)
    \/ JS_close \/ JS_openSync \/ JS_closeSync
    \/ \E b \in BOOLEAN : KeepReference(b)
    \/ OnMessage \/ CallbackReturns \/ CheckTasks \/ CheckMessages
    \/ Collect \/ DestroyJS \/ DestroyReader
    \/ (ContinueDelete \/ Worker) /\ UNCHANGED jsVars

\* The worker runs, the event loop reads its messages, JavaScript callbacks
\* return, and the collector gets to every object that is garbage for good.
Fairness ==
    /\ WF_vars((ReadTask \/ RunTask \/ FinishTask) /\ UNCHANGED jsVars)
    /\ SF_vars(LockTasks /\ UNCHANGED jsVars)
    /\ WF_vars(OnMessage)
    /\ WF_vars(ContinueDelete /\ UNCHANGED jsVars)
    /\ WF_vars(CallbackReturns \/ CheckTasks \/ CheckMessages)
    /\ SF_vars(Collect)

Spec == Init /\ [][Next]_vars
FairSpec == Spec /\ Fairness
-----------------------------------------------------------------------------
TypeOK ==
    /\ FileTypeOK
    /\ rooted \in BOOLEAN /\ reachable \in BOOLEAN
    /\ callback \in [Ref -> Op \cup {"free"}]
    /\ main \in [pc : {"idle", "callback", "checkTasks", "checkMessages"},
                 ref : Ref \cup {NoRef}]
    /\ phase \in {"running", "jsDestroyed", "readerGone"}

\* An object that is not rooted, and that the collector may therefore delete,
\* has no task in its worker and no message on its way: unroot() is only called
\* when the unlocked reads of the two counters add up to the truth.
UnrootedIsQuiet ==
    phase = "running" /\ ~rooted =>
        tasks = <<>> /\ task = NoTask /\ inbox = <<>>

\* The callback of every operation but listFiles() is called, whatever becomes
\* of the file and of the program's reference to it in the meantime.
EveryCallbackRuns ==
    \A r \in Ref : callback[r] \in Op \ {"list"} ~>
        callback[r] = "free" \/ phase # "running"

\* "When root()'d, it's up to the C++ code to delete the object or unroot()
\* when needed": a File nobody refers to and that has nothing left to do is
\* collected at last.
Abandoned ==
    /\ phase = "running" /\ ~reachable /\ main.pc = "idle"
    /\ tasks = <<>> /\ task = NoTask /\ inbox = <<>>

AbandonedIsCollected == Abandoned ~> life = "freed" \/ phase # "running"
=============================================================================
