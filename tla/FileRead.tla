------------------------------ MODULE FileRead ------------------------------
(***************************************************************************)
(* File.read(path, callback): the whole content of a file, through a       *)
(* FileStream that the call creates and that is deleted when the callback  *)
(* has been called.                                                        *)
(*                                                                         *)
(* Nothing the garbage collector knows of owns the stream: it is deleted   *)
(* from a timer although its file's last task (the close, or the read after*)
(* a failed open) may still be in the worker's hands, and ~Context() does  *)
(* not delete it at all.                                                   *)
(***************************************************************************)
EXTENDS File

VARIABLES
    listening,  \* the stream's listener is the JSFileAsyncReader, not NULL
    openFailed, \* FileStream::m_OpenFailed
    timer,      \* the timer that runs DeleteStream() is armed
    phase,      \* "before" the call, "running", "jsDestroyed", "readerGone"
    called      \* history: how often the callback has been called

streamVars == <<listening, openFailed, timer, phase, called>>
vars == <<fileVars, streamVars>>

Init ==
    /\ FileInit
    /\ listening = FALSE /\ openFailed = FALSE /\ timer = FALSE
    /\ phase = "before"
    /\ called = 0

\* JSStatic_read(): the stream and its listener are created, and getContent()
\* adds three tasks.
JSStatic_read ==
    /\ phase = "before"
    /\ AddTasks(<<NewTask("open_r", NoRef), NewTask("read", NoRef),
                  NewTask("close", NoRef)>>)
    /\ listening' = TRUE
    /\ phase' = "running"
    /\ UNCHANGED <<fd, openSync, messageVars, mutex, life, reader,
                   straggler, openFailed, timer, called>>

\* The file's messages that FileStream::onMessage() turns into a message to its
\* listener: none but OpenSuccess is looked at after a failed open.
AnswersWrongly(e) == ~openFailed /\ e \in {"ReadError", "ReadSuccess"}
Answers(e) == ~openFailed /\ e \in {"OpenError", "ReadError", "ReadSuccess"}

\* The reader's onMessage(): the callback is called, the reader takes itself off
\* the stream and deletes itself, and the stream is deleted by a timer.
CallBack ==
    /\ called' = called + 1
    /\ listening' = FALSE
    /\ timer' = TRUE

\* FileStream::onMessage() and, through notifySync() or errorSync(), CallBack.
OnMessage ==
    LET e == Head(inbox).event
    IN  /\ phase = "running"
        /\ NextMessage
        /\ openFailed' = (e # "OpenSuccess" /\ (openFailed \/ e = "OpenError"))
        /\ IF Answers(e) /\ listening THEN CallBack
           ELSE UNCHANGED <<called, listening, timer>>
        /\ UNCHANGED <<fd, openSync, workerVars, mutex, life, reader,
                   straggler, phase>>

\* The timer fires: "delete stream".
DeleteStream ==
    /\ phase = "running" /\ timer
    /\ timer' = FALSE
    /\ DeleteFile
    /\ UNCHANGED <<reader, straggler, listening, openFailed, phase, called>>

\* ~Context(): destroyJS() knows nothing of the stream, and the event loop is
\* over, ...
DestroyJS ==
    /\ phase = "running" /\ ~Deleting
    /\ phase' = "jsDestroyed"
    /\ timer' = FALSE
    /\ UNCHANGED <<fileVars, listening, openFailed, called>>

\* ... and DestroyReader() deletes the list and the messages in it.
DestroyReader ==
    /\ phase = "jsDestroyed"
    /\ phase' = "readerGone"
    /\ reader' = FALSE
    /\ inbox' = <<>>
    /\ UNCHANGED <<fd, openSync, workerVars, pending, mutex, life, straggler,
                   listening, openFailed, timer, called>>

Next ==
    \/ JSStatic_read \/ OnMessage \/ DeleteStream \/ DestroyJS \/ DestroyReader
    \/ (ContinueDelete \/ Worker) /\ UNCHANGED streamVars

\* The worker runs, and so does the event loop; a mutex that is free again and
\* again is obtained.
Fairness ==
    /\ WF_vars((ReadTask \/ RunTask \/ FinishTask) /\ UNCHANGED streamVars)
    /\ SF_vars(LockTasks /\ UNCHANGED streamVars)
    /\ WF_vars(OnMessage)
    /\ WF_vars(ContinueDelete /\ UNCHANGED streamVars)
    /\ SF_vars(DeleteStream)

Spec == Init /\ [][Next]_vars
FairSpec == Spec /\ Fairness
-----------------------------------------------------------------------------
TypeOK ==
    /\ FileTypeOK
    /\ listening \in BOOLEAN /\ openFailed \in BOOLEAN /\ timer \in BOOLEAN
    /\ phase \in {"before", "running", "jsDestroyed", "readerGone"}
    /\ called \in 0..1

\* What is left behind for a deleted stream is at most the one message of the
\* task that the worker had yet to run when the last destructor was over (which
\* Messages_handle() hands to freed memory).  ~File() gives the mutex back before
\* ~Managed() and ~Messages() have run, and a worker that waited for it then runs
\* its task and posts: only because the tasks go before the messages can what it
\* posts between the destructors not be left as well, nor a task that follows.
NothingForTheDeleted ==
    life = "freed" =>
        tasks = <<>> /\ Len(inbox) <= IF straggler THEN 1 ELSE 0

\* The program gets its answer, and the stream goes away, unless the program
\* ends first.
AnswerAndDelete ==
    /\ phase = "running" ~> called = 1 \/ phase # "running"
    /\ called = 1 ~> life = "freed" \/ phase # "running"

\* "Don't postMessage after DestroyReader()", asserts postMessage().
NoPostAfterDestroyReader == wpc # "aborted"
=============================================================================
