-------------------------------- MODULE File --------------------------------
(***************************************************************************)
(* IO::File: what an open file, its tasks in a worker and its messages to  *)
(* the main thread do together.  TaskManager and Messages model the worker *)
(* and the reader in full; here a File is seen from one worker and from    *)
(* the main thread, one task and one message at a time.                    *)
(*                                                                         *)
(* This module has the steps of the worker and the operators that the main *)
(* thread's steps are made of; JSFile and FileRead are the two ways the    *)
(* program uses a File.  Both turn m_AutoClose off.                        *)
(***************************************************************************)
EXTENDS Integers, Sequences

CONSTANTS
    Ref,        \* rooted callbacks handed to File with an operation
    NoRef       \* NULL

VARIABLES
    fd,         \* what is open: "none", "file" (m_Fd) or "dir" (m_Dir)
    openSync,   \* m_OpenSync
    tasks,      \* the File's tasks in its worker's queue
    task,       \* the task the worker has dequeued
    wpc,        \* where the worker is with it
    taskQueued, \* m_TaskQueued
    inbox,      \* the File's messages in the event loop's list
    pending,    \* _m_CountMessagePending
    mutex,      \* the holder of Managed::m_Lock
    life,       \* of the File: "alive", "closed" (~File() has run), "noTasks"
                \* (~Managed() has), "freed" (~Messages() has)
    reader,     \* g_MessagesList # nullptr
    straggler   \* history: the worker had a task yet to run at "freed"

workerVars == <<tasks, task, wpc, taskQueued>>
messageVars == <<inbox, pending>>
fileVars == <<fd, openSync, workerVars, messageVars, mutex, life, reader,
              straggler>>

Opens == {"open_r", "open_w"}
Op == Opens \cup {"close", "read", "write", "seek", "list"}
Event == {"OpenSuccess", "OpenError", "CloseSuccess", "ReadSuccess",
          "ReadError", "WriteSuccess", "WriteError", "SeekSuccess",
          "SeekError", "ListFiles"}
NewTask(op, r) == [op |-> op, ref |-> r]
NoTask == NewTask("none", NoRef)

FileInit ==
    /\ fd = "none" /\ openSync = FALSE
    /\ tasks = <<>> /\ task = NoTask /\ wpc = "idle" /\ taskQueued = 0
    /\ inbox = <<>> /\ pending = 0
    /\ mutex = "free" /\ life = "alive" /\ reader = TRUE
    /\ straggler = FALSE

FileTypeOK ==
    /\ fd \in {"none", "file", "dir"} /\ openSync \in BOOLEAN
    /\ tasks \in Seq([op : Op, ref : Ref \cup {NoRef}])
    /\ task \in [op : Op \cup {"none"}, ref : Ref \cup {NoRef}]
    /\ wpc \in {"idle", "lockTasks", "run", "done", "aborted"}
    /\ taskQueued \in Nat /\ pending \in Nat
    /\ inbox \in Seq([event : Event, ref : Ref \cup {NoRef}])
    /\ mutex \in {"free", "worker"}
    /\ life \in {"alive", "closed", "noTasks", "freed"} /\ reader \in BOOLEAN
    /\ straggler \in BOOLEAN
-----------------------------------------------------------------------------
(* The worker.  What the disk answers is any of the outcomes listed.  The   *)
(* worker knows nothing of destructors: it goes on with the task in its hand*)
(* when the File or its path is freed.  What it then reads is memory that is *)
(* no longer the File's: it may find the mutex free and the operation to    *)
(* fail or succeed, as long as nobody else has been given that memory.      *)

\* What a task leaves open and the event it posts, "none" when it posts
\* nothing.  openTask() for writing looks at an uninitialised stat buffer when
\* the path does not exist: it may then see a directory, and fail.
Outcomes(op) ==
    CASE op \in Opens /\ fd # "none" -> {<<fd, "OpenSuccess">>}
      [] op \in Opens /\ fd = "none" ->
            {<<"none", "OpenError">>, <<"file", "OpenSuccess">>}
            \cup IF op = "open_r" THEN {<<"dir", "OpenSuccess">>} ELSE {}
      [] op = "close" ->
            {<<"none", IF openSync THEN "none" ELSE "CloseSuccess">>}
      [] op = "read" ->
            {<<fd, "ReadError">>}
            \cup IF fd = "file" THEN {<<fd, "ReadSuccess">>} ELSE {}
      [] op = "write" ->
            {<<fd, IF fd = "file" THEN "WriteSuccess" ELSE "WriteError">>}
      [] op = "seek" ->
            {<<fd, "SeekError">>}
            \cup IF fd = "file" THEN {<<fd, "SeekSuccess">>} ELSE {}
      [] op = "list" -> {<<fd, IF fd = "dir" THEN "ListFiles" ELSE "none">>}

(* Definitions named ...Wrongly are slips that code like this invites.  No   *)
(* behaviour of the program uses them: each is there to be put in the place *)
(* of the definition it precedes, and to be found out by a property.        *)

\* File_dispatchTask() gives closeTask() no callback.
EventRefWrongly(t) == NoRef
EventRef(t) == IF t.op = "close" THEN NoRef ELSE t.ref

ReadTask ==
    /\ wpc = "idle" /\ tasks # <<>>
    /\ task' = Head(tasks) /\ tasks' = Tail(tasks) /\ wpc' = "lockTasks"
    /\ UNCHANGED <<fd, openSync, taskQueued, messageVars, mutex, life,
                   reader, straggler>>

LockTasks ==
    /\ wpc = "lockTasks" /\ mutex = "free"
    /\ wpc' = "run" /\ mutex' = "worker"
    /\ UNCHANGED <<fd, openSync, tasks, task, taskQueued, messageVars,
                   life,
                   reader, straggler>>

\* The task's function, with NIDIUM_FILE_NOTIFY, and unlockTasks().
RunTask ==
    /\ wpc = "run"
    /\ \E out \in Outcomes(task.op) :
        /\ reader \/ out[2] = "none"
        /\ fd' = out[1]
        /\ IF out[2] = "none" THEN UNCHANGED messageVars
           ELSE /\ inbox' = Append(inbox, [event |-> out[2],
                                           ref |-> EventRef(task)])
                /\ pending' = pending + 1
    /\ wpc' = "done" /\ mutex' = "free"
    /\ UNCHANGED <<openSync, tasks, task, taskQueued, life,
                   reader, straggler>>

\* The same when g_MessagesList is gone: postMessage()'s assertion fails.
PostAborts ==
    /\ wpc = "run" /\ ~reader
    /\ \E out \in Outcomes(task.op) : out[2] # "none"
    /\ wpc' = "aborted"
    /\ UNCHANGED <<fd, openSync, tasks, task, taskQueued, messageVars, mutex,
                   life,
                   reader, straggler>>

FinishTask ==
    /\ wpc = "done"
    /\ taskQueued' = taskQueued - 1 /\ task' = NoTask /\ wpc' = "idle"
    /\ UNCHANGED <<fd, openSync, tasks, messageVars, mutex, life,
                   reader, straggler>>

Worker == ReadTask \/ LockTasks \/ RunTask \/ PostAborts \/ FinishTask

-----------------------------------------------------------------------------
(* The main thread's part. *)

\* The asynchronous operations: addTask() for each of them, in order.
AddTasks(new) ==
    /\ life = "alive"
    /\ tasks' = tasks \o new
    /\ taskQueued' = taskQueued + Len(new)
    /\ UNCHANGED <<task, wpc>>

\* The main thread is between the destructors of a File.
Deleting == life \in {"closed", "noTasks"}

\* Messages_handle() reads the File's next message and counts it down.  The
\* model ends where it would call onMessage() of a File that is freed.
NextMessage ==
    /\ life = "alive"
    /\ reader /\ inbox # <<>>
    /\ inbox' = Tail(inbox)
    /\ pending' = pending - 1

\* delete: ~File() takes the mutex, but for its own body only, ...
DeleteFile ==
    /\ life = "alive" /\ mutex = "free"
    /\ life' = "closed"
    /\ fd' = "none"
    /\ UNCHANGED <<openSync, workerVars, messageVars, mutex>>

\* ... ~Managed() deletes the tasks that are still queued ...
DeleteTasks ==
    /\ life = "closed"
    /\ life' = "noTasks"
    /\ tasks' = <<>>
    /\ UNCHANGED <<messageVars, straggler>>

\* The worker has a task of the File in hand that has not posted.
ToPost == wpc \in {"lockTasks", "run"}

\* ... and ~Messages() the messages.
DeleteMessages ==
    /\ life = "noTasks"
    /\ life' = "freed"
    /\ inbox' = <<>>
    /\ straggler' = ToPost
    /\ UNCHANGED <<tasks, pending>>

\* The base classes decide on the order: Managed is a Messages.
ContinueDeleteWrongly ==
    /\ \/ /\ life = "closed" /\ life' = "noTasks"
          /\ inbox' = <<>> /\ UNCHANGED <<tasks, pending, straggler>>
       \/ /\ life = "noTasks" /\ life' = "freed"
          /\ tasks' = <<>> /\ straggler' = ToPost /\ UNCHANGED messageVars
    /\ UNCHANGED <<fd, openSync, task, wpc, taskQueued, mutex, reader>>
ContinueDelete ==
    /\ DeleteTasks \/ DeleteMessages
    /\ UNCHANGED <<fd, openSync, task, wpc, taskQueued, mutex, reader>>
=============================================================================
