---------------------------- MODULE TaskManager ----------------------------
(***************************************************************************)
(* Core::TaskManager: a pool of worker threads, and the Managed objects    *)
(* that hand tasks to them (File is the one that matters most).            *)
(*                                                                         *)
(* The threads are the owner - the thread the pool and its Managed objects *)
(* belong to, which runs the event loop - and the workers.  They share, for*)
(* each worker, the message queue m_Messages, the flag m_Stop and the      *)
(* mutex and condition m_Lock and m_Cond; for each Managed object, its     *)
(* mutex and the counter m_TaskQueued.  Message queues are the abstract    *)
(* ones of MessageQueue, which SharedMessages implements; a message stands *)
(* for its task.                                                           *)
(*                                                                         *)
(* The owner's calls are split where another thread can see the difference.*)
(* owner.pc says where it is: between two calls ("idle"), inside addTask() *)
(* ("post", "signal"), inside a synchronous operation that holds an        *)
(* object's mutex ("sync"), inside stopAll() ("stop", "join"), or past it  *)
(* ("stopped").                                                            *)
(***************************************************************************)
EXTENDS Integers, Sequences, FiniteSets, Lists

CONSTANTS
    PoolSize,       \* NIDIUM_TASKMANAGER_MAX_THREAD
    MaxIdle,        \* NIDIUM_TASKMANAGER_MAX_IDLE_THREAD
    Managed,        \* the Managed objects
    NoManaged,      \* NULL; also what an unused Task points to
    Task,           \* the addresses at which a Task can be allocated
    NoTask,
    Owner,          \* the thread the pool belongs to
    NoThread,       \* a mutex is free
    Careful         \* the Managed objects that are not deleted while they
                    \* have tasks (JSFile's are, FileStream's are not)

ASSUME PoolAssumption ==
    /\ PoolSize \in Nat /\ MaxIdle \in Nat
    /\ 0 < MaxIdle /\ MaxIdle <= PoolSize

ASSUME NamesAssumption ==
    /\ NoManaged \notin Managed
    /\ NoTask \notin Task
    /\ NoThread \notin Nat /\ Owner \notin Nat /\ Owner # NoThread

ASSUME TaskAssumption == IsFiniteSet(Task)

ASSUME CarefulAssumption == Careful \subseteq Managed

Worker == 1..PoolSize
NoWorker == 0
Thread == Worker \cup {Owner, NoThread}

VARIABLES
    count,          \* m_Threadpool.count
    queue,          \* workerInfo::m_Messages, as the tasks they carry
    stop,           \* workerInfo::m_Stop
    lock,           \* the holder of workerInfo::m_Lock
    pc,             \* where each worker is in work()
    cur,            \* the task each worker has dequeued
    obj,            \* Task::m_Obj, NoManaged when the task is not allocated
    workerOf,       \* Managed::m_Worker
    taskQueued,     \* Managed::m_TaskQueued
    tasksLock,      \* the holder of Managed::m_Lock
    alive,          \* the Managed objects that exist
    owner,          \* where the owner is
    before          \* history: for each task, the tasks of the same object that
                    \* were added before it and have not been deleted yet

workerVars == <<count, stop, lock>>
managedVars == <<workerOf, taskQueued, tasksLock, alive>>
vars == <<workerVars, queue, pc, cur, obj, managedVars, owner, before>>

OwnerAt(p, o, t, w) == [pc |-> p, obj |-> o, task |-> t, worker |-> w]
OwnerIdle == OwnerAt("idle", NoManaged, NoTask, NoWorker)

\* TaskManager(): the pool is allocated and MaxIdle workers are started.
Init ==
    /\ count = MaxIdle
    /\ queue = [w \in Worker |-> <<>>]
    /\ stop = [w \in Worker |-> FALSE]
    /\ lock = [w \in Worker |-> NoThread]
    /\ pc = [w \in Worker |-> IF w <= MaxIdle THEN "loop" ELSE "none"]
    /\ cur = [w \in Worker |-> NoTask]
    /\ obj = [t \in Task |-> NoManaged]
    /\ workerOf = [o \in Managed |-> NoWorker]
    /\ taskQueued = [o \in Managed |-> 0]
    /\ tasksLock = [o \in Managed |-> NoThread]
    /\ alive = Managed
    /\ owner = OwnerIdle
    /\ before = [t \in Task |-> {}]
-----------------------------------------------------------------------------
(* The owner. *)

(* Definitions named ...Wrongly are slips that code like this invites.  No   *)
(* behaviour of the program uses them: each is there to be put in the place *)
(* of the definition it precedes, and to be found out by a property.        *)

\* createWorker(n): never more workers than the pool has room for.
ActualCount(n) == IF count + n > PoolSize THEN PoolSize - count ELSE n

CreateWorker(n) ==
    LET new == (count + 1)..(count + ActualCount(n))
    IN  /\ owner.pc = "idle"
        /\ count < PoolSize
        /\ stop' = [w \in Worker |-> IF w \in new THEN FALSE ELSE stop[w]]
        /\ pc' = [w \in Worker |-> IF w \in new THEN "loop" ELSE pc[w]]
        /\ count' = count + ActualCount(n)
        /\ UNCHANGED <<queue, lock, cur, obj, managedVars, owner, before>>

\* An object keeps the worker its first task went to; for that one
\* getAvailableWorker() returns any worker of the pool.
WorkersForWrongly(o) == 1..count
WorkersFor(o) ==
    IF workerOf[o] = NoWorker THEN 1..count ELSE {workerOf[o]}

\* The tasks that were added for o and have not been deleted.
Pending(o) == {t \in Task : obj[t] = o}

\* Managed::addTask(), up to the call of workerInfo::addTask().  An object that
\* was made on a thread without a TaskManager has none for as long as it lives,
\* and every task is dropped: it is none of these.
AddTask(o, t, w) ==
    /\ owner.pc = "idle"
    /\ o \in alive
    /\ obj[t] = NoManaged
    /\ w \in WorkersFor(o)
    /\ workerOf' = [workerOf EXCEPT ![o] = w]
    /\ obj' = [obj EXCEPT ![t] = o]
    /\ taskQueued' = [taskQueued EXCEPT ![o] = @ + 1]
    /\ owner' = OwnerAt("post", o, t, w)
    /\ before' = [before EXCEPT ![t] = Pending(o)]
    /\ UNCHANGED <<workerVars, queue, pc, cur, tasksLock, alive>>

\* workerInfo::addTask(): the message is posted without m_Lock ...
PostTask ==
    /\ owner.pc = "post"
    /\ queue' = [queue EXCEPT ![owner.worker] = Append(@, owner.task)]
    /\ owner' = [owner EXCEPT !.pc = "signal"]
    /\ UNCHANGED <<workerVars, pc, cur, obj, managedVars, before>>

\* Signalling w's condition: a worker that waits must get m_Lock back.
WokenWrongly(w) == pc[w]
Woken(w) == IF pc[w] = "wait" THEN "lock" ELSE pc[w]

\* ... and the condition is signalled with m_Lock held.
SignalWorkerWrongly ==      \* without m_Lock
    /\ owner.pc = "signal"
    /\ pc' = [pc EXCEPT ![owner.worker] = Woken(owner.worker)]
    /\ owner' = OwnerIdle
    /\ UNCHANGED <<workerVars, queue, cur, obj, managedVars, before>>
SignalWorker ==
    /\ owner.pc = "signal"
    /\ lock[owner.worker] = NoThread
    /\ pc' = [pc EXCEPT ![owner.worker] = Woken(owner.worker)]
    /\ owner' = OwnerIdle
    /\ UNCHANGED <<workerVars, queue, cur, obj, managedVars, before>>

\* The mutex of o can be taken.
Unlocked(o) == tasksLock[o] = NoThread

\* A synchronous operation of o starts: lockTasks(), or the PthreadAutoLock
\* of File's ...Sync() methods.
BeginSync(o) ==
    /\ owner.pc = "idle"
    /\ o \in alive
    /\ Unlocked(o)
    /\ tasksLock' = [tasksLock EXCEPT ![o] = Owner]
    /\ owner' = OwnerAt("sync", o, NoTask, NoWorker)
    /\ UNCHANGED <<workerVars, queue, pc, cur, obj, workerOf, taskQueued,
                   alive, before>>

EndSync ==
    /\ owner.pc = "sync"
    /\ tasksLock' = [tasksLock EXCEPT ![owner.obj] = NoThread]
    /\ owner' = OwnerIdle
    /\ UNCHANGED <<workerVars, queue, pc, cur, obj, workerOf, taskQueued,
                   alive, before>>

\* delete, for each task of S.
DeleteTasks(S) ==
    /\ obj' = [t \in Task |-> IF t \in S THEN NoManaged ELSE obj[t]]
    /\ before' = [t \in Task |-> before[t] \ S]

\* delMessagesForDest() on w's queue: the tasks of S in it go, each deleted by
\* TaskManager_workerInfo_MessageCleaner.
Purge(w, S) ==
    /\ \E r \in Purges(queue[w], S) : queue' = [queue EXCEPT ![w] = r]
    /\ DeleteTasks(S \cap Elements(queue[w]))

\* For an object of Careful the owner asks hasTaskOrMessagePending() first.
MayDestroyWrongly(o) == TRUE
MayDestroy(o) == o \in Careful => taskQueued[o] = 0

\* ~Managed(): its tasks still in the worker's queue go.
Destroy(o) ==
    /\ owner.pc \in {"idle", "stopped"}
    /\ o \in alive
    /\ MayDestroy(o)
    /\ alive' = alive \ {o}
    /\ IF workerOf[o] = NoWorker THEN UNCHANGED <<queue, obj, before>>
       ELSE Purge(workerOf[o], Pending(o))
    /\ UNCHANGED <<workerVars, pc, cur, workerOf, taskQueued, tasksLock,
                   owner>>

\* stopAll() is called, by ~TaskManager().
StopAll ==
    /\ owner.pc = "idle"
    /\ owner' = OwnerAt("stop", NoManaged, NoTask, 1)
    /\ UNCHANGED <<workerVars, queue, pc, cur, obj, managedVars, before>>

NextWorker(q) ==
    owner' = IF owner.worker < count
             THEN [owner EXCEPT !.worker = @ + 1]
             ELSE OwnerAt(q, NoManaged, NoTask, IF q = "join" THEN 1 ELSE NoWorker)

\* The first loop of stopAll(): workerInfo::stop() on each worker.
StopWorker ==
    /\ owner.pc = "stop"
    /\ lock[owner.worker] = NoThread
    /\ stop' = [stop EXCEPT ![owner.worker] = TRUE]
    /\ pc' = [pc EXCEPT ![owner.worker] = Woken(owner.worker)]
    /\ NextWorker("join")
    /\ UNCHANGED <<count, lock, queue, cur, obj, managedVars, before>>

\* pthread_join() returns.
TerminatedWrongly(w) == TRUE
Terminated(w) == pc[w] = "exited"

\* The second: waitTerminate(), and what is left in the queue is deleted.
JoinWorker ==
    /\ owner.pc = "join"
    /\ Terminated(owner.worker)
    /\ Purge(owner.worker, Task)
    /\ NextWorker("stopped")
    /\ UNCHANGED <<workerVars, pc, cur, managedVars>>
-----------------------------------------------------------------------------
(* A worker, in workerInfo::work(). *)

\* while (!m_Stop), without m_Lock.
Loop(w) ==
    /\ pc[w] = "loop"
    /\ pc' = [pc EXCEPT ![w] = IF stop[w] THEN "exited" ELSE "lock"]
    /\ UNCHANGED <<workerVars, queue, cur, obj, managedVars, owner, before>>

\* m_Lock is taken, at first or on the way out of pthread_cond_wait().
Lock(w) ==
    /\ pc[w] = "lock"
    /\ lock[w] = NoThread
    /\ lock' = [lock EXCEPT ![w] = w]
    /\ pc' = [pc EXCEPT ![w] = "check"]
    /\ UNCHANGED <<count, stop, queue, cur, obj, managedVars, owner, before>>

\* With m_Lock held: return on m_Stop, which leaves it locked for ever, call
\* pthread_cond_wait() when there is no message, or go on to read them.
Check(w) ==
    /\ pc[w] = "check"
    /\ pc' = [pc EXCEPT ![w] = IF stop[w] THEN "exited"
                               ELSE IF queue[w] = <<>> THEN "sleep" ELSE "read"]
    /\ lock' = IF ~stop[w] /\ queue[w] # <<>>
               THEN [lock EXCEPT ![w] = NoThread] ELSE lock
    /\ UNCHANGED <<count, stop, queue, cur, obj, managedVars, owner, before>>

\* pthread_cond_wait() releases m_Lock and waits.
Sleep(w) ==
    /\ pc[w] = "sleep"
    /\ pc' = [pc EXCEPT ![w] = "wait"]
    /\ lock' = [lock EXCEPT ![w] = NoThread]
    /\ UNCHANGED <<count, stop, queue, cur, obj, managedVars, owner, before>>

\* pthread_cond_wait() may return without a signal.
SpuriousWakeup(w) ==
    /\ pc[w] = "wait"
    /\ pc' = [pc EXCEPT ![w] = "lock"]
    /\ UNCHANGED <<workerVars, queue, cur, obj, managedVars, owner, before>>

\* while ((msg = readMessage())): m_Stop is not looked at here.
Read(w) ==
    /\ pc[w] = "read"
    /\ IF queue[w] = <<>>
       THEN /\ pc' = [pc EXCEPT ![w] = "loop"]
            /\ UNCHANGED <<queue, cur>>
       ELSE /\ pc' = [pc EXCEPT ![w] = "lockTasks"]
            /\ cur' = [cur EXCEPT ![w] = Head(queue[w])]
            /\ queue' = [queue EXCEPT ![w] = Tail(@)]
    /\ UNCHANGED <<workerVars, obj, managedVars, owner, before>>

\* managed->lockTasks(): the task's function starts.
LockTasks(w) ==
    LET o == obj[cur[w]]
    IN  /\ pc[w] = "lockTasks"
        /\ o \in alive
        /\ Unlocked(o)
        /\ tasksLock' = [tasksLock EXCEPT ![o] = w]
        /\ pc' = [pc EXCEPT ![w] = "run"]
        /\ UNCHANGED <<workerVars, queue, cur, obj, workerOf, taskQueued,
                       alive, owner, before>>

\* The function has returned: managed->unlockTasks().
UnlockTasks(w) ==
    LET o == obj[cur[w]]
    IN  /\ pc[w] = "run"
        /\ o \in alive
        /\ tasksLock' = [tasksLock EXCEPT ![o] = NoThread]
        /\ pc' = [pc EXCEPT ![w] = "done"]
        /\ UNCHANGED <<workerVars, queue, cur, obj, workerOf, taskQueued,
                       alive, owner, before>>

\* Atomic::Dec(&managed->m_TaskQueued), and the task is deleted.
FinishTaskWrongly(w) ==     \* without the count
    /\ pc[w] = "done"
    /\ obj[cur[w]] \in alive
    /\ DeleteTasks({cur[w]})
    /\ cur' = [cur EXCEPT ![w] = NoTask]
    /\ pc' = [pc EXCEPT ![w] = "read"]
    /\ UNCHANGED <<workerVars, queue, managedVars, owner>>
FinishTask(w) ==
    LET o == obj[cur[w]]
    IN  /\ pc[w] = "done"
        /\ o \in alive
        /\ taskQueued' = [taskQueued EXCEPT ![o] = @ - 1]
        /\ DeleteTasks({cur[w]})
        /\ cur' = [cur EXCEPT ![w] = NoTask]
        /\ pc' = [pc EXCEPT ![w] = "read"]
        /\ UNCHANGED <<workerVars, queue, workerOf, tasksLock, alive, owner>>

\* Any of the three steps above on an object that has been deleted: what the
\* worker does from here on is undefined.
UseAfterFree(w) ==
    /\ pc[w] \in {"lockTasks", "run", "done"}
    /\ obj[cur[w]] \notin alive
    /\ pc' = [pc EXCEPT ![w] = "undefined"]
    /\ UNCHANGED <<workerVars, queue, cur, obj, managedVars, owner, before>>

WorkerStep(w) ==
    \/ Loop(w) \/ Lock(w) \/ Check(w) \/ Sleep(w) \/ SpuriousWakeup(w)
    \/ Read(w) \/ LockTasks(w) \/ UnlockTasks(w) \/ FinishTask(w)
    \/ UseAfterFree(w)

\* The steps the owner takes inside a call it has begun.
OwnerContinues ==
    PostTask \/ SignalWorker \/ EndSync \/ StopWorker \/ JoinWorker

OwnerStep ==
    \/ \E n \in 1..PoolSize : CreateWorker(n)
    \/ \E o \in Managed, t \in Task, w \in Worker : AddTask(o, t, w)
    \/ \E o \in Managed : BeginSync(o)
    \/ \E o \in Managed : Destroy(o)
    \/ StopAll
    \/ OwnerContinues

Next == OwnerStep \/ \E w \in Worker : WorkerStep(w)

\* Threads are scheduled, tasks return, and a mutex that is free again and
\* again is obtained at last (spurious wake-ups may go on for ever, and so may
\* the owner's synchronous operations).
Fairness ==
    /\ WF_vars(PostTask \/ EndSync \/ JoinWorker)
    /\ SF_vars(SignalWorker \/ StopWorker)
    /\ \A w \in Worker :
        /\ WF_vars(Loop(w) \/ Check(w) \/ Sleep(w) \/ Read(w)
                   \/ UnlockTasks(w) \/ FinishTask(w) \/ UseAfterFree(w))
        /\ WF_vars(Lock(w))
        /\ SF_vars(LockTasks(w))

Spec == Init /\ [][Next]_vars
FairSpec == Spec /\ Fairness
-----------------------------------------------------------------------------
TypeOK ==
    /\ count \in 1..PoolSize
    /\ queue \in [Worker -> Seq(Task)]
    /\ stop \in [Worker -> BOOLEAN]
    /\ lock \in [Worker -> Worker \cup {NoThread}]
    /\ pc \in [Worker -> {"none", "loop", "lock", "check", "sleep", "wait",
                          "read", "lockTasks", "run", "done", "exited",
                          "undefined"}]
    /\ cur \in [Worker -> Task \cup {NoTask}]
    /\ obj \in [Task -> Managed \cup {NoManaged}]
    /\ workerOf \in [Managed -> Worker \cup {NoWorker}]
    /\ taskQueued \in [Managed -> Nat]
    /\ tasksLock \in [Managed -> Thread]
    /\ alive \subseteq Managed
    /\ owner \in [pc : {"idle", "post", "signal", "sync", "stop", "join",
                        "stopped"},
                  obj : Managed \cup {NoManaged}, task : Task \cup {NoTask},
                  worker : Worker \cup {NoWorker}]
    /\ before \in [Task -> SUBSET Task]

\* m_TaskQueued is what hasTaskOrMessagePending() answers from.  It is raised
\* and lowered by different threads around the queue, never under a common
\* mutex; yet until stopAll() drops tasks it is exactly the number of tasks
\* the object still has, queued, in a worker's hands, or on their way.
TaskQueuedIsExact ==
    owner.pc \notin {"join", "stopped"} =>
        \A o \in alive : taskQueued[o] = Cardinality(Pending(o))

\* A worker never locks, runs or counts down on a Managed object that has been
\* deleted, if whoever deleted it asked for m_TaskQueued first - read without
\* any mutex, while the worker may be about to lower it.
NoUseAfterFree ==
    \A w \in Worker : pc[w] = "undefined" => obj[cur[w]] \notin Careful

\* When nobody asks, ~Managed() still confines the damage: the only
\* task that can outlive its object is the one its worker has dequeued.
OnlyTheTaskInHandOutlives ==
    \A o \in Managed \ alive : \A t \in Pending(o) :
        workerOf[o] # NoWorker /\ cur[workerOf[o]] = t

\* Deleting an object is safe for whoever asks first, and harmless beyond the
\* task in hand for whoever does not.
DeletionIsSafe == NoUseAfterFree /\ OnlyTheTaskInHandOutlives

\* The tasks of an object run in the order they were added, although its tasks
\* may have been added while other objects' tasks ran on several workers:
\* "Operations are queued" is what File's users are told.
TasksInOrder ==
    \A w \in Worker : pc[w] = "run" => before[cur[w]] = {}

\* While a task of an object runs, no other worker runs one of its tasks and
\* the owner is not inside one of its synchronous operations.
OneAtATime ==
    \A w \in Worker : pc[w] = "run" /\ obj[cur[w]] \in alive =>
        /\ ~(owner.pc = "sync" /\ owner.obj = obj[cur[w]])
        /\ \A v \in Worker \ {w} :
              ~(pc[v] = "run" /\ obj[cur[v]] = obj[cur[w]])

\* The tasks of an object are its own thread of execution, whichever workers
\* the pool has: in order, one at a time, never beside a synchronous operation.
TasksAreSerial == TasksInOrder /\ OneAtATime

\* A worker sleeps on its condition only while nobody needs it: when it has a
\* message the signal is still to come, and m_Stop is never set behind its
\* back.  (The message is posted and counted without m_Lock.)
NoLostWakeup ==
    \A w \in Worker : pc[w] = "wait" =>
        /\ ~stop[w]
        /\ queue[w] # <<>> => owner.pc = "signal" /\ owner.worker = w

\* When stopAll() has returned every worker thread is gone and no task waits.
StoppedIsQuiet ==
    owner.pc = "stopped" =>
        \A w \in 1..count : pc[w] = "exited" /\ queue[w] = <<>>

\* A worker was left with a task whose object was deleted.
Corrupt == \E w \in Worker : pc[w] = "undefined"

\* Every task that is added is run, or deleted by stopAll(); and no call of the
\* owner blocks for ever: addTask() gets m_Lock, stopAll() joins every worker,
\* whatever the workers are doing when it starts.
NothingWaitsForEver ==
    /\ \A t \in Task : obj[t] # NoManaged ~> obj[t] = NoManaged \/ Corrupt
    /\ owner.pc \notin {"idle", "stopped"} ~>
            owner.pc \in {"idle", "stopped"} \/ Corrupt
=============================================================================
