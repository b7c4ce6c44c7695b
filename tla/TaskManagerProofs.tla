------------------------- MODULE TaskManagerProofs -------------------------
(***************************************************************************)
(* Proofs that the safety properties of TaskManager hold for every pool    *)
(* size, every set of Managed objects and every set of tasks.              *)
(*                                                                         *)
(* The properties are not inductive one by one: each needs to know where a *)
(* task can be while its object believes it to be under way.  IInv is the  *)
(* conjunction that is.                                                    *)
(***************************************************************************)
EXTENDS TaskManager, ListsProofs, FiniteSetTheorems

\* Where the owner is: what the arguments of the call it is in refer to.
OwnerInv ==
    /\ owner.pc = "post" =>
          /\ owner.obj \in alive /\ owner.task \in Task /\ owner.worker \in Worker
          /\ obj[owner.task] = owner.obj
          /\ workerOf[owner.obj] = owner.worker
    /\ owner.pc = "signal" => owner.worker \in Worker
    /\ owner.pc = "sync" => owner.obj \in alive
    /\ owner.pc \in {"stop", "join"} => owner.worker \in 1..count

\* A place of the pool that has no worker yet has no thread either.
PoolInv == \A w \in Worker : w > count => pc[w] = "none"

\* Worker w reads m_Stop and its queue, and goes to sleep, in one critical
\* section of m_Lock.
SleepInv ==
    \A w \in Worker :
        /\ pc[w] \in {"check", "sleep"} => lock[w] = w
        /\ pc[w] \in {"sleep", "wait"} =>
              /\ ~stop[w]
              /\ queue[w] # <<>> => owner.pc = "signal" /\ owner.worker = w

\* Whoever is inside an object's tasks or synchronous operations has its mutex.
MutexInv ==
    /\ owner.pc = "sync" => tasksLock[owner.obj] = Owner
    /\ \A w \in Worker : pc[w] = "run" =>
          obj[cur[w]] \in Managed /\ tasksLock[obj[cur[w]]] = w

Busy == {"lockTasks", "run", "done", "undefined"}

\* The places a task can be: one of three, and only with the worker of its
\* object.
PlaceInv ==
    /\ \A w \in Worker : cur[w] # NoTask <=> pc[w] \in Busy
    /\ \A w \in Worker : cur[w] # NoTask =>
          obj[cur[w]] \in Managed /\ workerOf[obj[cur[w]]] = w
    /\ \A w \in Worker : NoDuplicates(queue[w])
    /\ \A w \in Worker : \A t \in Elements(queue[w]) :
          obj[t] \in alive /\ workerOf[obj[t]] = w /\ cur[w] # t
    /\ owner.pc = "post" => \A w \in Worker :
          owner.task \notin Elements(queue[w]) /\ cur[w] # owner.task
    /\ \A t \in Task : obj[t] # NoManaged =>
          /\ workerOf[obj[t]] \in Worker
          /\ \/ t \in Elements(queue[workerOf[obj[t]]])
             \/ t = cur[workerOf[obj[t]]]
             \/ owner.pc = "post" /\ owner.task = t

\* m_TaskQueued, also past stopAll(), which drops tasks without counting them.
CountInv ==
    \A o \in alive :
        /\ taskQueued[o] >= Cardinality(Pending(o))
        /\ owner.pc \notin {"join", "stopped"} =>
              taskQueued[o] = Cardinality(Pending(o))

\* A careful owner's object outlives its tasks.
AliveInv ==
    \A w \in Worker : cur[w] # NoTask /\ obj[cur[w]] \in Careful =>
        obj[cur[w]] \in alive /\ pc[w] # "undefined"

\* What was added before a task and is not deleted yet stands in front of it.
HandFirst(w) == cur[w] # NoTask => before[cur[w]] = {}

QueueInOrder(w) ==
    \A i \in 1..Len(queue[w]) : \A t \in before[queue[w][i]] :
        t = cur[w] \/ \E j \in 1..(i - 1) : queue[w][j] = t

PostedLast ==
    owner.pc = "post" => \A t \in before[owner.task] :
        t = cur[owner.worker] \/ t \in Elements(queue[owner.worker])

OrderInv ==
    /\ \A w \in Worker : HandFirst(w) /\ QueueInOrder(w)
    /\ PostedLast

\* stopAll() has joined the workers it has been past.
StopInv ==
    /\ owner.pc = "join" => \A w \in 1..(owner.worker - 1) :
          pc[w] = "exited" /\ queue[w] = <<>>
    /\ owner.pc = "stopped" => \A w \in 1..count :
          pc[w] = "exited" /\ queue[w] = <<>>

IInv ==
    /\ TypeOK /\ OwnerInv /\ PoolInv /\ SleepInv /\ MutexInv /\ PlaceInv
    /\ CountInv /\ AliveInv /\ OrderInv /\ StopInv
-----------------------------------------------------------------------------
\* delMessagesForDest() on a worker's queue: what stays, and what is deleted.
LEMMA PurgeKeeps ==
    ASSUME TypeOK, NEW w \in Worker, NEW S \in SUBSET Task, Purge(w, S)
    PROVE  /\ queue' \in [Worker -> Seq(Task)]
           /\ queue'[w] \in Purges(queue[w], S)
           /\ \A v \in Worker \ {w} : queue'[v] = queue[v]
           /\ \A v \in Worker : Elements(queue'[v]) \subseteq Elements(queue[v])
           /\ Elements(queue'[w]) = Elements(queue[w]) \ S
           /\ NoDuplicates(queue[w]) => NoDuplicates(queue'[w])
           /\ S = Task => queue'[w] = <<>>
           /\ queue[w] = <<>> => queue'[w] = <<>>
           /\ obj' \in [Task -> Managed \cup {NoManaged}]
           /\ \A t \in Task : obj'[t] = IF t \in S /\ t \in Elements(queue[w])
                                        THEN NoManaged ELSE obj[t]
           /\ before' \in [Task -> SUBSET Task]
           /\ \A t \in Task :
                 before'[t] = before[t] \ (S \cap Elements(queue[w]))
<1>1. PICK r \in Purges(queue[w], S) : queue' = [queue EXCEPT ![w] = r]
  BY DEF Purge
<1>2. queue[w] \in Seq(Task)
  BY DEF TypeOK
<1>3. /\ r \in Seq(Task)
      /\ Elements(r) = Elements(queue[w]) \ S
      /\ NoDuplicates(queue[w]) => NoDuplicates(r)
  BY <1>1, <1>2, PurgesKeeps
<1>4. queue[w] = <<>> => r = <<>>
  BY <1>1, PurgesNone
<1>5. S = Task => r = <<>>
  BY <1>1, <1>2, PurgesAll
<1>6. /\ queue' \in [Worker -> Seq(Task)] /\ queue'[w] = r
      /\ \A v \in Worker \ {w} : queue'[v] = queue[v]
  BY <1>1, <1>3 DEF TypeOK
<1>7. /\ obj' \in [Task -> Managed \cup {NoManaged}]
      /\ before' \in [Task -> SUBSET Task]
  BY DEF Purge, DeleteTasks, TypeOK
<1>8. \A t \in Task :
        /\ obj'[t] = IF t \in S /\ t \in Elements(queue[w])
                     THEN NoManaged ELSE obj[t]
        /\ before'[t] = before[t] \ (S \cap Elements(queue[w]))
  BY DEF Purge, DeleteTasks
<1>9. \A v \in Worker : Elements(queue'[v]) \subseteq Elements(queue[v])
  BY <1>3, <1>6
<1> QED BY <1>1, <1>3, <1>4, <1>5, <1>6, <1>7, <1>8, <1>9

\* A purge deletes nothing that it was not asked to delete.
LEMMA PurgeSpares ==
    ASSUME NEW w, NEW S, Purge(w, S)
    PROVE  \A t \in Task : obj'[t] = obj[t] \/ (t \in S /\ obj'[t] = NoManaged)
  BY DEF Purge, DeleteTasks

\* ~Managed(), when the object ever had a task and when it had none.
LEMMA DestroyPurges ==
    ASSUME TypeOK, NEW o \in Managed, Destroy(o)
    PROVE  /\ alive' = alive \ {o} /\ owner' = owner
           /\ owner.pc \in {"idle", "stopped"}
           /\ \/ workerOf[o] \in Worker /\ Purge(workerOf[o], Pending(o))
              \/ workerOf[o] = NoWorker /\ UNCHANGED <<queue, obj, before>>
  BY DEF Destroy, TypeOK

\* stopAll() deletes what a worker has left.
LEMMA JoinPurges ==
    ASSUME TypeOK, OwnerInv, JoinWorker
    PROVE  /\ owner.pc = "join" /\ owner.worker \in Worker
           /\ owner'.pc \in {"join", "stopped"}
           /\ Purge(owner.worker, Task)
<1>1. owner.pc = "join" /\ Purge(owner.worker, Task)
  BY DEF JoinWorker
<1>2. owner.worker \in Worker
  BY <1>1, PoolAssumption DEF OwnerInv, TypeOK, Worker
<1>3. owner'.pc \in {"join", "stopped"}
  BY <1>1 DEF JoinWorker, NextWorker, OwnerAt, TypeOK
<1> QED BY <1>1, <1>2, <1>3

\* readMessage() by a worker that finds a task.
LEMMA ReadTakes ==
    ASSUME TypeOK, NEW w \in Worker, Read(w), queue[w] # <<>>
    PROVE  /\ pc[w] = "read"
           /\ queue' \in [Worker -> Seq(Task)]
           /\ queue'[w] = Tail(queue[w])
           /\ \A v \in Worker \ {w} : queue'[v] = queue[v]
           /\ cur' = [cur EXCEPT ![w] = Head(queue[w])]
           /\ Head(queue[w]) \in Task
           /\ Elements(queue[w]) = {Head(queue[w])} \cup Elements(queue'[w])
           /\ NoDuplicates(queue[w]) =>
                /\ NoDuplicates(queue'[w])
                /\ Head(queue[w]) \notin Elements(queue'[w])
           /\ pc' = [pc EXCEPT ![w] = "lockTasks"]
           /\ UNCHANGED <<workerVars, obj, managedVars, owner, before>>
<1>1. queue[w] \in Seq(Task)
  BY DEF TypeOK
<1>2. /\ pc[w] = "read" /\ pc' = [pc EXCEPT ![w] = "lockTasks"]
      /\ cur' = [cur EXCEPT ![w] = Head(queue[w])]
      /\ queue' = [queue EXCEPT ![w] = Tail(@)]
      /\ UNCHANGED <<workerVars, obj, managedVars, owner, before>>
  BY DEF Read
<1>3. /\ Head(queue[w]) \in Task /\ Tail(queue[w]) \in Seq(Task)
      /\ Elements(queue[w]) = {Head(queue[w])} \cup Elements(Tail(queue[w]))
      /\ NoDuplicates(queue[w]) =>
            /\ NoDuplicates(Tail(queue[w]))
            /\ Head(queue[w]) \notin Elements(Tail(queue[w]))
  BY <1>1, HeadAndTail
<1>4. /\ queue' \in [Worker -> Seq(Task)] /\ queue'[w] = Tail(queue[w])
      /\ \A v \in Worker \ {w} : queue'[v] = queue[v]
  BY <1>2, <1>3 DEF TypeOK
<1> QED BY <1>2, <1>3, <1>4

\* ... and by one that finds none.
LEMMA ReadNothing ==
    ASSUME NEW w \in Worker, Read(w), queue[w] = <<>>
    PROVE  /\ pc[w] = "read"
           /\ pc' = [pc EXCEPT ![w] = "loop"]
           /\ UNCHANGED <<workerVars, queue, cur, obj, managedVars, owner,
                          before>>
  BY DEF Read

\* A worker that has a task has counted it.
LEMMA Counted ==
    ASSUME IInv, NEW t \in Task, obj[t] \in alive
    PROVE  /\ IsFiniteSet(Pending(obj[t]))
           /\ Cardinality(Pending(obj[t])) \in Nat
           /\ Cardinality(Pending(obj[t])) >= 1
           /\ taskQueued[obj[t]] >= 1
<1>1. IsFiniteSet(Pending(obj[t]))
  <2>1. Pending(obj[t]) \subseteq Task
    BY DEF Pending
  <2> QED BY <2>1, TaskAssumption, FS_Subset
<1>2. t \in Pending(obj[t])
  BY DEF Pending
<1>3. Cardinality(Pending(obj[t])) \in Nat
  BY <1>1, FS_CardinalityType
<1>4. Cardinality(Pending(obj[t])) # 0
  BY <1>1, <1>2, FS_EmptySet
<1>5. taskQueued[obj[t]] \in Nat
  BY DEF IInv, TypeOK
<1>6. taskQueued[obj[t]] >= Cardinality(Pending(obj[t]))
  BY DEF IInv, CountInv
<1> QED BY <1>1, <1>3, <1>4, <1>5, <1>6

\* A purge deletes no task that a worker has dequeued.
LEMMA PurgeSparesHands ==
    ASSUME IInv, NEW w \in Worker, NEW S \in SUBSET Task, Purge(w, S)
    PROVE  \A v \in Worker : cur[v] # NoTask =>
              cur[v] \in Task /\ obj'[cur[v]] = obj[cur[v]]
<1> SUFFICES ASSUME NEW v \in Worker, cur[v] # NoTask
             PROVE  cur[v] \in Task /\ obj'[cur[v]] = obj[cur[v]]
  OBVIOUS
<1>1. TypeOK /\ PlaceInv
  BY DEF IInv
<1>2. cur[v] \in Task
  BY <1>1 DEF TypeOK
<1>3. cur[v] \notin Elements(queue[w])
  BY <1>1 DEF PlaceInv
<1> QED BY <1>1, <1>2, <1>3, PurgeKeeps

\* stopAll() turns to the next worker, or to its next loop.
LEMMA NextWorkerIs ==
    ASSUME TypeOK, owner.worker \in Worker, NEW q \in {"join", "stopped"},
           NextWorker(q)
    PROVE  /\ owner' \in [pc : {"idle", "post", "signal", "sync", "stop",
                                "join", "stopped"},
                          obj : Managed \cup {NoManaged},
                          task : Task \cup {NoTask},
                          worker : Worker \cup {NoWorker}]
           /\ \/ /\ owner.worker < count
                 /\ owner'.pc = owner.pc /\ owner'.worker = owner.worker + 1
              \/ /\ owner.worker >= count
                 /\ owner'.pc = q
                 /\ q = "join" => owner'.worker = 1
<1>1. PoolSize \in Nat /\ count \in 1..PoolSize /\ owner.worker \in 1..PoolSize
  BY PoolAssumption DEF TypeOK, Worker
<1>2. CASE owner.worker < count
  <2>1. owner' = [owner EXCEPT !.worker = @ + 1]
    BY <1>2 DEF NextWorker
  <2>2. owner.worker + 1 \in Worker
    BY <1>1, <1>2 DEF Worker
  <2> QED BY <1>2, <2>1, <2>2 DEF TypeOK
<1>3. CASE owner.worker >= count
  <2>1. owner' = OwnerAt(q, NoManaged, NoTask,
                         IF q = "join" THEN 1 ELSE NoWorker)
    BY <1>1, <1>3 DEF NextWorker
  <2>2. 1 \in Worker
    BY <1>1 DEF Worker
  <2> QED BY <1>3, <2>1, <2>2 DEF OwnerAt
<1> QED BY <1>1, <1>2, <1>3
-----------------------------------------------------------------------------
(* Each conjunct of IInv is preserved by every step. *)

\* Every variable keeps its type.
LEMMA TypeOKStep ==
    ASSUME IInv, [Next]_vars
    PROVE  TypeOK'
<1> USE DEF workerVars, managedVars, NoWorker
<1>1. ASSUME NEW n \in 1..PoolSize, CreateWorker(n) PROVE TypeOK'
  <2>1. count + ActualCount(n) \in 1..PoolSize
    BY <1>1, PoolAssumption DEF CreateWorker, ActualCount, IInv, TypeOK
  <2> QED BY <1>1, <2>1 DEF CreateWorker, IInv, TypeOK
<1>2. ASSUME NEW o \in Managed, NEW t \in Task, NEW w \in Worker,
            AddTask(o, t, w)
      PROVE  TypeOK'
  BY <1>2, PoolAssumption, NamesAssumption
     DEF AddTask, WorkersFor, OwnerAt, Pending, IInv, TypeOK, OwnerInv, Thread,
         Worker
<1>3. CASE PostTask
  <2>1. owner.worker \in Worker /\ owner.task \in Task
    BY <1>3 DEF PostTask, IInv, OwnerInv
  <2>2. Append(queue[owner.worker], owner.task) \in Seq(Task)
    BY <2>1, Appended DEF IInv, TypeOK
  <2> QED BY <1>3, <2>1, <2>2 DEF PostTask, IInv, TypeOK
<1>4. CASE SignalWorker
  BY <1>4, PoolAssumption, NamesAssumption
     DEF SignalWorker, Woken, OwnerIdle, OwnerAt, IInv, TypeOK, OwnerInv,
         Thread, Worker
<1>5. ASSUME NEW o \in Managed, BeginSync(o) PROVE TypeOK'
  BY <1>5, PoolAssumption, NamesAssumption
     DEF BeginSync, Unlocked, OwnerAt, IInv, TypeOK, OwnerInv, Thread, Worker
<1>6. CASE EndSync
  BY <1>6, PoolAssumption, NamesAssumption
     DEF EndSync, OwnerIdle, OwnerAt, IInv, TypeOK, OwnerInv, Thread, Worker
<1>7. ASSUME NEW o \in Managed, Destroy(o) PROVE TypeOK'
  <2>1. TypeOK
    BY DEF IInv
  <2>2. /\ alive' = alive \ {o} /\ owner' = owner
        /\ owner.pc \in {"idle", "stopped"}
        /\ UNCHANGED <<workerVars, pc, cur, workerOf, taskQueued, tasksLock>>
    BY <1>7, <2>1, DestroyPurges DEF Destroy
  <2>3. CASE workerOf[o] \in Worker /\ Purge(workerOf[o], Pending(o))
    <3>1. Pending(o) \in SUBSET Task
      BY DEF Pending
    <3> QED BY <2>1, <2>2, <2>3, <3>1, PurgeKeeps DEF IInv, TypeOK, OwnerInv,
          Thread, Worker
  <2>4. CASE workerOf[o] = NoWorker /\ UNCHANGED <<queue, obj, before>>
    BY <2>2, <2>4 DEF IInv, TypeOK, OwnerInv, Thread, Worker
  <2> QED BY <1>7, <2>1, <2>3, <2>4, DestroyPurges
<1>8. CASE StopAll
  BY <1>8, PoolAssumption, NamesAssumption
     DEF StopAll, OwnerAt, IInv, TypeOK, OwnerInv, Thread, Worker
<1>9. CASE StopWorker
  <2>1. owner.worker \in Worker
    BY <1>9, PoolAssumption DEF StopWorker, IInv, OwnerInv, TypeOK, Worker
  <2>2. owner' \in [pc : {"idle", "post", "signal", "sync", "stop", "join",
                         "stopped"},
                   obj : Managed \cup {NoManaged}, task : Task \cup {NoTask},
                   worker : Worker \cup {NoWorker}]
    BY <1>9, <2>1, NextWorkerIs DEF StopWorker, IInv
  <2> QED BY <1>9, <2>1, <2>2 DEF StopWorker, Woken, IInv, TypeOK
<1>10. CASE JoinWorker
  <2>1. TypeOK /\ OwnerInv
    BY DEF IInv
  <2>2. owner.worker \in Worker /\ Purge(owner.worker, Task)
    BY <1>10, <2>1, JoinPurges
  <2>3. owner' \in [pc : {"idle", "post", "signal", "sync", "stop", "join",
                         "stopped"},
                   obj : Managed \cup {NoManaged}, task : Task \cup {NoTask},
                   worker : Worker \cup {NoWorker}]
    BY <1>10, <2>1, <2>2, NextWorkerIs DEF JoinWorker
  <2>4. /\ queue' \in [Worker -> Seq(Task)]
        /\ obj' \in [Task -> Managed \cup {NoManaged}]
        /\ before' \in [Task -> SUBSET Task]
    BY <2>1, <2>2, PurgeKeeps
  <2> QED BY <1>10, <2>1, <2>3, <2>4 DEF JoinWorker, TypeOK
<1>11. ASSUME NEW w \in Worker, Read(w) PROVE TypeOK'
  <2>1. CASE queue[w] = <<>>
    <3>1. /\ pc' = [pc EXCEPT ![w] = "loop"]
          /\ UNCHANGED <<workerVars, queue, cur, obj, managedVars, owner,
                         before>>
      BY <1>11, <2>1, ReadNothing
    <3> QED BY <3>1 DEF IInv, TypeOK
  <2>2. CASE queue[w] # <<>>
    <3>1. TypeOK
      BY DEF IInv
    <3>2. /\ queue' \in [Worker -> Seq(Task)] /\ Head(queue[w]) \in Task
          /\ cur' = [cur EXCEPT ![w] = Head(queue[w])]
          /\ pc' = [pc EXCEPT ![w] = "lockTasks"]
          /\ UNCHANGED <<workerVars, obj, managedVars, owner, before>>
      BY <1>11, <2>2, <3>1, ReadTakes
    <3> QED BY <3>1, <3>2 DEF TypeOK
  <2> QED BY <2>1, <2>2
<1>12. ASSUME NEW w \in Worker, FinishTask(w) PROVE TypeOK'
  <2>1. cur[w] \in Task /\ obj[cur[w]] \in alive
    BY <1>12, NamesAssumption DEF FinishTask, IInv, PlaceInv, TypeOK, Busy
  <2>2. taskQueued[obj[cur[w]]] - 1 \in Nat
    BY <2>1, Counted DEF IInv, TypeOK
  <2> QED BY <1>12, <2>1, <2>2 DEF FinishTask, DeleteTasks, IInv, TypeOK
<1>13. ASSUME NEW w \in Worker,
              \/ Loop(w) \/ Lock(w) \/ Check(w) \/ Sleep(w)
              \/ SpuriousWakeup(w) \/ UseAfterFree(w)
       PROVE  TypeOK'
  <2>1. UNCHANGED <<count, stop, queue, cur, obj, managedVars, owner, before>>
    BY <1>13 DEF Loop, Lock, Check, Sleep, SpuriousWakeup, UseAfterFree
  <2>2. lock' \in [Worker -> Worker \cup {NoThread}]
    BY <1>13 DEF Loop, Lock, Check, Sleep, SpuriousWakeup, UseAfterFree, IInv,
       TypeOK
  <2>3. \E p \in {"loop", "lock", "check", "sleep", "wait", "read", "exited",
                  "undefined"} : pc' = [pc EXCEPT ![w] = p]
    BY <1>13 DEF Loop, Lock, Check, Sleep, SpuriousWakeup, UseAfterFree
  <2> QED BY <2>1, <2>2, <2>3 DEF IInv, TypeOK
<1>14. ASSUME NEW w \in Worker, LockTasks(w) \/ UnlockTasks(w)
       PROVE  TypeOK'
  <2>1. UNCHANGED <<workerVars, queue, cur, obj, workerOf, taskQueued, alive,
                    owner, before>>
    BY <1>14 DEF LockTasks, UnlockTasks
  <2>2. tasksLock' \in [Managed -> Thread]
    BY <1>14 DEF LockTasks, UnlockTasks, Thread, IInv, TypeOK
  <2>3. \E p \in {"run", "done"} : pc' = [pc EXCEPT ![w] = p]
    BY <1>14 DEF LockTasks, UnlockTasks
  <2> QED BY <2>1, <2>2, <2>3 DEF IInv, TypeOK
<1>15. CASE UNCHANGED vars
  BY <1>15 DEF vars, IInv, TypeOK, OwnerInv, Thread, Worker
<1> QED BY <1>1, <1>2, <1>3, <1>4, <1>5, <1>6, <1>7, <1>8, <1>9, <1>10, <1>11,
     <1>12, <1>13, <1>14, <1>15 DEF Next, OwnerStep, OwnerContinues, WorkerStep

\* The owner keeps what its call refers to.
LEMMA OwnerInvStep ==
    ASSUME IInv, [Next]_vars
    PROVE  OwnerInv'
<1> USE DEF workerVars, managedVars, NoWorker
<1>1. ASSUME NEW n \in 1..PoolSize, CreateWorker(n) PROVE OwnerInv'
  BY <1>1, PoolAssumption, NamesAssumption
     DEF CreateWorker, ActualCount, IInv, TypeOK, OwnerInv, PlaceInv
<1>2. ASSUME NEW o \in Managed, NEW t \in Task, NEW w \in Worker,
            AddTask(o, t, w)
      PROVE  OwnerInv'
  BY <1>2, PoolAssumption, NamesAssumption
     DEF AddTask, WorkersFor, OwnerAt, Pending, IInv, TypeOK, OwnerInv,
         PlaceInv
<1>3. CASE PostTask
  BY <1>3, PoolAssumption, NamesAssumption
     DEF PostTask, IInv, TypeOK, OwnerInv, PlaceInv
<1>4. CASE SignalWorker
  BY <1>4, PoolAssumption, NamesAssumption
     DEF SignalWorker, Woken, OwnerIdle, OwnerAt, IInv, TypeOK, OwnerInv,
         PlaceInv
<1>5. ASSUME NEW o \in Managed, BeginSync(o) PROVE OwnerInv'
  BY <1>5, PoolAssumption, NamesAssumption
     DEF BeginSync, Unlocked, OwnerAt, IInv, TypeOK, OwnerInv, PlaceInv
<1>6. CASE EndSync
  BY <1>6, PoolAssumption, NamesAssumption
     DEF EndSync, OwnerIdle, OwnerAt, IInv, TypeOK, OwnerInv, PlaceInv
<1>7. ASSUME NEW o \in Managed, Destroy(o) PROVE OwnerInv'
  <2>1. TypeOK
    BY DEF IInv
  <2>2. /\ alive' = alive \ {o} /\ owner' = owner
        /\ owner.pc \in {"idle", "stopped"}
        /\ UNCHANGED <<workerVars, pc, cur, workerOf, taskQueued, tasksLock>>
    BY <1>7, <2>1, DestroyPurges DEF Destroy
  <2>3. CASE workerOf[o] \in Worker /\ Purge(workerOf[o], Pending(o))
    <3>1. Pending(o) \in SUBSET Task
      BY DEF Pending
    <3> QED BY <2>1, <2>2, <2>3, <3>1, PurgeKeeps DEF OwnerInv
  <2>4. CASE workerOf[o] = NoWorker /\ UNCHANGED <<queue, obj, before>>
    BY <2>2, <2>4 DEF OwnerInv
  <2> QED BY <1>7, <2>1, <2>3, <2>4, DestroyPurges
<1>8. CASE StopAll
  BY <1>8, PoolAssumption, NamesAssumption
     DEF StopAll, OwnerAt, IInv, TypeOK, OwnerInv, PlaceInv
<1>9. CASE StopWorker
  BY <1>9, PoolAssumption, NamesAssumption
     DEF StopWorker, Woken, NextWorker, OwnerAt, IInv, TypeOK, OwnerInv,
         PlaceInv
<1>10. CASE JoinWorker
  BY <1>10, PoolAssumption, NamesAssumption
     DEF JoinWorker, Terminated, Purge, DeleteTasks, NextWorker, OwnerAt, IInv,
         TypeOK, OwnerInv, PlaceInv
<1>11. ASSUME NEW w \in Worker,
              \/ Loop(w) \/ Lock(w) \/ Check(w) \/ Sleep(w)
              \/ SpuriousWakeup(w) \/ Read(w) \/ LockTasks(w)
              \/ UnlockTasks(w) \/ FinishTask(w) \/ UseAfterFree(w)
       PROVE  OwnerInv'
  BY <1>11, PoolAssumption, NamesAssumption DEF Loop, IInv, TypeOK, OwnerInv,
     PlaceInv, Lock, Check, Sleep, SpuriousWakeup, Read, LockTasks, Unlocked,
     UnlockTasks, FinishTask, DeleteTasks, UseAfterFree
<1>12. CASE UNCHANGED vars
  BY <1>12 DEF vars, IInv, TypeOK, OwnerInv, PlaceInv
<1> QED BY <1>1, <1>2, <1>3, <1>4, <1>5, <1>6, <1>7, <1>8, <1>9, <1>10, <1>11,
     <1>12 DEF Next, OwnerStep, OwnerContinues, WorkerStep

\* A worker's thread is created with it, and only then.
LEMMA PoolInvStep ==
    ASSUME IInv, [Next]_vars
    PROVE  PoolInv'
<1> USE DEF workerVars, managedVars, NoWorker
<1>1. ASSUME NEW n \in 1..PoolSize, CreateWorker(n) PROVE PoolInv'
  BY <1>1, PoolAssumption DEF CreateWorker, ActualCount, Worker, IInv, TypeOK,
       PoolInv
<1>2. ASSUME NEW o \in Managed, NEW t \in Task, NEW w \in Worker,
            AddTask(o, t, w)
      PROVE  PoolInv'
  BY <1>2, PoolAssumption, NamesAssumption
     DEF AddTask, WorkersFor, OwnerAt, Pending, IInv, TypeOK, PoolInv
<1>3. CASE PostTask
  BY <1>3, PoolAssumption, NamesAssumption
     DEF PostTask, IInv, TypeOK, PoolInv
<1>4. CASE SignalWorker
  BY <1>4, PoolAssumption, NamesAssumption
     DEF SignalWorker, Woken, OwnerIdle, OwnerAt, IInv, TypeOK, PoolInv
<1>5. ASSUME NEW o \in Managed, BeginSync(o) PROVE PoolInv'
  BY <1>5, PoolAssumption, NamesAssumption
     DEF BeginSync, Unlocked, OwnerAt, IInv, TypeOK, PoolInv
<1>6. CASE EndSync
  BY <1>6, PoolAssumption, NamesAssumption
     DEF EndSync, OwnerIdle, OwnerAt, IInv, TypeOK, PoolInv
<1>7. ASSUME NEW o \in Managed, Destroy(o) PROVE PoolInv'
  BY <1>7 DEF Destroy, PoolInv, IInv
<1>8. CASE StopAll
  BY <1>8, PoolAssumption, NamesAssumption
     DEF StopAll, OwnerAt, IInv, TypeOK, PoolInv
<1>9. CASE StopWorker
  BY <1>9 DEF StopWorker, Woken, IInv, TypeOK, PoolInv
<1>10. CASE JoinWorker
  BY <1>10 DEF JoinWorker, PoolInv, IInv
<1>11. ASSUME NEW w \in Worker,
              \/ Loop(w) \/ Lock(w) \/ Check(w) \/ Sleep(w)
              \/ SpuriousWakeup(w) \/ Read(w) \/ LockTasks(w)
              \/ UnlockTasks(w) \/ FinishTask(w) \/ UseAfterFree(w)
       PROVE  PoolInv'
  BY <1>11, PoolAssumption, NamesAssumption DEF Loop, IInv, TypeOK, PoolInv,
     Lock, Check, Sleep, SpuriousWakeup, Read, LockTasks, Unlocked,
     UnlockTasks, FinishTask, DeleteTasks, UseAfterFree
<1>12. CASE UNCHANGED vars
  BY <1>12 DEF vars, IInv, TypeOK, PoolInv
<1> QED BY <1>1, <1>2, <1>3, <1>4, <1>5, <1>6, <1>7, <1>8, <1>9, <1>10, <1>11,
     <1>12 DEF Next, OwnerStep, OwnerContinues, WorkerStep

\* Nobody gives a worker a message or a stop between its look and its sleep.
LEMMA SleepInvStep ==
    ASSUME IInv, [Next]_vars
    PROVE  SleepInv'
<1> USE DEF workerVars, managedVars, NoWorker
<1>1. ASSUME NEW n \in 1..PoolSize, CreateWorker(n) PROVE SleepInv'
  BY <1>1, PoolAssumption, NamesAssumption
     DEF CreateWorker, ActualCount, IInv, TypeOK, OwnerInv, SleepInv
<1>2. ASSUME NEW o \in Managed, NEW t \in Task, NEW w \in Worker,
            AddTask(o, t, w)
      PROVE  SleepInv'
  BY <1>2, PoolAssumption, NamesAssumption
     DEF AddTask, WorkersFor, OwnerAt, Pending, IInv, TypeOK, OwnerInv,
         SleepInv
<1>3. CASE PostTask
  BY <1>3, PoolAssumption, NamesAssumption
     DEF PostTask, IInv, TypeOK, OwnerInv, SleepInv
<1>4. CASE SignalWorker
  <2>1. owner.pc = "signal" /\ lock[owner.worker] = NoThread
        /\ owner.worker \in Worker
    BY <1>4 DEF SignalWorker, IInv, OwnerInv
  <2>2. pc[owner.worker] \notin {"check", "sleep"}
    BY <2>1, NamesAssumption DEF IInv, SleepInv, Worker
  <2>3. \A v \in Worker : v # owner.worker => pc'[v] = pc[v]
    BY <1>4 DEF SignalWorker, IInv, TypeOK
  <2>4. pc'[owner.worker] \notin {"check", "sleep", "wait"}
    BY <1>4, <2>1, <2>2 DEF SignalWorker, Woken, IInv, TypeOK
  <2>5. UNCHANGED <<stop, lock, queue>>
    BY <1>4 DEF SignalWorker
  <2> QED BY <2>1, <2>3, <2>4, <2>5 DEF IInv, SleepInv
<1>5. ASSUME NEW o \in Managed, BeginSync(o) PROVE SleepInv'
  BY <1>5, PoolAssumption, NamesAssumption
     DEF BeginSync, Unlocked, OwnerAt, IInv, TypeOK, OwnerInv, SleepInv
<1>6. CASE EndSync
  BY <1>6, PoolAssumption, NamesAssumption
     DEF EndSync, OwnerIdle, OwnerAt, IInv, TypeOK, OwnerInv, SleepInv
<1>7. ASSUME NEW o \in Managed, Destroy(o) PROVE SleepInv'
  <2>1. TypeOK
    BY DEF IInv
  <2>2. /\ alive' = alive \ {o} /\ owner' = owner
        /\ owner.pc \in {"idle", "stopped"}
        /\ UNCHANGED <<workerVars, pc, cur, workerOf, taskQueued, tasksLock>>
    BY <1>7, <2>1, DestroyPurges DEF Destroy
  <2>3. CASE workerOf[o] \in Worker /\ Purge(workerOf[o], Pending(o))
    <3>1. Pending(o) \in SUBSET Task
      BY DEF Pending
    <3> QED BY <2>1, <2>2, <2>3, <3>1, PurgeKeeps DEF IInv, TypeOK, OwnerInv,
          SleepInv
  <2>4. CASE workerOf[o] = NoWorker /\ UNCHANGED <<queue, obj, before>>
    BY <2>2, <2>4 DEF IInv, TypeOK, OwnerInv, SleepInv
  <2> QED BY <1>7, <2>1, <2>3, <2>4, DestroyPurges
<1>8. CASE StopAll
  BY <1>8, PoolAssumption, NamesAssumption
     DEF StopAll, OwnerAt, IInv, TypeOK, OwnerInv, SleepInv
<1>9. CASE StopWorker
  BY <1>9, PoolAssumption, NamesAssumption
     DEF StopWorker, Woken, NextWorker, OwnerAt, IInv, TypeOK, OwnerInv,
         SleepInv
<1>10. CASE JoinWorker
  <2>1. TypeOK /\ OwnerInv
    BY DEF IInv
  <2>2. /\ owner.pc = "join" /\ owner.worker \in Worker
        /\ owner'.pc \in {"join", "stopped"}
        /\ Purge(owner.worker, Task)
        /\ UNCHANGED <<workerVars, pc, cur, managedVars>>
    BY <1>10, <2>1, JoinPurges DEF JoinWorker
  <2> QED BY <1>10, <2>1, <2>2, PurgeKeeps DEF IInv, TypeOK, OwnerInv, SleepInv
<1>11. ASSUME NEW w \in Worker, Read(w) PROVE SleepInv'
  <2>1. CASE queue[w] = <<>>
    <3>1. /\ pc' = [pc EXCEPT ![w] = "loop"] /\ pc[w] = "read"
          /\ UNCHANGED <<workerVars, queue, cur, obj, managedVars, owner,
                         before>>
      BY <1>11, <2>1, ReadNothing
    <3> QED BY <3>1 DEF IInv, TypeOK, OwnerInv, SleepInv
  <2>2. CASE queue[w] # <<>>
    <3>1. TypeOK
      BY DEF IInv
    <3> QED BY <1>11, <2>2, <3>1, ReadTakes DEF IInv, TypeOK, OwnerInv,
          SleepInv
  <2> QED BY <2>1, <2>2
<1>12. ASSUME NEW w \in Worker,
              \/ Loop(w) \/ Lock(w) \/ Check(w) \/ Sleep(w)
              \/ SpuriousWakeup(w) \/ LockTasks(w) \/ UnlockTasks(w)
              \/ FinishTask(w) \/ UseAfterFree(w)
       PROVE  SleepInv'
  BY <1>12, PoolAssumption, NamesAssumption DEF Loop, IInv, TypeOK, OwnerInv,
     SleepInv, Lock, Check, Sleep, SpuriousWakeup, LockTasks, Unlocked,
     UnlockTasks, FinishTask, DeleteTasks, UseAfterFree
<1>13. CASE UNCHANGED vars
  BY <1>13 DEF vars, IInv, TypeOK, OwnerInv, SleepInv
<1> QED BY <1>1, <1>2, <1>3, <1>4, <1>5, <1>6, <1>7, <1>8, <1>9, <1>10, <1>11,
     <1>12, <1>13 DEF Next, OwnerStep, OwnerContinues, WorkerStep

\* An object's mutex stays with whoever is inside.
LEMMA MutexInvStep ==
    ASSUME IInv, [Next]_vars
    PROVE  MutexInv'
<1> USE DEF workerVars, managedVars, NoWorker
<1>1. ASSUME NEW n \in 1..PoolSize, CreateWorker(n) PROVE MutexInv'
  BY <1>1, PoolAssumption, NamesAssumption
     DEF CreateWorker, ActualCount, IInv, TypeOK, OwnerInv, MutexInv, PlaceInv,
         Busy
<1>2. ASSUME NEW o \in Managed, NEW t \in Task, NEW w \in Worker,
            AddTask(o, t, w)
      PROVE  MutexInv'
  BY <1>2, PoolAssumption, NamesAssumption
     DEF AddTask, WorkersFor, OwnerAt, Pending, IInv, TypeOK, OwnerInv,
         MutexInv, PlaceInv, Busy
<1>3. CASE PostTask
  BY <1>3, PoolAssumption, NamesAssumption
     DEF PostTask, IInv, TypeOK, OwnerInv, MutexInv, PlaceInv, Busy
<1>4. CASE SignalWorker
  <2>1. \A w \in Worker : pc'[w] = "run" => pc[w] = "run"
    BY <1>4 DEF SignalWorker, Woken, IInv, TypeOK
  <2>2. owner'.pc = "idle" /\ UNCHANGED <<obj, cur, tasksLock>>
    BY <1>4 DEF SignalWorker, OwnerIdle, OwnerAt
  <2> QED BY <2>1, <2>2 DEF IInv, MutexInv
<1>5. ASSUME NEW o \in Managed, BeginSync(o) PROVE MutexInv'
  <2>1. tasksLock[o] = NoThread /\ tasksLock' = [tasksLock EXCEPT ![o] = Owner]
    BY <1>5 DEF BeginSync, Unlocked
  <2>2. owner'.obj = o /\ tasksLock'[o] = Owner
    BY <1>5, <2>1 DEF BeginSync, OwnerAt, IInv, TypeOK
  <2>3. \A w \in Worker : pc[w] = "run" => obj[cur[w]] # o
    BY <2>1, NamesAssumption DEF IInv, MutexInv, Worker
  <2>4. UNCHANGED <<pc, cur, obj>>
    BY <1>5 DEF BeginSync
  <2>5. \A p \in Managed : p # o => tasksLock'[p] = tasksLock[p]
    BY <2>1 DEF IInv, TypeOK
  <2>6. ASSUME NEW v \in Worker, pc'[v] = "run"
        PROVE  obj'[cur'[v]] \in Managed /\ tasksLock'[obj'[cur'[v]]] = v
    <3>1. pc[v] = "run" /\ obj'[cur'[v]] = obj[cur[v]]
      BY <2>4, <2>6
    <3>2. obj[cur[v]] \in Managed /\ tasksLock[obj[cur[v]]] = v
      BY <3>1 DEF IInv, MutexInv
    <3> QED BY <2>3, <2>5, <3>1, <3>2
  <2> QED BY <2>2, <2>6 DEF MutexInv
<1>6. CASE EndSync
  <2>1. /\ tasksLock[owner.obj] = Owner /\ owner'.pc = "idle"
        /\ tasksLock' = [tasksLock EXCEPT ![owner.obj] = NoThread]
        /\ UNCHANGED <<pc, cur, obj>>
    BY <1>6 DEF EndSync, OwnerIdle, OwnerAt, IInv, MutexInv
  <2>2. ASSUME NEW v \in Worker, pc[v] = "run"
        PROVE  /\ obj[cur[v]] \in Managed /\ tasksLock[obj[cur[v]]] = v
               /\ obj[cur[v]] # owner.obj
    BY <2>1, <2>2, NamesAssumption DEF IInv, MutexInv, Worker
  <2>3. \A p \in Managed : p # owner.obj => tasksLock'[p] = tasksLock[p]
    BY <2>1 DEF IInv, TypeOK
  <2> QED BY <2>1, <2>2, <2>3 DEF MutexInv
<1>7. ASSUME NEW o \in Managed, Destroy(o) PROVE MutexInv'
  <2>1. TypeOK /\ PlaceInv /\ MutexInv
    BY DEF IInv
  <2>2. UNCHANGED <<pc, cur, tasksLock, owner>>
    BY <1>7 DEF Destroy
  <2>3. \A v \in Worker : cur[v] # NoTask => obj'[cur[v]] = obj[cur[v]]
    <3>1. CASE workerOf[o] \in Worker /\ Purge(workerOf[o], Pending(o))
      <4>1. Pending(o) \in SUBSET Task
        BY DEF Pending
      <4> QED BY <3>1, <4>1, PurgeSparesHands
    <3>2. CASE UNCHANGED obj
      BY <3>2, <2>2
    <3> QED BY <1>7, <2>1, <3>1, <3>2, DestroyPurges
  <2> QED BY <2>1, <2>2, <2>3 DEF MutexInv, PlaceInv, Busy
<1>8. CASE StopAll
  BY <1>8, PoolAssumption, NamesAssumption
     DEF StopAll, OwnerAt, IInv, TypeOK, OwnerInv, MutexInv, PlaceInv, Busy
<1>9. CASE StopWorker
  BY <1>9, PoolAssumption, NamesAssumption
     DEF StopWorker, Woken, NextWorker, OwnerAt, IInv, TypeOK, OwnerInv,
         MutexInv, PlaceInv, Busy
<1>10. CASE JoinWorker
  <2>1. TypeOK /\ OwnerInv /\ PlaceInv /\ MutexInv
    BY DEF IInv
  <2>2. owner'.pc # "sync" /\ UNCHANGED <<pc, cur, tasksLock>>
    BY <1>10, <2>1, JoinPurges DEF JoinWorker
  <2>3. \A v \in Worker : cur[v] # NoTask => obj'[cur[v]] = obj[cur[v]]
    BY <1>10, <2>1, JoinPurges, PurgeSparesHands
  <2> QED BY <2>1, <2>2, <2>3 DEF MutexInv, PlaceInv, Busy
<1>11. ASSUME NEW w \in Worker, Read(w) PROVE MutexInv'
  <2>1. pc[w] = "read" /\ pc' \in {[pc EXCEPT ![w] = "loop"],
                                   [pc EXCEPT ![w] = "lockTasks"]}
        /\ UNCHANGED <<obj, tasksLock, owner>>
    BY <1>11 DEF Read
  <2>2. \A v \in Worker : pc'[v] = "run" => pc[v] = "run" /\ cur'[v] = cur[v]
    BY <1>11, <2>1 DEF Read, IInv, TypeOK
  <2> QED BY <2>1, <2>2 DEF IInv, MutexInv
<1>12. ASSUME NEW w \in Worker, LockTasks(w) PROVE MutexInv'
  <2>1. /\ tasksLock[obj[cur[w]]] = NoThread /\ obj[cur[w]] \in Managed
        /\ tasksLock' = [tasksLock EXCEPT ![obj[cur[w]]] = w]
        /\ pc' = [pc EXCEPT ![w] = "run"]
        /\ UNCHANGED <<cur, obj, owner>>
    BY <1>12 DEF LockTasks, Unlocked, IInv, TypeOK
  <2>2. \A v \in Worker : pc[v] = "run" => obj[cur[v]] # obj[cur[w]]
    BY <2>1, NamesAssumption DEF IInv, MutexInv, Worker
  <2>3. owner.pc = "sync" => owner.obj # obj[cur[w]]
    BY <2>1, NamesAssumption DEF IInv, MutexInv
  <2>4. /\ tasksLock'[obj[cur[w]]] = w
        /\ \A p \in Managed : p # obj[cur[w]] => tasksLock'[p] = tasksLock[p]
        /\ \A v \in Worker : v # w => pc'[v] = pc[v]
    BY <2>1 DEF IInv, TypeOK
  <2>5. owner.pc = "sync" => owner.obj \in Managed
    BY DEF IInv, OwnerInv, TypeOK
  <2>6. owner'.pc = "sync" => tasksLock'[owner'.obj] = Owner
    BY <2>1, <2>3, <2>4, <2>5 DEF IInv, MutexInv
  <2>7. ASSUME NEW v \in Worker, pc'[v] = "run"
        PROVE  obj'[cur'[v]] \in Managed /\ tasksLock'[obj'[cur'[v]]] = v
    <3>1. obj'[cur'[v]] = obj[cur[v]]
      BY <2>1
    <3>2. CASE v = w
      BY <2>1, <2>4, <3>1, <3>2
    <3>3. CASE v # w
      <4>1. pc[v] = "run"
        BY <2>4, <2>7, <3>3
      <4>2. obj[cur[v]] \in Managed /\ tasksLock[obj[cur[v]]] = v
        BY <4>1 DEF IInv, MutexInv
      <4> QED BY <2>2, <2>4, <3>1, <4>1, <4>2
    <3> QED BY <3>2, <3>3
  <2> QED BY <2>6, <2>7 DEF MutexInv
<1>13. ASSUME NEW w \in Worker, UnlockTasks(w) PROVE MutexInv'
  <2>1. /\ pc[w] = "run" /\ pc' = [pc EXCEPT ![w] = "done"]
        /\ tasksLock' = [tasksLock EXCEPT ![obj[cur[w]]] = NoThread]
        /\ UNCHANGED <<cur, obj, owner>>
    BY <1>13 DEF UnlockTasks
  <2>2. tasksLock[obj[cur[w]]] = w
    BY <2>1 DEF IInv, MutexInv
  <2>3. owner.pc = "sync" => owner.obj \in Managed /\ owner.obj # obj[cur[w]]
    BY <2>2, NamesAssumption DEF IInv, MutexInv, OwnerInv, TypeOK, Worker
  <2>4. ASSUME NEW v \in Worker, pc'[v] = "run"
        PROVE  /\ obj[cur[v]] \in Managed /\ tasksLock[obj[cur[v]]] = v
               /\ obj[cur[v]] # obj[cur[w]]
    <3>1. v # w /\ pc[v] = "run"
      BY <2>1, <2>4 DEF IInv, TypeOK
    <3> QED BY <2>2, <3>1 DEF IInv, MutexInv
  <2>5. \A p \in Managed : p # obj[cur[w]] => tasksLock'[p] = tasksLock[p]
    BY <2>1 DEF IInv, TypeOK
  <2>6. owner.pc = "sync" => tasksLock'[owner.obj] = Owner
    BY <2>3, <2>5 DEF IInv, MutexInv
  <2> QED BY <2>1, <2>4, <2>5, <2>6 DEF MutexInv
<1>14. ASSUME NEW w \in Worker,
              \/ Loop(w) \/ Lock(w) \/ Check(w) \/ Sleep(w)
              \/ SpuriousWakeup(w) \/ FinishTask(w) \/ UseAfterFree(w)
       PROVE  MutexInv'
  BY <1>14, PoolAssumption, NamesAssumption DEF Loop, IInv, TypeOK, OwnerInv,
     MutexInv, PlaceInv, Busy, Lock, Check, Sleep, SpuriousWakeup, FinishTask,
     DeleteTasks, UseAfterFree
<1>15. CASE UNCHANGED vars
  BY <1>15 DEF vars, IInv, TypeOK, OwnerInv, MutexInv, PlaceInv, Busy
<1> QED BY <1>1, <1>2, <1>3, <1>4, <1>5, <1>6, <1>7, <1>8, <1>9, <1>10, <1>11,
     <1>12, <1>13, <1>14, <1>15 DEF Next, OwnerStep, OwnerContinues, WorkerStep

\* An object that is deleted with care has no task in a worker's hands.
LEMMA AliveInvStep ==
    ASSUME IInv, [Next]_vars
    PROVE  AliveInv'
<1> USE DEF workerVars, managedVars, NoWorker
<1>1. ASSUME NEW n \in 1..PoolSize, CreateWorker(n) PROVE AliveInv'
  BY <1>1, PoolAssumption, NamesAssumption
     DEF CreateWorker, ActualCount, IInv, TypeOK, AliveInv, PlaceInv, Busy
<1>2. ASSUME NEW o \in Managed, NEW t \in Task, NEW w \in Worker,
            AddTask(o, t, w)
      PROVE  AliveInv'
  BY <1>2, PoolAssumption, NamesAssumption
     DEF AddTask, WorkersFor, OwnerAt, Pending, IInv, TypeOK, AliveInv,
         PlaceInv, Busy
<1>3. CASE PostTask
  BY <1>3, PoolAssumption, NamesAssumption
     DEF PostTask, IInv, TypeOK, AliveInv, PlaceInv, Busy
<1>4. CASE SignalWorker
  BY <1>4, PoolAssumption, NamesAssumption
     DEF SignalWorker, Woken, OwnerIdle, OwnerAt, IInv, TypeOK, AliveInv,
         PlaceInv, Busy
<1>5. ASSUME NEW o \in Managed, BeginSync(o) PROVE AliveInv'
  BY <1>5, PoolAssumption, NamesAssumption
     DEF BeginSync, Unlocked, OwnerAt, IInv, TypeOK, AliveInv, PlaceInv, Busy
<1>6. CASE EndSync
  BY <1>6, PoolAssumption, NamesAssumption
     DEF EndSync, OwnerIdle, OwnerAt, IInv, TypeOK, AliveInv, PlaceInv, Busy
<1>7. ASSUME NEW o \in Managed, Destroy(o) PROVE AliveInv'
  <2>1. TypeOK /\ PlaceInv /\ AliveInv
    BY DEF IInv
  <2>2. alive' = alive \ {o} /\ MayDestroy(o) /\ UNCHANGED <<pc, cur>>
    BY <1>7 DEF Destroy
  <2>3. \A v \in Worker : cur[v] # NoTask => obj'[cur[v]] = obj[cur[v]]
    <3>1. CASE workerOf[o] \in Worker /\ Purge(workerOf[o], Pending(o))
      <4>1. Pending(o) \in SUBSET Task
        BY DEF Pending
      <4> QED BY <3>1, <4>1, PurgeSparesHands
    <3>2. CASE UNCHANGED obj
      BY <3>2, <2>2
    <3> QED BY <1>7, <2>1, <3>1, <3>2, DestroyPurges
  <2>4. ASSUME NEW v \in Worker, cur[v] # NoTask, obj[cur[v]] \in Careful
        PROVE  obj[cur[v]] # o
    <3>1. cur[v] \in Task /\ obj[cur[v]] \in alive
      BY <2>1, <2>4 DEF AliveInv, TypeOK
    <3>2. taskQueued[obj[cur[v]]] >= 1
      BY <3>1, Counted
    <3> QED BY <2>2, <2>4, <3>2 DEF MayDestroy
  <2> QED BY <2>1, <2>2, <2>3, <2>4 DEF AliveInv
<1>8. CASE StopAll
  BY <1>8, PoolAssumption, NamesAssumption
     DEF StopAll, OwnerAt, IInv, TypeOK, AliveInv, PlaceInv, Busy
<1>9. CASE StopWorker
  BY <1>9, PoolAssumption, NamesAssumption
     DEF StopWorker, Woken, NextWorker, OwnerAt, IInv, TypeOK, AliveInv,
         PlaceInv, Busy
<1>10. CASE JoinWorker
  <2>1. TypeOK /\ OwnerInv /\ AliveInv
    BY DEF IInv
  <2>2. UNCHANGED <<pc, cur, alive>>
    BY <1>10 DEF JoinWorker
  <2>3. \A v \in Worker : cur[v] # NoTask => obj'[cur[v]] = obj[cur[v]]
    BY <1>10, <2>1, JoinPurges, PurgeSparesHands
  <2> QED BY <2>1, <2>2, <2>3 DEF AliveInv
<1>11. ASSUME NEW w \in Worker, Read(w) PROVE AliveInv'
  <2>1. TypeOK /\ PlaceInv /\ AliveInv
    BY DEF IInv
  <2>2. CASE queue[w] = <<>>
    BY <1>11, <2>1, <2>2, ReadNothing DEF TypeOK, AliveInv
  <2>3. CASE queue[w] # <<>>
    <3>1. /\ pc' = [pc EXCEPT ![w] = "lockTasks"]
          /\ cur' = [cur EXCEPT ![w] = Head(queue[w])]
          /\ Head(queue[w]) \in Elements(queue[w])
          /\ UNCHANGED <<obj, alive>>
      BY <1>11, <2>1, <2>3, ReadTakes
    <3>2. obj[cur'[w]] \in alive /\ pc'[w] # "undefined"
      BY <2>1, <3>1 DEF PlaceInv, TypeOK
    <3>3. \A v \in Worker \ {w} : cur'[v] = cur[v] /\ pc'[v] = pc[v]
      BY <2>1, <3>1 DEF TypeOK
    <3> QED BY <2>1, <3>1, <3>2, <3>3 DEF AliveInv
  <2> QED BY <2>2, <2>3
<1>12. ASSUME NEW w \in Worker, FinishTask(w) PROVE AliveInv'
  <2>1. TypeOK /\ PlaceInv /\ AliveInv
    BY DEF IInv
  <2>2. /\ pc[w] = "done" /\ pc' = [pc EXCEPT ![w] = "read"]
        /\ cur' = [cur EXCEPT ![w] = NoTask] /\ UNCHANGED alive
        /\ \A t \in Task : t # cur[w] => obj'[t] = obj[t]
    BY <1>12 DEF FinishTask, DeleteTasks
  <2>3. ASSUME NEW v \in Worker, v # w, cur[v] # NoTask
        PROVE  cur[v] \in Task /\ obj'[cur[v]] = obj[cur[v]]
    <3>1. cur[w] # NoTask /\ cur[w] \in Task /\ cur[v] \in Task
      BY <2>1, <2>2, <2>3 DEF PlaceInv, TypeOK, Busy
    <3>2. workerOf[obj[cur[v]]] = v /\ workerOf[obj[cur[w]]] = w
      BY <2>1, <2>3, <3>1 DEF PlaceInv
    <3> QED BY <2>2, <2>3, <3>1, <3>2
  <2> QED BY <2>1, <2>2, <2>3 DEF AliveInv, TypeOK
<1>13. ASSUME NEW w \in Worker, UseAfterFree(w) PROVE AliveInv'
  <2>1. /\ pc[w] \in Busy /\ obj[cur[w]] \notin alive
        /\ pc' = [pc EXCEPT ![w] = "undefined"] /\ UNCHANGED <<cur, obj, alive>>
    BY <1>13 DEF UseAfterFree, Busy
  <2> QED BY <2>1 DEF IInv, TypeOK, PlaceInv, AliveInv
<1>14. ASSUME NEW w \in Worker,
              \/ Loop(w) \/ Lock(w) \/ Check(w) \/ Sleep(w)
              \/ SpuriousWakeup(w) \/ LockTasks(w) \/ UnlockTasks(w)
       PROVE  AliveInv'
  <2>1. UNCHANGED <<cur, obj, alive>>
    BY <1>14 DEF Loop, Lock, Check, Sleep, SpuriousWakeup, LockTasks,
       UnlockTasks
  <2>2. \A v \in Worker : pc'[v] = "undefined" => pc[v] = "undefined"
    BY <1>14 DEF Loop, Lock, Check, Sleep, SpuriousWakeup, LockTasks,
       UnlockTasks, IInv, TypeOK
  <2> QED BY <2>1, <2>2 DEF IInv, AliveInv
<1>15. CASE UNCHANGED vars
  BY <1>15 DEF vars, IInv, TypeOK, AliveInv, PlaceInv, Busy
<1> QED BY <1>1, <1>2, <1>3, <1>4, <1>5, <1>6, <1>7, <1>8, <1>9, <1>10, <1>11,
     <1>12, <1>13, <1>14, <1>15 DEF Next, OwnerStep, OwnerContinues, WorkerStep

\* Once joined, a worker stays exited and gets no message.
LEMMA StopInvStep ==
    ASSUME IInv, [Next]_vars
    PROVE  StopInv'
<1> USE DEF workerVars, managedVars, NoWorker
<1>1. ASSUME NEW n \in 1..PoolSize, CreateWorker(n) PROVE StopInv'
  BY <1>1, PoolAssumption, NamesAssumption
     DEF CreateWorker, ActualCount, IInv, TypeOK, OwnerInv, StopInv
<1>2. ASSUME NEW o \in Managed, NEW t \in Task, NEW w \in Worker,
            AddTask(o, t, w)
      PROVE  StopInv'
  BY <1>2, PoolAssumption, NamesAssumption
     DEF AddTask, WorkersFor, OwnerAt, Pending, IInv, TypeOK, OwnerInv, StopInv
<1>3. CASE PostTask
  BY <1>3, PoolAssumption, NamesAssumption
     DEF PostTask, IInv, TypeOK, OwnerInv, StopInv
<1>4. CASE SignalWorker
  BY <1>4, PoolAssumption, NamesAssumption
     DEF SignalWorker, Woken, OwnerIdle, OwnerAt, IInv, TypeOK, OwnerInv,
         StopInv
<1>5. ASSUME NEW o \in Managed, BeginSync(o) PROVE StopInv'
  BY <1>5, PoolAssumption, NamesAssumption
     DEF BeginSync, Unlocked, OwnerAt, IInv, TypeOK, OwnerInv, StopInv
<1>6. CASE EndSync
  BY <1>6, PoolAssumption, NamesAssumption
     DEF EndSync, OwnerIdle, OwnerAt, IInv, TypeOK, OwnerInv, StopInv
<1>7. ASSUME NEW o \in Managed, Destroy(o) PROVE StopInv'
  <2>1. TypeOK /\ StopInv /\ 1..count \subseteq Worker
    BY PoolAssumption DEF IInv, TypeOK, Worker
  <2>2. /\ owner' = owner /\ owner.pc \in {"idle", "stopped"}
        /\ UNCHANGED <<count, pc>>
    BY <1>7, <2>1, DestroyPurges DEF Destroy
  <2>3. \A v \in Worker : queue[v] = <<>> => queue'[v] = <<>>
    <3>1. CASE workerOf[o] \in Worker /\ Purge(workerOf[o], Pending(o))
      <4>1. Pending(o) \in SUBSET Task
        BY DEF Pending
      <4> QED BY <2>1, <3>1, <4>1, PurgeKeeps
    <3>2. CASE UNCHANGED queue
      BY <3>2
    <3> QED BY <1>7, <2>1, <3>1, <3>2, DestroyPurges
  <2> QED BY <2>1, <2>2, <2>3 DEF StopInv
<1>8. CASE StopAll
  BY <1>8, PoolAssumption, NamesAssumption
     DEF StopAll, OwnerAt, IInv, TypeOK, OwnerInv, StopInv
<1>9. CASE StopWorker
  <2>1. owner.pc = "stop" /\ owner.worker \in 1..count /\ count \in Nat
    BY <1>9, PoolAssumption DEF StopWorker, IInv, OwnerInv, TypeOK
  <2>2. \/ owner'.pc = "stop"
        \/ owner'.pc = "join" /\ owner'.worker = 1
    <3>1. owner.worker \in Worker
      BY <2>1, PoolAssumption DEF IInv, TypeOK, Worker
    <3>2. TypeOK /\ NextWorker("join")
      BY <1>9 DEF StopWorker, IInv
    <3> QED BY <2>1, <3>1, <3>2, NextWorkerIs
  <2>3. 1..(1 - 1) = {}
    OBVIOUS
  <2> QED BY <2>2, <2>3 DEF StopInv
<1>10. CASE JoinWorker
  <2> DEFINE w == owner.worker
  <2>1. TypeOK /\ OwnerInv /\ StopInv
    BY DEF IInv
  <2>2. /\ owner.pc = "join" /\ w \in Worker /\ Purge(w, Task)
        /\ pc[w] = "exited" /\ NextWorker("stopped")
        /\ UNCHANGED <<count, pc>>
    BY <1>10, <2>1, JoinPurges DEF JoinWorker, Terminated
  <2>3. queue'[w] = <<>> /\ \A v \in Worker \ {w} : queue'[v] = queue[v]
    BY <2>1, <2>2, PurgeKeeps
  <2>4. \A v \in 1..w : pc'[v] = "exited" /\ queue'[v] = <<>>
    <3>1. 1..w \subseteq Worker /\ w \in Nat /\ \A v \in 1..w : v = w \/ v \in 1..(w - 1)
      BY <2>2, PoolAssumption DEF Worker
    <3> QED BY <2>1, <2>2, <2>3, <3>1 DEF StopInv
  <2>5. \/ owner'.pc = "join" /\ owner'.worker = w + 1
        \/ owner'.pc = "stopped" /\ w >= count
    BY <2>1, <2>2, NextWorkerIs
  <2>7. w >= count => 1..count \subseteq 1..w
    BY <2>1, <2>2, PoolAssumption DEF Worker, TypeOK
  <2>8. CASE owner'.pc = "join" /\ owner'.worker = w + 1
    <3>1. 1..(owner'.worker - 1) \subseteq 1..w
      BY <2>2, <2>8, PoolAssumption DEF Worker
    <3> QED BY <2>4, <2>8, <3>1 DEF StopInv
  <2>9. CASE owner'.pc = "stopped" /\ w >= count
    <3>1. 1..count' \subseteq 1..w
      BY <2>2, <2>7, <2>9
    <3> QED BY <2>4, <2>9, <3>1 DEF StopInv
  <2> QED BY <2>5, <2>8, <2>9
<1>11. ASSUME NEW w \in Worker, Read(w) PROVE StopInv'
  <2>1. pc[w] = "read" /\ UNCHANGED <<count, owner>>
    BY <1>11 DEF Read
  <2>2. \A v \in Worker : v # w => pc'[v] = pc[v] /\ queue'[v] = queue[v]
    BY <1>11 DEF Read, IInv, TypeOK
  <2>3. /\ owner.pc = "join" => 1..(owner.worker - 1) \subseteq Worker
        /\ 1..count \subseteq Worker
    BY PoolAssumption DEF IInv, OwnerInv, TypeOK, Worker
  <2> QED BY <2>1, <2>2, <2>3 DEF IInv, StopInv
<1>12. ASSUME NEW w \in Worker,
              \/ Loop(w) \/ Lock(w) \/ Check(w) \/ Sleep(w)
              \/ SpuriousWakeup(w) \/ LockTasks(w) \/ UnlockTasks(w)
              \/ FinishTask(w) \/ UseAfterFree(w)
       PROVE  StopInv'
  <2>1. pc[w] # "exited" /\ UNCHANGED <<count, queue, owner>>
    BY <1>12 DEF Loop, Lock, Check, Sleep, SpuriousWakeup, LockTasks,
       UnlockTasks, FinishTask, UseAfterFree
  <2>2. \A v \in Worker \ {w} : pc'[v] = pc[v]
    BY <1>12 DEF Loop, Lock, Check, Sleep, SpuriousWakeup, LockTasks,
       UnlockTasks, FinishTask, UseAfterFree, IInv, TypeOK
  <2>3. /\ owner.pc = "join" => 1..(owner.worker - 1) \subseteq Worker
        /\ 1..count \subseteq Worker
    BY PoolAssumption DEF IInv, OwnerInv, TypeOK, Worker
  <2> QED BY <2>1, <2>2, <2>3 DEF IInv, StopInv
<1>13. CASE UNCHANGED vars
  BY <1>13 DEF vars, IInv, TypeOK, OwnerInv, StopInv
<1> QED BY <1>1, <1>2, <1>3, <1>4, <1>5, <1>6, <1>7, <1>8, <1>9, <1>10, <1>11,
     <1>12, <1>13 DEF Next, OwnerStep, OwnerContinues, WorkerStep

-----------------------------------------------------------------------------
(* The places of tasks. *)

\* A step that moves no task and deletes nothing leaves every task in its place.
LEMMA PlaceFrame ==
    ASSUME PlaceInv, UNCHANGED <<queue, cur, obj, workerOf, alive>>,
           \A w \in Worker : pc'[w] \in Busy <=> pc[w] \in Busy,
           owner'.pc = "post" <=> owner.pc = "post",
           owner.pc = "post" => owner' = owner
    PROVE  PlaceInv'
<1>1. \A w \in Worker : cur'[w] # NoTask <=> pc'[w] \in Busy
  BY DEF PlaceInv
<1>2. Busy' = Busy
  BY DEF Busy
<1> QED BY <1>1, <1>2 DEF PlaceInv

\* Only the worker of its object can have a task, and nobody has an unused one.
LEMMA OnePlace ==
    ASSUME TypeOK, PlaceInv, NEW v \in Worker, NEW t \in Task
    PROVE  /\ t \in Elements(queue[v]) =>
                obj[t] \in Managed /\ workerOf[obj[t]] = v /\ cur[v] # t
           /\ cur[v] = t => obj[t] \in Managed /\ workerOf[obj[t]] = v
  BY NamesAssumption DEF PlaceInv, TypeOK

\* A purge of one queue leaves every task in its place, if the objects that go
\* had all their queued tasks there.
LEMMA PurgePlaces ==
    ASSUME TypeOK, PlaceInv, NEW w \in Worker, NEW S \in SUBSET Task,
           Purge(w, S), UNCHANGED <<pc, cur, workerOf>>,
           owner.pc # "post", owner'.pc # "post",
           \A v \in Worker : \A t \in Elements(queue'[v]) : obj[t] \in alive'
    PROVE  PlaceInv'
<1>1. /\ \A v \in Worker \ {w} : queue'[v] = queue[v]
      /\ \A v \in Worker : Elements(queue'[v]) \subseteq Elements(queue[v])
      /\ Elements(queue'[w]) = Elements(queue[w]) \ S
      /\ NoDuplicates(queue[w]) => NoDuplicates(queue'[w])
      /\ \A t \in Task : obj'[t] = IF t \in S /\ t \in Elements(queue[w])
                                   THEN NoManaged ELSE obj[t]
  BY PurgeKeeps
<1>2. \A v \in Worker : Elements(queue[v]) \subseteq Task
  BY DEF TypeOK, Elements
<1>3. \A v \in Worker : cur'[v] # NoTask <=> pc'[v] \in Busy
  BY DEF PlaceInv
<1>4. \A v \in Worker : cur'[v] # NoTask =>
         obj'[cur'[v]] \in Managed /\ workerOf'[obj'[cur'[v]]] = v
  <2> SUFFICES ASSUME NEW v \in Worker, cur[v] # NoTask
               PROVE  obj'[cur[v]] \in Managed /\ workerOf[obj'[cur[v]]] = v
    OBVIOUS
  <2>1. cur[v] \in Task /\ obj[cur[v]] \in Managed /\ workerOf[obj[cur[v]]] = v
    BY DEF PlaceInv, TypeOK
  <2>2. cur[v] \notin Elements(queue[w])
    BY <2>1, OnePlace
  <2> QED BY <1>1, <2>1, <2>2
<1>5. \A v \in Worker : NoDuplicates(queue'[v])
  BY <1>1 DEF PlaceInv
<1>6. \A v \in Worker : \A t \in Elements(queue'[v]) :
         obj'[t] \in alive' /\ workerOf'[obj'[t]] = v /\ cur'[v] # t
  <2> SUFFICES ASSUME NEW v \in Worker, NEW t \in Elements(queue'[v])
               PROVE  obj'[t] \in alive' /\ workerOf[obj'[t]] = v /\ cur[v] # t
    OBVIOUS
  <2>1. t \in Task /\ t \in Elements(queue[v])
    BY <1>1, <1>2
  <2>2. obj[t] \in alive' /\ workerOf[obj[t]] = v /\ cur[v] # t
    BY <2>1, OnePlace
  <2>3. ~(t \in S /\ t \in Elements(queue[w]))
    BY <1>1, <2>1, <2>2, OnePlace
  <2> QED BY <1>1, <2>1, <2>2, <2>3
<1>7. \A t \in Task : obj'[t] # NoManaged =>
         /\ workerOf'[obj'[t]] \in Worker
         /\ \/ t \in Elements(queue'[workerOf'[obj'[t]]])
            \/ t = cur'[workerOf'[obj'[t]]]
  <2> SUFFICES ASSUME NEW t \in Task, obj'[t] # NoManaged
               PROVE  /\ workerOf[obj'[t]] \in Worker
                      /\ \/ t \in Elements(queue'[workerOf[obj'[t]]])
                         \/ t = cur[workerOf[obj'[t]]]
    OBVIOUS
  <2>1. obj'[t] = obj[t] /\ ~(t \in S /\ t \in Elements(queue[w]))
    BY <1>1
  <2>2. /\ workerOf[obj[t]] \in Worker
        /\ t \in Elements(queue[workerOf[obj[t]]]) \/ t = cur[workerOf[obj[t]]]
    BY <2>1 DEF PlaceInv
  <2> QED BY <1>1, <2>1, <2>2
<1> QED BY <1>3, <1>4, <1>5, <1>6, <1>7 DEF PlaceInv, Busy

\* addTask() makes a task that nobody has, and leaves the others where they are:
\* the worker of its object changes only when the object has no task at all.
LEMMA AddTaskPlaces ==
    ASSUME TypeOK, PlaceInv, NEW o \in Managed, NEW t \in Task,
           NEW w \in Worker, AddTask(o, t, w)
    PROVE  PlaceInv'
<1>1. /\ owner.pc = "idle" /\ obj[t] = NoManaged
      /\ workerOf' = [workerOf EXCEPT ![o] = w] /\ obj' = [obj EXCEPT ![t] = o]
      /\ owner'.pc = "post" /\ owner'.task = t
      /\ UNCHANGED <<queue, pc, cur, alive>>
  BY DEF AddTask, OwnerAt
<1>2. workerOf[o] = NoWorker \/ workerOf[o] = w
  BY DEF AddTask, WorkersFor
<1>3. obj'[t] = o /\ workerOf'[o] = w /\ \A u \in Task \ {t} : obj'[u] = obj[u]
  BY <1>1 DEF TypeOK
<1>4. \A u \in Task : obj[u] # NoManaged =>
         obj[u] \in Managed /\ workerOf[obj[u]] \in Worker
                            /\ workerOf'[obj[u]] = workerOf[obj[u]]
  <2>1. NoWorker \notin Worker
    BY DEF NoWorker, Worker
  <2> QED BY <1>1, <1>2, <2>1 DEF PlaceInv, TypeOK
<1>5. \A v \in Worker : t \notin Elements(queue[v]) /\ cur[v] # t
  BY <1>1, OnePlace, NamesAssumption
<1>6. \A v \in Worker : Elements(queue[v]) \subseteq Task
  BY DEF TypeOK, Elements
<1>7. \A v \in Worker : cur'[v] # NoTask =>
         obj'[cur'[v]] \in Managed /\ workerOf'[obj'[cur'[v]]] = v
  <2> SUFFICES ASSUME NEW v \in Worker, cur[v] # NoTask
               PROVE  obj'[cur[v]] \in Managed /\ workerOf'[obj'[cur[v]]] = v
    BY <1>1
  <2>1. cur[v] \in Task \ {t} /\ obj[cur[v]] \in Managed /\ workerOf[obj[cur[v]]] = v
    BY <1>5 DEF PlaceInv, TypeOK
  <2> QED BY <1>3, <1>4, <2>1, NamesAssumption
<1>8. \A v \in Worker : \A u \in Elements(queue'[v]) :
         obj'[u] \in alive' /\ workerOf'[obj'[u]] = v /\ cur'[v] # u
  <2> SUFFICES ASSUME NEW v \in Worker, NEW u \in Elements(queue[v])
               PROVE  obj'[u] \in alive /\ workerOf'[obj'[u]] = v /\ cur[v] # u
    BY <1>1
  <2>1. /\ u \in Task \ {t} /\ obj[u] \in alive /\ workerOf[obj[u]] = v
        /\ cur[v] # u
    BY <1>5, <1>6 DEF PlaceInv
  <2>2. obj[u] # NoManaged
    BY <2>1, NamesAssumption DEF TypeOK
  <2> QED BY <1>3, <1>4, <2>1, <2>2
<1>9. \A u \in Task : obj'[u] # NoManaged =>
         /\ workerOf'[obj'[u]] \in Worker
         /\ \/ u \in Elements(queue'[workerOf'[obj'[u]]])
            \/ u = cur'[workerOf'[obj'[u]]]
            \/ owner'.pc = "post" /\ owner'.task = u
  <2> SUFFICES ASSUME NEW u \in Task, u # t, obj[u] # NoManaged
               PROVE  /\ workerOf'[obj[u]] \in Worker
                      /\ \/ u \in Elements(queue[workerOf'[obj[u]]])
                         \/ u = cur[workerOf'[obj[u]]]
    BY <1>1, <1>3
  <2> QED BY <1>1, <1>4 DEF PlaceInv
<1>10. \A v \in Worker : /\ NoDuplicates(queue'[v])
                         /\ cur'[v] # NoTask <=> pc'[v] \in Busy
  BY <1>1 DEF PlaceInv
<1>11. owner'.pc = "post" => \A v \in Worker :
          owner'.task \notin Elements(queue'[v]) /\ cur'[v] # owner'.task
  BY <1>1, <1>5
<1> QED BY <1>7, <1>8, <1>9, <1>10, <1>11 DEF PlaceInv, Busy

\* The message that carries a task is posted where its object's tasks go.
LEMMA PostTaskPlaces ==
    ASSUME TypeOK, OwnerInv, PlaceInv, PostTask
    PROVE  PlaceInv'
<1> DEFINE w == owner.worker
           t == owner.task
<1>1. /\ owner.pc = "post" /\ w \in Worker /\ t \in Task
      /\ obj[t] \in alive /\ workerOf[obj[t]] = w
      /\ queue' = [queue EXCEPT ![w] = Append(@, t)]
      /\ owner'.pc = "signal"
      /\ UNCHANGED <<pc, cur, obj, workerOf, alive>>
  BY DEF PostTask, OwnerInv, managedVars, TypeOK
<1>2. \A v \in Worker : t \notin Elements(queue[v]) /\ cur[v] # t
  BY <1>1 DEF PlaceInv
<1>3. /\ Elements(queue'[w]) = Elements(queue[w]) \cup {t}
      /\ NoDuplicates(queue'[w])
      /\ \A v \in Worker \ {w} : queue'[v] = queue[v]
  <2>1. queue[w] \in Seq(Task) /\ NoDuplicates(queue[w])
    BY <1>1 DEF TypeOK, PlaceInv
  <2>2. queue'[w] = Append(queue[w], t)
    BY <1>1 DEF TypeOK
  <2>3. \A v \in Worker \ {w} : queue'[v] = queue[v]
    BY <1>1 DEF TypeOK
  <2> HIDE DEF w, t
  <2> QED BY <1>1, <1>2, <2>1, <2>2, <2>3, Appended
<1>4. \A v \in Worker : NoDuplicates(queue'[v])
  BY <1>3 DEF PlaceInv
<1>5. \A v \in Worker : \A u \in Elements(queue'[v]) :
         obj'[u] \in alive' /\ workerOf'[obj'[u]] = v /\ cur'[v] # u
  BY <1>1, <1>2, <1>3 DEF PlaceInv
<1>6. \A u \in Task : obj'[u] # NoManaged =>
         /\ workerOf'[obj'[u]] \in Worker
         /\ \/ u \in Elements(queue'[workerOf'[obj'[u]]])
            \/ u = cur'[workerOf'[obj'[u]]]
  <2> SUFFICES ASSUME NEW u \in Task, obj[u] # NoManaged
               PROVE  /\ workerOf[obj[u]] \in Worker
                      /\ \/ u \in Elements(queue'[workerOf[obj[u]]])
                         \/ u = cur[workerOf[obj[u]]]
    BY <1>1
  <2> QED BY <1>1, <1>3 DEF PlaceInv
<1> QED BY <1>1, <1>4, <1>5, <1>6 DEF PlaceInv, Busy

\* readMessage() moves a task from the front of the queue to the worker's hands.
LEMMA ReadPlaces ==
    ASSUME TypeOK, PlaceInv, NEW w \in Worker, Read(w)
    PROVE  PlaceInv'
<1> USE DEF workerVars, managedVars
<1>1. CASE queue[w] = <<>>
  <2>1. /\ pc[w] = "read" /\ pc' = [pc EXCEPT ![w] = "loop"]
        /\ UNCHANGED <<queue, cur, obj, workerOf, alive, owner>>
    BY <1>1, ReadNothing
  <2>2. \A v \in Worker : pc'[v] \in Busy <=> pc[v] \in Busy
    BY <2>1 DEF TypeOK, Busy
  <2> QED BY <2>1, <2>2, PlaceFrame
<1>2. CASE queue[w] # <<>>
  <2> DEFINE h == Head(queue[w])
  <2>1. /\ pc[w] = "read" /\ pc' = [pc EXCEPT ![w] = "lockTasks"]
        /\ cur' = [cur EXCEPT ![w] = h] /\ h \in Task
        /\ UNCHANGED <<obj, workerOf, alive, owner>>
        /\ \A v \in Worker \ {w} : queue'[v] = queue[v]
        /\ Elements(queue[w]) = {h} \cup Elements(queue'[w])
        /\ NoDuplicates(queue'[w]) /\ h \notin Elements(queue'[w])
    <3>1. NoDuplicates(queue[w])
      BY DEF PlaceInv
    <3> QED BY <1>2, <3>1, ReadTakes
  <2> HIDE DEF h
  <2>2. /\ obj[h] \in Managed /\ workerOf[obj[h]] = w
        /\ cur[w] = NoTask
    BY <2>1, OnePlace DEF PlaceInv, Busy
  <2>3. /\ cur'[w] = h /\ pc'[w] = "lockTasks"
        /\ \A v \in Worker \ {w} : cur'[v] = cur[v] /\ pc'[v] = pc[v]
    BY <2>1 DEF TypeOK
  <2>4. \A v \in Worker : cur'[v] # NoTask <=> pc'[v] \in Busy
    BY <2>1, <2>3, NamesAssumption DEF PlaceInv, Busy
  <2>5. \A v \in Worker : cur'[v] # NoTask =>
           obj'[cur'[v]] \in Managed /\ workerOf'[obj'[cur'[v]]] = v
    BY <2>1, <2>2, <2>3 DEF PlaceInv
  <2>6. \A v \in Worker : NoDuplicates(queue'[v])
    BY <2>1 DEF PlaceInv
  <2>7. \A v \in Worker : \A t \in Elements(queue'[v]) :
           obj'[t] \in alive' /\ workerOf'[obj'[t]] = v /\ cur'[v] # t
    BY <2>1, <2>3 DEF PlaceInv
  <2>8. owner'.pc = "post" => \A v \in Worker :
           owner'.task \notin Elements(queue'[v]) /\ cur'[v] # owner'.task
    BY <2>1, <2>3 DEF PlaceInv
  <2>9. \A t \in Task : obj'[t] # NoManaged =>
           /\ workerOf'[obj'[t]] \in Worker
           /\ \/ t \in Elements(queue'[workerOf'[obj'[t]]])
              \/ t = cur'[workerOf'[obj'[t]]]
              \/ owner'.pc = "post" /\ owner'.task = t
    <3> SUFFICES ASSUME NEW t \in Task, obj[t] # NoManaged
                 PROVE  /\ workerOf[obj[t]] \in Worker
                        /\ \/ t \in Elements(queue'[workerOf[obj[t]]])
                           \/ t = cur'[workerOf[obj[t]]]
                           \/ owner.pc = "post" /\ owner.task = t
      BY <2>1
    <3>1. /\ workerOf[obj[t]] \in Worker
          /\ \/ t \in Elements(queue[workerOf[obj[t]]])
             \/ t = cur[workerOf[obj[t]]]
             \/ owner.pc = "post" /\ owner.task = t
      BY DEF PlaceInv
    <3>2. t # NoTask
      BY NamesAssumption
    <3> QED BY <2>1, <2>2, <2>3, <3>1, <3>2
  <2> QED BY <2>4, <2>5, <2>6, <2>7, <2>8, <2>9 DEF PlaceInv, Busy
<1> QED BY <1>1, <1>2

\* A task that is deleted after it has run was in its worker's hands only.
LEMMA FinishTaskPlaces ==
    ASSUME TypeOK, OwnerInv, PlaceInv, NEW w \in Worker, FinishTask(w)
    PROVE  PlaceInv'
<1> DEFINE d == cur[w]
<1>1. /\ pc[w] = "done" /\ pc' = [pc EXCEPT ![w] = "read"]
      /\ cur' = [cur EXCEPT ![w] = NoTask]
      /\ obj' = [t \in Task |-> IF t = d THEN NoManaged ELSE obj[t]]
      /\ UNCHANGED <<queue, workerOf, alive, owner>>
  BY DEF FinishTask, DeleteTasks
<1>2. d \in Task /\ obj[d] \in Managed /\ workerOf[obj[d]] = w
  BY <1>1 DEF PlaceInv, TypeOK, Busy
<1>3. \A v \in Worker : /\ d \notin Elements(queue[v])
                        /\ v # w => cur[v] # d
  BY <1>2, OnePlace
<1> HIDE DEF d
<1>4. /\ cur'[w] = NoTask /\ pc'[w] = "read"
      /\ \A v \in Worker \ {w} : cur'[v] = cur[v] /\ pc'[v] = pc[v]
  BY <1>1 DEF TypeOK
<1>5. /\ obj'[d] = NoManaged
      /\ \A t \in Task : t # d => obj'[t] = obj[t]
  BY <1>1, <1>2
<1>6. \A v \in Worker : cur'[v] # NoTask <=> pc'[v] \in Busy
  BY <1>4 DEF PlaceInv, Busy
<1>7. \A v \in Worker : cur'[v] # NoTask =>
         obj'[cur'[v]] \in Managed /\ workerOf'[obj'[cur'[v]]] = v
  <2> SUFFICES ASSUME NEW v \in Worker, v # w, cur[v] # NoTask
               PROVE  obj'[cur[v]] \in Managed /\ workerOf'[obj'[cur[v]]] = v
    BY <1>4
  <2>1. cur[v] \in Task /\ cur[v] # d
    BY <1>3 DEF TypeOK
  <2> QED BY <1>1, <1>5, <2>1 DEF PlaceInv
<1>8. \A v \in Worker : \A t \in Elements(queue'[v]) :
         obj'[t] \in alive' /\ workerOf'[obj'[t]] = v /\ cur'[v] # t
  <2> SUFFICES ASSUME NEW v \in Worker, NEW t \in Elements(queue[v])
               PROVE  obj'[t] \in alive /\ workerOf[obj'[t]] = v /\ cur'[v] # t
    BY <1>1
  <2>1. t \in Task /\ t # d /\ t # NoTask
    BY <1>3, NamesAssumption DEF TypeOK, Elements
  <2> QED BY <1>4, <1>5, <2>1 DEF PlaceInv
<1>9. owner'.pc = "post" => \A v \in Worker :
         owner'.task \notin Elements(queue'[v]) /\ cur'[v] # owner'.task
  BY <1>1, <1>4, NamesAssumption DEF PlaceInv, OwnerInv
<1>10. \A t \in Task : obj'[t] # NoManaged =>
         /\ workerOf'[obj'[t]] \in Worker
         /\ \/ t \in Elements(queue'[workerOf'[obj'[t]]])
            \/ t = cur'[workerOf'[obj'[t]]]
            \/ owner'.pc = "post" /\ owner'.task = t
  <2> SUFFICES ASSUME NEW t \in Task, t # d, obj[t] # NoManaged
               PROVE  /\ workerOf[obj[t]] \in Worker
                      /\ \/ t \in Elements(queue[workerOf[obj[t]]])
                         \/ t = cur'[workerOf[obj[t]]]
                         \/ owner.pc = "post" /\ owner.task = t
    BY <1>1, <1>5
  <2>1. /\ workerOf[obj[t]] \in Worker
        /\ \/ t \in Elements(queue[workerOf[obj[t]]])
           \/ t = cur[workerOf[obj[t]]]
           \/ owner.pc = "post" /\ owner.task = t
    BY DEF PlaceInv
  <2>2. cur[w] = d
    BY DEF d
  <2> QED BY <1>4, <2>1, <2>2
<1>11. \A v \in Worker : NoDuplicates(queue'[v])
  BY <1>1 DEF PlaceInv
<1> QED BY <1>6, <1>7, <1>8, <1>9, <1>10, <1>11 DEF PlaceInv, Busy

\* Every task stays in one of its places.
LEMMA PlaceInvStep ==
    ASSUME IInv, [Next]_vars
    PROVE  PlaceInv'
<1> USE DEF workerVars, managedVars
<1>1. TypeOK /\ OwnerInv /\ PoolInv /\ PlaceInv
  BY DEF IInv
<1>2. ASSUME NEW n \in 1..PoolSize, CreateWorker(n) PROVE PlaceInv'
  <2>1. \A v \in Worker : pc'[v] \in Busy <=> pc[v] \in Busy
    BY <1>1, <1>2, PoolAssumption
       DEF CreateWorker, ActualCount, PoolInv, TypeOK, Worker, Busy
  <2> QED BY <1>1, <1>2, <2>1, PlaceFrame DEF CreateWorker
<1>3. ASSUME NEW o \in Managed, NEW t \in Task, NEW w \in Worker,
            AddTask(o, t, w)
      PROVE  PlaceInv'
  BY <1>1, <1>3, AddTaskPlaces
<1>4. CASE PostTask
  BY <1>1, <1>4, PostTaskPlaces
<1>5. CASE SignalWorker
  <2>1. \A v \in Worker : pc'[v] \in Busy <=> pc[v] \in Busy
    BY <1>1, <1>5 DEF SignalWorker, Woken, TypeOK, Busy
  <2> QED BY <1>1, <1>5, <2>1, PlaceFrame DEF SignalWorker, OwnerIdle, OwnerAt
<1>6. ASSUME NEW o \in Managed, BeginSync(o) PROVE PlaceInv'
  BY <1>1, <1>6, PlaceFrame DEF BeginSync, OwnerAt
<1>7. CASE EndSync
  BY <1>1, <1>7, PlaceFrame DEF EndSync, OwnerIdle, OwnerAt
<1>8. ASSUME NEW o \in Managed, Destroy(o) PROVE PlaceInv'
  <2>1. /\ alive' = alive \ {o} /\ owner' = owner /\ owner.pc # "post"
        /\ UNCHANGED <<pc, cur, workerOf>>
    BY <1>1, <1>8, DestroyPurges DEF Destroy
  <2>2. CASE workerOf[o] \in Worker /\ Purge(workerOf[o], Pending(o))
    <3> DEFINE w == workerOf[o]
    <3>1. Pending(o) \in SUBSET Task
      BY DEF Pending
    <3>2. /\ \A v \in Worker \ {w} : queue'[v] = queue[v]
          /\ Elements(queue'[w]) = Elements(queue[w]) \ Pending(o)
      BY <1>1, <2>2, <3>1, PurgeKeeps
    <3>3. ASSUME NEW v \in Worker, NEW t \in Elements(queue'[v])
          PROVE  obj[t] \in alive'
      <4>1. t \in Elements(queue[v]) /\ (v = w => t \notin Pending(o))
        BY <3>2, <3>3
      <4>2. t \in Task /\ obj[t] \in alive /\ workerOf[obj[t]] = v
        BY <1>1, <4>1 DEF PlaceInv, TypeOK, Elements
      <4>3. obj[t] # o
        BY <4>1, <4>2 DEF Pending
      <4> QED BY <2>1, <4>2, <4>3
    <3> QED BY <1>1, <2>1, <2>2, <3>1, <3>3, PurgePlaces
  <2>3. CASE workerOf[o] = NoWorker /\ UNCHANGED <<queue, obj, before>>
    <3>1. \A v \in Worker : \A t \in Elements(queue[v]) : obj[t] \in alive'
      BY <1>1, <2>1, <2>3 DEF PlaceInv, NoWorker, Worker
    <3> QED BY <1>1, <2>1, <2>3, <3>1 DEF PlaceInv, Busy
  <2> QED BY <1>1, <1>8, <2>2, <2>3, DestroyPurges
<1>9. CASE StopAll
  BY <1>1, <1>9, PlaceFrame DEF StopAll, OwnerAt
<1>10. CASE StopWorker
  <2>1. \A v \in Worker : pc'[v] \in Busy <=> pc[v] \in Busy
    BY <1>1, <1>10 DEF StopWorker, Woken, TypeOK, Busy
  <2>2. owner.pc = "stop" /\ owner'.pc \in {"stop", "join"}
    BY <1>1, <1>10 DEF StopWorker, NextWorker, OwnerAt, TypeOK
  <2> QED BY <1>1, <1>10, <2>1, <2>2, PlaceFrame DEF StopWorker
<1>11. CASE JoinWorker
  <2>1. /\ owner.pc = "join" /\ owner.worker \in Worker
        /\ owner'.pc \in {"join", "stopped"} /\ Purge(owner.worker, Task)
        /\ UNCHANGED <<pc, cur, workerOf, alive>>
    BY <1>1, <1>11, JoinPurges DEF JoinWorker
  <2>2. \A v \in Worker : \A t \in Elements(queue'[v]) : obj[t] \in alive'
    BY <1>1, <2>1, PurgeKeeps DEF PlaceInv
  <2> QED BY <1>1, <2>1, <2>2, PurgePlaces
<1>12. ASSUME NEW w \in Worker, Read(w) PROVE PlaceInv'
  BY <1>1, <1>12, ReadPlaces
<1>13. ASSUME NEW w \in Worker, FinishTask(w) PROVE PlaceInv'
  BY <1>1, <1>13, FinishTaskPlaces
<1>14. ASSUME NEW w \in Worker,
              \/ Loop(w) \/ Lock(w) \/ Check(w) \/ Sleep(w)
              \/ SpuriousWakeup(w) \/ LockTasks(w) \/ UnlockTasks(w)
              \/ UseAfterFree(w)
       PROVE  PlaceInv'
  <2>1. \A v \in Worker : pc'[v] \in Busy <=> pc[v] \in Busy
    BY <1>1, <1>14 DEF Loop, Lock, Check, Sleep, SpuriousWakeup, LockTasks,
       UnlockTasks, UseAfterFree, TypeOK, Busy
  <2>2. UNCHANGED <<queue, cur, obj, workerOf, alive, owner>>
    BY <1>14 DEF Loop, Lock, Check, Sleep, SpuriousWakeup, LockTasks,
       UnlockTasks, UseAfterFree
  <2> QED BY <1>1, <2>1, <2>2, PlaceFrame
<1>15. CASE UNCHANGED vars
  BY <1>1, <1>15, PlaceFrame DEF vars
<1> QED BY <1>2, <1>3, <1>4, <1>5, <1>6, <1>7, <1>8, <1>9, <1>10, <1>11,
     <1>12, <1>13, <1>14, <1>15 DEF Next, OwnerStep, OwnerContinues,
     WorkerStep

-----------------------------------------------------------------------------
(* The counters. *)

\* The tasks of an object can be counted.
LEMMA PendingIsFinite ==
    ASSUME NEW o
    PROVE  IsFiniteSet(Pending(o)) /\ Cardinality(Pending(o)) \in Nat
<1>1. Pending(o) \subseteq Task
  BY DEF Pending
<1> QED BY <1>1, TaskAssumption, FS_Subset, FS_CardinalityType

\* A step that neither makes, deletes nor counts a task keeps the counters.
LEMMA CountFrame ==
    ASSUME CountInv, UNCHANGED <<obj, alive, taskQueued>>,
           owner.pc \in {"join", "stopped"} => owner'.pc \in {"join", "stopped"}
    PROVE  CountInv'
<1>1. \A o : Pending(o)' = Pending(o)
  BY DEF Pending
<1> QED BY <1>1 DEF CountInv

\* addTask() makes a task and counts it.
LEMMA AddTaskCounts ==
    ASSUME TypeOK, CountInv, NEW o \in Managed, NEW t \in Task,
           NEW w \in Worker, AddTask(o, t, w)
    PROVE  CountInv'
<1>1. /\ owner.pc = "idle" /\ owner'.pc = "post" /\ obj[t] = NoManaged
      /\ obj' = [obj EXCEPT ![t] = o] /\ alive' = alive
      /\ taskQueued' = [taskQueued EXCEPT ![o] = @ + 1]
  BY DEF AddTask, OwnerAt
<1>2. t \notin Pending(o) /\ Pending(o)' = Pending(o) \cup {t}
  BY <1>1, NamesAssumption DEF Pending, TypeOK
<1>3. Cardinality(Pending(o)') = Cardinality(Pending(o)) + 1
  BY <1>2, PendingIsFinite, FS_AddElement
<1>4. \A p \in Managed \ {o} : Pending(p)' = Pending(p)
  BY <1>1, NamesAssumption DEF Pending, TypeOK
<1>5. /\ taskQueued'[o] = taskQueued[o] + 1 /\ taskQueued[o] \in Nat
      /\ \A p \in Managed \ {o} : taskQueued'[p] = taskQueued[p]
  BY <1>1 DEF TypeOK
<1> SUFFICES ASSUME NEW p \in alive
             PROVE  taskQueued'[p] = Cardinality(Pending(p)')
  BY <1>1, PendingIsFinite DEF CountInv, TypeOK
<1>6. p \in Managed /\ taskQueued[p] = Cardinality(Pending(p))
  BY <1>1 DEF CountInv, TypeOK
<1> QED BY <1>3, <1>4, <1>5, <1>6

\* A worker deletes the task it has run and counts it down.
LEMMA FinishTaskCounts ==
    ASSUME TypeOK, PlaceInv, CountInv, NEW w \in Worker, FinishTask(w)
    PROVE  CountInv'
<1> SUFFICES ASSUME NEW d, d = cur[w], NEW o, o = obj[d]
             PROVE  CountInv'
  OBVIOUS
<1>1. /\ pc[w] = "done" /\ o \in alive
      /\ obj' = [t \in Task |-> IF t = d THEN NoManaged ELSE obj[t]]
      /\ UNCHANGED <<alive, owner>>
      /\ taskQueued' = [taskQueued EXCEPT ![o] = @ - 1]
  BY DEF FinishTask, DeleteTasks
<1>2. d \in Task /\ o \in Managed
  BY <1>1 DEF PlaceInv, TypeOK, Busy
<1>3. d \in Pending(o) /\ Pending(o)' = Pending(o) \ {d}
  BY <1>1, <1>2, NamesAssumption DEF Pending
<1>4. \A p \in Managed : p # o => Pending(p)' = Pending(p)
  BY <1>1, <1>2, NamesAssumption DEF Pending
<1>5. /\ taskQueued'[o] = taskQueued[o] - 1
      /\ \A p \in Managed : p # o => taskQueued'[p] = taskQueued[p]
      /\ \A p \in Managed : taskQueued[p] \in Nat
  BY <1>1, <1>2 DEF TypeOK
<1>6. Cardinality(Pending(o)') = Cardinality(Pending(o)) - 1
  <2>1. IsFiniteSet(Pending(o))
    BY PendingIsFinite
  <2> QED BY <1>3, <2>1, FS_RemoveElement, Zenon
<1>7. \A p \in alive : p \in Managed
  BY DEF TypeOK
<1> SUFFICES ASSUME NEW p \in alive
             PROVE  /\ taskQueued'[p] >= Cardinality(Pending(p)')
                    /\ owner.pc \notin {"join", "stopped"} =>
                          taskQueued'[p] = Cardinality(Pending(p)')
  BY <1>1 DEF CountInv
<1>8. /\ taskQueued[p] >= Cardinality(Pending(p))
      /\ owner.pc \notin {"join", "stopped"} =>
            taskQueued[p] = Cardinality(Pending(p))
  BY DEF CountInv
<1>9. CASE p = o
  BY <1>2, <1>5, <1>6, <1>8, <1>9, PendingIsFinite
<1>10. CASE p # o
  BY <1>4, <1>5, <1>7, <1>8, <1>10
<1> QED BY <1>9, <1>10

\* m_TaskQueued stays exact, and past stopAll() an upper bound.
LEMMA CountInvStep ==
    ASSUME IInv, [Next]_vars
    PROVE  CountInv'
<1> USE DEF workerVars, managedVars
<1>1. TypeOK /\ OwnerInv /\ PlaceInv /\ CountInv
  BY DEF IInv
<1>2. ASSUME NEW n \in 1..PoolSize, CreateWorker(n) PROVE CountInv'
  BY <1>1, <1>2, CountFrame DEF CreateWorker
<1>3. ASSUME NEW o \in Managed, NEW t \in Task, NEW w \in Worker,
            AddTask(o, t, w)
      PROVE  CountInv'
  BY <1>1, <1>3, AddTaskCounts
<1>4. CASE PostTask
  BY <1>1, <1>4, CountFrame DEF PostTask
<1>5. CASE SignalWorker
  BY <1>1, <1>5, CountFrame DEF SignalWorker
<1>6. ASSUME NEW o \in Managed, BeginSync(o) PROVE CountInv'
  BY <1>1, <1>6, CountFrame DEF BeginSync
<1>7. CASE EndSync
  BY <1>1, <1>7, CountFrame DEF EndSync
<1>8. ASSUME NEW o \in Managed, Destroy(o) PROVE CountInv'
  <2>1. /\ alive' = alive \ {o} /\ owner' = owner /\ taskQueued' = taskQueued
        /\ alive \subseteq Managed
    BY <1>1, <1>8, DestroyPurges DEF Destroy, TypeOK
  <2>2. \A p \in Managed \ {o} : Pending(p)' = Pending(p)
    <3>1. CASE workerOf[o] \in Worker /\ Purge(workerOf[o], Pending(o))
      <4>1. \A t \in Task : obj'[t] = obj[t] \/ (obj[t] = o /\ obj'[t] = NoManaged)
        BY <3>1, PurgeSpares DEF Pending
      <4> QED BY <4>1, NamesAssumption DEF Pending
    <3>2. CASE UNCHANGED obj
      BY <3>2 DEF Pending
    <3> QED BY <1>1, <1>8, <3>1, <3>2, DestroyPurges
  <2> QED BY <1>1, <2>1, <2>2 DEF CountInv
<1>9. CASE StopAll
  BY <1>1, <1>9, CountFrame DEF StopAll
<1>10. CASE StopWorker
  BY <1>1, <1>10, CountFrame DEF StopWorker
<1>11. CASE JoinWorker
  <2>1. /\ owner'.pc \in {"join", "stopped"} /\ Purge(owner.worker, Task)
        /\ UNCHANGED <<alive, taskQueued>>
    BY <1>1, <1>11, JoinPurges DEF JoinWorker
  <2>2. \A p \in Managed : Pending(p)' \subseteq Pending(p)
    BY <2>1, NamesAssumption DEF Pending, Purge, DeleteTasks
  <2>3. \A p \in Managed : Cardinality(Pending(p)') <= Cardinality(Pending(p))
                           /\ Cardinality(Pending(p)') \in Nat
    BY <2>2, PendingIsFinite, FS_Subset, FS_CardinalityType
  <2>4. ASSUME NEW p \in alive
        PROVE  taskQueued[p] >= Cardinality(Pending(p)')
    <3>1. /\ p \in Managed /\ taskQueued[p] \in Nat
          /\ taskQueued[p] >= Cardinality(Pending(p))
      BY <1>1 DEF TypeOK, CountInv
    <3> QED BY <2>3, <3>1, PendingIsFinite
  <2> QED BY <2>1, <2>4 DEF CountInv
<1>12. ASSUME NEW w \in Worker, FinishTask(w) PROVE CountInv'
  BY <1>1, <1>12, FinishTaskCounts
<1>13. ASSUME NEW w \in Worker,
              \/ Loop(w) \/ Lock(w) \/ Check(w) \/ Sleep(w)
              \/ SpuriousWakeup(w) \/ Read(w) \/ LockTasks(w)
              \/ UnlockTasks(w) \/ UseAfterFree(w)
       PROVE  CountInv'
  BY <1>1, <1>13, CountFrame DEF Loop, Lock, Check, Sleep, SpuriousWakeup,
     Read, LockTasks, UnlockTasks, UseAfterFree
<1>14. CASE UNCHANGED vars
  BY <1>1, <1>14, CountFrame DEF vars
<1> QED BY <1>2, <1>3, <1>4, <1>5, <1>6, <1>7, <1>8, <1>9, <1>10, <1>11,
     <1>12, <1>13, <1>14 DEF Next, OwnerStep, OwnerContinues, WorkerStep

-----------------------------------------------------------------------------
(* The order of an object's tasks. *)

\* A queue that a step does not move stays in order, also when tasks before some
\* of its tasks are deleted.
LEMMA QueueFrame ==
    ASSUME NEW w, QueueInOrder(w), UNCHANGED <<queue[w], cur[w]>>,
           \A i \in 1..Len(queue[w]) :
              before'[queue[w][i]] \subseteq before[queue[w][i]]
    PROVE  QueueInOrder(w)'
<1> SUFFICES ASSUME NEW i \in 1..Len(queue[w]), NEW t \in before'[queue[w][i]]
             PROVE  t = cur[w] \/ \E j \in 1..(i - 1) : queue[w][j] = t
  BY DEF QueueInOrder
<1>1. t \in before[queue[w][i]]
  OBVIOUS
<1> QED BY <1>1 DEF QueueInOrder

\* A step that moves no task keeps the order.
LEMMA OrderFrame ==
    ASSUME OrderInv, UNCHANGED <<queue, cur, before>>,
           owner'.pc = "post" => owner' = owner
    PROVE  OrderInv'
<1>1. ASSUME NEW w \in Worker PROVE HandFirst(w)'
  BY DEF OrderInv, HandFirst
<1>2. ASSUME NEW w \in Worker PROVE QueueInOrder(w)'
  BY QueueFrame DEF OrderInv
<1>3. PostedLast'
  BY DEF OrderInv, PostedLast
<1> QED BY <1>1, <1>2, <1>3 DEF OrderInv

\* A purge keeps the order of what it leaves.
LEMMA PurgeOrders ==
    ASSUME TypeOK, OrderInv, NEW w \in Worker, NEW S \in SUBSET Task,
           Purge(w, S), UNCHANGED cur, owner'.pc # "post"
    PROVE  OrderInv'
<1>1. /\ queue[w] \in Seq(Task) /\ queue'[w] \in Purges(queue[w], S)
      /\ \A v \in Worker \ {w} : queue'[v] = queue[v]
      /\ \A t \in Task : before'[t] = before[t] \ (S \cap Elements(queue[w]))
      /\ queue' \in [Worker -> Seq(Task)]
  BY PurgeKeeps DEF TypeOK
<1>2. ASSUME NEW v \in Worker PROVE HandFirst(v)'
  BY <1>1 DEF OrderInv, HandFirst, TypeOK
<1>3. QueueInOrder(w)'
  <2> SUFFICES ASSUME NEW i \in 1..Len(queue'[w]),
                      NEW t \in before'[queue'[w][i]]
               PROVE  t = cur'[w] \/ \E j \in 1..(i - 1) : queue'[w][j] = t
    BY DEF QueueInOrder
  <2>1. PICK k \in 1..Len(queue[w]) :
           /\ queue'[w][i] = queue[w][k]
           /\ \A l \in 1..(k - 1) : queue[w][l] \notin S =>
                 \E j \in 1..(i - 1) : queue'[w][j] = queue[w][l]
    <3>1. PICK s \in Seq(Task) : s = queue[w]
      BY <1>1
    <3>2. PICK r \in Purges(s, S) : r = queue'[w]
      BY <1>1, <3>1
    <3>3. i \in 1..Len(r)
      BY <3>2
    <3>4. \E k \in 1..Len(s) :
             /\ r[i] = s[k]
             /\ \A l \in 1..(k - 1) :
                   s[l] \notin S => \E j \in 1..(i - 1) : r[j] = s[l]
      BY <3>3, PurgesInOrder
    <3> QED BY <3>1, <3>2, <3>4
  <2>2. queue[w][k] \in Task
    BY <1>1
  <2>3. t \in before[queue[w][k]] /\ ~(t \in S /\ t \in Elements(queue[w]))
    BY <1>1, <2>1, <2>2
  <2>4. CASE t = cur[w]
    BY <2>4
  <2>5. CASE t # cur[w]
    <3>1. PICK l \in 1..(k - 1) : queue[w][l] = t
      BY <2>3, <2>5 DEF OrderInv, QueueInOrder
    <3>2. l \in 1..Len(queue[w])
      BY <1>1
    <3>3. t \notin S
      BY <2>3, <3>1, <3>2 DEF Elements
    <3> QED BY <2>1, <3>1, <3>3
  <2> QED BY <2>4, <2>5
<1>4. ASSUME NEW v \in Worker, v # w PROVE QueueInOrder(v)'
  <2>1. queue'[v] = queue[v] /\ \A i \in 1..Len(queue[v]) : queue[v][i] \in Task
    BY <1>1, <1>4 DEF TypeOK
  <2>2. QueueInOrder(v)
    BY DEF OrderInv
  <2>3. \A i \in 1..Len(queue[v]) :
           before'[queue[v][i]] \subseteq before[queue[v][i]]
    BY <1>1, <2>1
  <2> QED BY <2>1, <2>2, <2>3, QueueFrame
<1>5. PostedLast'
  BY DEF PostedLast
<1> QED BY <1>2, <1>3, <1>4, <1>5 DEF OrderInv

\* A task that is added comes behind those its object has.
LEMMA AddTaskOrders ==
    ASSUME TypeOK, PlaceInv, OrderInv, NEW o \in Managed, NEW t \in Task,
           NEW w \in Worker, AddTask(o, t, w)
    PROVE  OrderInv'
<1>1. /\ owner.pc = "idle" /\ obj[t] = NoManaged
      /\ owner'.pc = "post" /\ owner'.task = t /\ owner'.worker = w
      /\ before' = [before EXCEPT ![t] = Pending(o)]
      /\ UNCHANGED <<queue, cur>>
  BY DEF AddTask, OwnerAt
<1>2. before'[t] = Pending(o) /\ \A u \in Task \ {t} : before'[u] = before[u]
  BY <1>1 DEF TypeOK
<1>3. \A v \in Worker : t \notin Elements(queue[v]) /\ cur[v] # t
  BY <1>1, OnePlace, NamesAssumption
<1>4. ASSUME NEW v \in Worker PROVE HandFirst(v)'
  BY <1>1, <1>2, <1>3 DEF OrderInv, HandFirst, TypeOK
<1>5. ASSUME NEW v \in Worker, NEW i \in 1..Len(queue[v])
      PROVE  before'[queue[v][i]] = before[queue[v][i]]
  <2>1. queue[v][i] \in Elements(queue[v]) /\ queue[v][i] \in Task
    BY DEF Elements, TypeOK
  <2> QED BY <1>2, <1>3, <2>1
<1>6. \A u \in before'[t] : u = cur'[w] \/ u \in Elements(queue'[w])
  <2> SUFFICES ASSUME NEW u \in Pending(o)
               PROVE  u = cur[w] \/ u \in Elements(queue[w])
    BY <1>1, <1>2
  <2>1. u \in Task /\ obj[u] = o /\ obj[u] # NoManaged
    BY NamesAssumption DEF Pending
  <2>2. /\ workerOf[o] \in Worker
        /\ u \in Elements(queue[workerOf[o]]) \/ u = cur[workerOf[o]]
    BY <1>1, <2>1 DEF PlaceInv
  <2>3. workerOf[o] = w
    BY <2>2 DEF AddTask, WorkersFor, NoWorker, Worker
  <2> QED BY <2>2, <2>3
<1>7. PostedLast'
  BY <1>1, <1>6 DEF PostedLast
<1>8. ASSUME NEW v \in Worker PROVE QueueInOrder(v)'
  BY <1>1, <1>5, QueueFrame DEF OrderInv
<1> QED BY <1>4, <1>7, <1>8 DEF OrderInv

\* It is posted behind them.
LEMMA PostTaskOrders ==
    ASSUME TypeOK, OwnerInv, OrderInv, PostTask
    PROVE  OrderInv'
<1> SUFFICES ASSUME NEW w, w = owner.worker, NEW x, x = owner.task
             PROVE  OrderInv'
  OBVIOUS
<1>1. /\ owner.pc = "post" /\ w \in Worker /\ x \in Task
      /\ queue' = [queue EXCEPT ![w] = Append(@, x)]
      /\ owner'.pc = "signal"
      /\ UNCHANGED <<cur, before>>
  BY DEF PostTask, OwnerInv, TypeOK
<1>2. /\ queue[w] \in Seq(Task) /\ queue'[w] = Append(queue[w], x)
      /\ \A v \in Worker \ {w} : queue'[v] = queue[v]
  BY <1>1 DEF TypeOK
<1>3. /\ Len(queue[w]) \in Nat /\ Len(queue'[w]) = Len(queue[w]) + 1
      /\ \A i \in 1..Len(queue[w]) : queue'[w][i] = queue[w][i]
      /\ queue'[w][Len(queue[w]) + 1] = x
  BY <1>1, <1>2, Appended
<1>4. QueueInOrder(w)'
  <2> SUFFICES ASSUME NEW i \in 1..Len(queue'[w]),
                      NEW t \in before'[queue'[w][i]]
               PROVE  t = cur'[w] \/ \E j \in 1..(i - 1) : queue'[w][j] = t
    BY DEF QueueInOrder
  <2>1. CASE i \in 1..Len(queue[w])
    <3>1. t = cur[w] \/ \E j \in 1..(i - 1) : queue[w][j] = t
      <4>1. t \in before[queue[w][i]]
        BY <1>1, <1>3, <2>1
      <4>2. QueueInOrder(w)
        BY <1>1 DEF OrderInv
      <4> QED BY <1>1, <2>1, <4>1, <4>2, Zenon DEF QueueInOrder
    <3>2. \A j \in 1..(i - 1) : queue'[w][j] = queue[w][j]
      BY <1>3, <2>1
    <3> QED BY <1>1, <3>1, <3>2
  <2>2. CASE i = Len(queue[w]) + 1
    <3>1. t = cur[w] \/ t \in Elements(queue[w])
      <4>1. t \in before[x]
        BY <1>1, <1>3, <2>2
      <4> QED BY <1>1, <4>1 DEF OrderInv, PostedLast
    <3>2. CASE t \in Elements(queue[w])
      <4>1. PICK j \in 1..Len(queue[w]) : queue[w][j] = t
        BY <3>2 DEF Elements
      <4>2. j \in 1..(i - 1) /\ queue'[w][j] = queue[w][j]
        BY <1>3, <2>2, <4>1
      <4> QED BY <4>1, <4>2
    <3> QED BY <1>1, <3>1, <3>2
  <2> QED BY <1>3, <2>1, <2>2
<1>5. ASSUME NEW v \in Worker, v # w PROVE QueueInOrder(v)'
  BY <1>1, <1>2, <1>5, QueueFrame DEF OrderInv
<1>6. ASSUME NEW v \in Worker PROVE HandFirst(v)'
  BY <1>1 DEF OrderInv, HandFirst
<1>7. PostedLast'
  BY <1>1 DEF PostedLast
<1> QED BY <1>4, <1>5, <1>6, <1>7 DEF OrderInv

\* The first task of a queue waits for nothing but the task in hand.
LEMMA ReadOrders ==
    ASSUME TypeOK, OwnerInv, PlaceInv, OrderInv, NEW w \in Worker, Read(w)
    PROVE  OrderInv'
<1>1. CASE queue[w] = <<>>
  BY <1>1, ReadNothing, OrderFrame
<1>2. CASE queue[w] # <<>>
  <2> SUFFICES ASSUME NEW h, h = Head(queue[w])
               PROVE  OrderInv'
    OBVIOUS
  <2>1. /\ pc[w] = "read" /\ cur' = [cur EXCEPT ![w] = h]
        /\ UNCHANGED <<before, owner>>
        /\ queue'[w] = Tail(queue[w])
        /\ \A v \in Worker \ {w} : queue'[v] = queue[v]
    BY <1>2, ReadTakes
  <2>2. cur[w] = NoTask
    BY <2>1 DEF PlaceInv, Busy
  <2>3. cur'[w] = h /\ \A v \in Worker \ {w} : cur'[v] = cur[v]
    BY <2>1 DEF TypeOK
  <2>4. /\ h \in Task /\ h = queue[w][1] /\ 1 \in 1..Len(queue[w])
        /\ Len(queue[w]) \in Nat /\ Len(queue'[w]) = Len(queue[w]) - 1
        /\ \A i \in 1..Len(queue'[w]) : queue'[w][i] = queue[w][i + 1]
        /\ Elements(queue[w]) = {h} \cup Elements(queue'[w])
    BY <1>2, <2>1, HeadAndTail DEF TypeOK
  <2>5. ASSUME NEW x \in Task
        PROVE  NoTask \notin before[x]
    BY NamesAssumption DEF TypeOK
  <2>6. before[h] = {}
    <3>1. \A t \in before[h] : t = cur[w] \/ \E j \in 1..(1 - 1) : queue[w][j] = t
      <4>1. QueueInOrder(w)
        BY DEF OrderInv
      <4> QED BY <2>4, <4>1 DEF QueueInOrder
    <3> QED BY <2>2, <2>4, <2>5, <3>1
  <2>7. ASSUME NEW v \in Worker PROVE HandFirst(v)'
    BY <2>1, <2>3, <2>6 DEF OrderInv, HandFirst
  <2>8. QueueInOrder(w)'
    <3> SUFFICES ASSUME NEW i \in 1..Len(queue'[w]),
                        NEW t \in before'[queue'[w][i]]
                 PROVE  t = cur'[w] \/ \E j \in 1..(i - 1) : queue'[w][j] = t
      BY DEF QueueInOrder
    <3>1. i + 1 \in 1..Len(queue[w]) /\ i \in Nat /\ t \in before[queue[w][i + 1]]
      BY <2>1, <2>4
    <3>2. queue[w][i + 1] \in Task
      BY <3>1 DEF TypeOK
    <3>3. t # cur[w]
      BY <2>2, <2>5, <3>1, <3>2
    <3>4. PICK j \in 1..(i + 1 - 1) : queue[w][j] = t
      BY <3>1, <3>3 DEF OrderInv, QueueInOrder
    <3>5. CASE j = 1
      BY <2>3, <2>4, <3>4, <3>5
    <3>6. CASE j # 1
      <4>1. j - 1 \in 1..(i - 1) /\ j - 1 \in 1..Len(queue'[w])
        BY <2>4, <3>1, <3>6
      <4>2. queue'[w][j - 1] = t
        <5>1. queue'[w][j - 1] = queue[w][(j - 1) + 1]
          BY <2>4, <4>1
        <5>2. (j - 1) + 1 = j
          BY <3>1, <3>4
        <5> QED BY <3>4, <5>1, <5>2
      <4> QED BY <4>1, <4>2
    <3> QED BY <3>5, <3>6
  <2>9. ASSUME NEW v \in Worker, v # w PROVE QueueInOrder(v)'
    <3>1. QueueInOrder(v)
      BY DEF OrderInv
    <3>2. UNCHANGED <<queue[v], cur[v], before>>
      BY <2>1, <2>3, <2>9
    <3> QED BY <3>1, <3>2, QueueFrame
  <2>10. PostedLast'
    <3> SUFFICES ASSUME owner.pc = "post", NEW t \in before[owner.task]
                 PROVE  \/ t = cur'[owner.worker]
                        \/ t \in Elements(queue'[owner.worker])
      BY <2>1 DEF PostedLast
    <3>1. owner.worker \in Worker /\ owner.task \in Task
      BY DEF OwnerInv
    <3>2. t = cur[owner.worker] \/ t \in Elements(queue[owner.worker])
      BY DEF OrderInv, PostedLast
    <3>3. t # NoTask
      BY <2>5, <3>1
    <3> QED BY <2>1, <2>2, <2>3, <2>4, <3>1, <3>2, <3>3
  <2> QED BY <2>7, <2>8, <2>9, <2>10 DEF OrderInv
<1> QED BY <1>1, <1>2

\* A task that has run and is deleted is waited for no longer.
LEMMA FinishTaskOrders ==
    ASSUME TypeOK, OwnerInv, PlaceInv, OrderInv, NEW w \in Worker, FinishTask(w)
    PROVE  OrderInv'
<1> SUFFICES ASSUME NEW d, d = cur[w]
             PROVE  OrderInv'
  OBVIOUS
<1>1. /\ before' = [t \in Task |-> before[t] \ {d}]
      /\ cur' = [cur EXCEPT ![w] = NoTask]
      /\ UNCHANGED <<queue, owner>>
  BY DEF FinishTask, DeleteTasks
<1>2. cur'[w] = NoTask /\ \A v \in Worker \ {w} : cur'[v] = cur[v]
  BY <1>1 DEF TypeOK
<1>3. \A t \in Task : before'[t] = before[t] \ {d}
  BY <1>1
<1>4. ASSUME NEW v \in Worker PROVE HandFirst(v)'
  <2>1. CASE v = w
    BY <1>2, <2>1 DEF HandFirst
  <2>2. CASE v # w
    BY <1>2, <1>3, <2>2 DEF OrderInv, HandFirst, TypeOK
  <2> QED BY <2>1, <2>2
<1>5. ASSUME NEW v \in Worker PROVE QueueInOrder(v)'
  <2> SUFFICES ASSUME NEW i \in 1..Len(queue[v]), NEW t \in before'[queue[v][i]]
               PROVE  t = cur'[v] \/ \E j \in 1..(i - 1) : queue[v][j] = t
    BY <1>1 DEF QueueInOrder
  <2>1. queue[v][i] \in Task
    BY DEF TypeOK
  <2>2. t \in before[queue[v][i]] /\ t # d
    BY <1>3, <2>1
  <2>3. t = cur[v] \/ \E j \in 1..(i - 1) : queue[v][j] = t
    BY <2>2 DEF OrderInv, QueueInOrder
  <2> QED BY <1>2, <2>2, <2>3
<1>6. PostedLast'
  <2> SUFFICES ASSUME owner.pc = "post", NEW t \in before'[owner.task]
               PROVE  \/ t = cur'[owner.worker]
                      \/ t \in Elements(queue[owner.worker])
    BY <1>1 DEF PostedLast
  <2>1. owner.worker \in Worker /\ owner.task \in Task
    BY DEF OwnerInv
  <2>2. t \in before[owner.task] /\ t # d
    BY <1>3, <2>1
  <2>3. t = cur[owner.worker] \/ t \in Elements(queue[owner.worker])
    BY <2>2 DEF OrderInv, PostedLast
  <2> QED BY <1>2, <2>1, <2>2, <2>3
<1> QED BY <1>4, <1>5, <1>6 DEF OrderInv

\* The order holds on after every step.
LEMMA OrderInvStep ==
    ASSUME IInv, [Next]_vars
    PROVE  OrderInv'
<1> USE DEF workerVars, managedVars
<1>1. TypeOK /\ OwnerInv /\ PlaceInv /\ OrderInv
  BY DEF IInv
<1>2. ASSUME NEW n \in 1..PoolSize, CreateWorker(n) PROVE OrderInv'
  BY <1>1, <1>2, OrderFrame DEF CreateWorker
<1>3. ASSUME NEW o \in Managed, NEW t \in Task, NEW w \in Worker,
            AddTask(o, t, w)
      PROVE  OrderInv'
  BY <1>1, <1>3, AddTaskOrders
<1>4. CASE PostTask
  BY <1>1, <1>4, PostTaskOrders
<1>5. CASE SignalWorker
  BY <1>1, <1>5, OrderFrame DEF SignalWorker, OwnerIdle, OwnerAt
<1>6. ASSUME NEW o \in Managed, BeginSync(o) PROVE OrderInv'
  BY <1>1, <1>6, OrderFrame DEF BeginSync, OwnerAt
<1>7. CASE EndSync
  BY <1>1, <1>7, OrderFrame DEF EndSync, OwnerIdle, OwnerAt
<1>8. ASSUME NEW o \in Managed, Destroy(o) PROVE OrderInv'
  <2>1. UNCHANGED cur /\ owner' = owner /\ owner.pc # "post"
    BY <1>1, <1>8, DestroyPurges DEF Destroy
  <2>2. CASE workerOf[o] \in Worker /\ Purge(workerOf[o], Pending(o))
    <3>1. Pending(o) \in SUBSET Task
      BY DEF Pending
    <3> QED BY <1>1, <2>1, <2>2, <3>1, PurgeOrders
  <2>3. CASE workerOf[o] = NoWorker /\ UNCHANGED <<queue, obj, before>>
    BY <1>1, <2>1, <2>3, OrderFrame
  <2> QED BY <1>1, <1>8, <2>2, <2>3, DestroyPurges
<1>9. CASE StopAll
  BY <1>1, <1>9, OrderFrame DEF StopAll, OwnerAt
<1>10. CASE StopWorker
  <2>1. owner'.pc # "post"
    BY <1>1, <1>10 DEF StopWorker, NextWorker, OwnerAt, TypeOK
  <2> QED BY <1>1, <1>10, <2>1, OrderFrame DEF StopWorker
<1>11. CASE JoinWorker
  <2>1. /\ owner.worker \in Worker /\ Purge(owner.worker, Task)
        /\ owner'.pc \in {"join", "stopped"} /\ UNCHANGED cur
    BY <1>1, <1>11, JoinPurges DEF JoinWorker
  <2> QED BY <1>1, <2>1, PurgeOrders
<1>12. ASSUME NEW w \in Worker, Read(w) PROVE OrderInv'
  BY <1>1, <1>12, ReadOrders
<1>13. ASSUME NEW w \in Worker, FinishTask(w) PROVE OrderInv'
  BY <1>1, <1>13, FinishTaskOrders
<1>14. ASSUME NEW w \in Worker,
              \/ Loop(w) \/ Lock(w) \/ Check(w) \/ Sleep(w)
              \/ SpuriousWakeup(w) \/ LockTasks(w) \/ UnlockTasks(w)
              \/ UseAfterFree(w)
       PROVE  OrderInv'
  BY <1>1, <1>14, OrderFrame DEF Loop, Lock, Check, Sleep, SpuriousWakeup,
     LockTasks, UnlockTasks, UseAfterFree
<1>15. CASE UNCHANGED vars
  BY <1>1, <1>15, OrderFrame DEF vars
<1> QED BY <1>2, <1>3, <1>4, <1>5, <1>6, <1>7, <1>8, <1>9, <1>10, <1>11,
     <1>12, <1>13, <1>14, <1>15 DEF Next, OwnerStep, OwnerContinues,
     WorkerStep

-----------------------------------------------------------------------------
(* The invariant, and the properties that follow from it. *)

\* The pool starts with idle workers, empty queues and objects without tasks.
LEMMA InitIInv ==
    ASSUME Init
    PROVE  IInv
<1> USE DEF NoWorker
<1>1. /\ <<>> \in Seq(Task) /\ Elements(<<>>) = {} /\ NoDuplicates(<<>>)
      /\ Len(<<>>) = 0
  BY DEF Elements, NoDuplicates
<1>2. TypeOK
  BY <1>1, PoolAssumption DEF Init, TypeOK, OwnerIdle, OwnerAt, Worker, Thread
<1>3. OwnerInv /\ SleepInv /\ MutexInv /\ StopInv /\ PoolInv
  BY PoolAssumption
     DEF Init, OwnerIdle, OwnerAt, OwnerInv, SleepInv, MutexInv, StopInv,
         PoolInv, Worker
<1>4. PlaceInv
  BY <1>1 DEF Init, OwnerIdle, OwnerAt, PlaceInv, Busy
<1>5. CountInv
  <2>1. \A o \in Managed : Pending(o) = {}
    BY NamesAssumption DEF Init, Pending
  <2>2. Cardinality({}) = 0
    BY FS_EmptySet
  <2>3. \A o \in alive : taskQueued[o] = 0 /\ Cardinality(Pending(o)) = 0
    BY <2>1, <2>2 DEF Init
  <2> QED BY <2>3 DEF CountInv
<1>6. AliveInv
  BY DEF Init, AliveInv
<1>7. OrderInv
  BY <1>1
     DEF Init, OwnerIdle, OwnerAt, OrderInv, HandFirst, QueueInOrder,
         PostedLast
<1> QED BY <1>2, <1>3, <1>4, <1>5, <1>6, <1>7 DEF IInv

\* IInv holds in every reachable state.
LEMMA Invariance == Spec => []IInv
<1>1. Init => IInv
  BY InitIInv
<1>2. IInv /\ [Next]_vars => IInv'
  <2> SUFFICES ASSUME IInv, [Next]_vars PROVE IInv'
    OBVIOUS
  <2>1. TypeOK' /\ OwnerInv' /\ PoolInv' /\ SleepInv' /\ MutexInv'
    BY TypeOKStep, OwnerInvStep, PoolInvStep, SleepInvStep, MutexInvStep
  <2>2. PlaceInv' /\ CountInv' /\ AliveInv' /\ OrderInv' /\ StopInv'
    BY PlaceInvStep, CountInvStep, AliveInvStep, OrderInvStep, StopInvStep
  <2> QED BY <2>1, <2>2 DEF IInv
<1> QED BY <1>1, <1>2, PTL DEF Spec

\* Whatever the threads do, every variable keeps its type; above all
\* m_TaskQueued, which a worker lowers without looking at it, is never lowered
\* below zero.
THEOREM TypeCorrect == Spec => []TypeOK
<1>1. IInv => TypeOK
  BY DEF IInv
<1> QED BY <1>1, Invariance, PTL

\* hasTaskOrMessagePending() is exact for every object that exists, from the
\* first task to the start of stopAll()'s joins.
THEOREM CountersAreExact == Spec => []TaskQueuedIsExact
<1>1. IInv => TaskQueuedIsExact
  BY DEF IInv, CountInv, TaskQueuedIsExact
<1> QED BY <1>1, Invariance, PTL

\* A worker never uses a Managed object whose owner asked for m_TaskQueued
\* before it deleted it.
THEOREM CarefulIsSafe == Spec => []NoUseAfterFree
<1>1. IInv => NoUseAfterFree
  BY DEF IInv, PlaceInv, Busy, AliveInv, NoUseAfterFree
<1> QED BY <1>1, Invariance, PTL

\* Even a deletion that asks for nothing leaves at most one task behind, the one
\* its object's worker has dequeued.
THEOREM DeletionIsConfined == Spec => []OnlyTheTaskInHandOutlives
<1>1. IInv => OnlyTheTaskInHandOutlives
  <2> SUFFICES ASSUME IInv, NEW o \in Managed \ alive, NEW t \in Pending(o)
               PROVE  workerOf[o] # NoWorker /\ cur[workerOf[o]] = t
    BY DEF OnlyTheTaskInHandOutlives
  <2>1. t \in Task /\ obj[t] = o /\ obj[t] # NoManaged
    BY NamesAssumption DEF Pending
  <2>2. /\ workerOf[o] \in Worker
        /\ \/ t \in Elements(queue[workerOf[o]])
           \/ t = cur[workerOf[o]]
           \/ owner.pc = "post" /\ owner.task = t
    BY <2>1 DEF IInv, PlaceInv
  <2>3. t \notin Elements(queue[workerOf[o]])
    BY <2>1, <2>2 DEF IInv, PlaceInv
  <2>4. ~(owner.pc = "post" /\ owner.task = t)
    BY <2>1 DEF IInv, OwnerInv
  <2> QED BY <2>2, <2>3, <2>4 DEF Worker, NoWorker
<1> QED BY <1>1, Invariance, PTL

\* When a task runs, every task its object was given before it is gone.
THEOREM TasksRunInOrder == Spec => []TasksInOrder
<1>1. IInv => TasksInOrder
  BY DEF IInv, PlaceInv, Busy, OrderInv, HandFirst, TasksInOrder
<1> QED BY <1>1, Invariance, PTL

\* An object's tasks and its owner's synchronous operations exclude each other.
THEOREM MutualExclusion == Spec => []OneAtATime
<1>1. IInv => OneAtATime
  BY NamesAssumption DEF IInv, MutexInv, OneAtATime, Worker
<1> QED BY <1>1, Invariance, PTL

\* Who asks for m_TaskQueued deletes safely, and who does not leaves one task.
THEOREM DeletionSafety == Spec => []DeletionIsSafe
BY CarefulIsSafe, DeletionIsConfined, PTL DEF DeletionIsSafe

\* Managed is a thread of its own to every object: its tasks run in order and
\* exclude each other and its synchronous operations.
THEOREM SerialExecution == Spec => []TasksAreSerial
BY TasksRunInOrder, MutualExclusion, PTL DEF TasksAreSerial

\* A worker that waits has no message whose signal is not still to come, and
\* has not been told to stop.
THEOREM WakeupsAreNotLost == Spec => []NoLostWakeup
<1>1. IInv => NoLostWakeup
  BY DEF IInv, SleepInv, NoLostWakeup
<1> QED BY <1>1, Invariance, PTL

\* stopAll() returns with every thread gone and every queue empty.
THEOREM StopIsComplete == Spec => []StoppedIsQuiet
<1>1. IInv => StoppedIsQuiet
  BY DEF IInv, StopInv, StoppedIsQuiet
<1> QED BY <1>1, Invariance, PTL
=============================================================================
