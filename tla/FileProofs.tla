------------------------------ MODULE FileProofs ------------------------------
(***************************************************************************)
(* A File in the hands of a script (JSFile) and of File.read() (FileRead), *)
(* for every number of callbacks and of operations under way: the two      *)
(* counters that unroot() rests on, and what a deleted File leaves behind. *)
(***************************************************************************)
EXTENDS MCFile, TLAPS

Tasks == [op : Op, ref : Ref \cup {NoRef}]
Posts == [event : Event, ref : Ref \cup {NoRef}]

\* The task that the worker has in hand, counted as one.
InHand == IF wpc = "idle" THEN 0 ELSE 1

\* The counters are never below what they count.
FileInv ==
    /\ wpc = "idle" => task = NoTask
    /\ wpc # "idle" => task.op \in Op
    /\ taskQueued >= Len(tasks) + InHand
    /\ pending >= Len(inbox)

\* While the program runs they are exact, nothing uses a File that is deleted,
\* and between its two reads unroot() has no task to fear.
QuietInv ==
    phase = "running" =>
        /\ reader
        /\ taskQueued = Len(tasks) + InHand /\ pending = Len(inbox)
        /\ life # "alive" => ~rooted
        /\ main.pc = "checkMessages" => taskQueued = 0
        /\ ~rooted => tasks = <<>> /\ wpc = "idle" /\ inbox = <<>>

IInv == TypeOK /\ FileInv /\ QuietInv
-----------------------------------------------------------------------------
(* The worker, and the operators that the steps of the main thread are made *)
(* of.                                                                      *)

LEMMA QueueOf ==
    ASSUME NEW T, NEW q \in Seq(T)
    PROVE  /\ <<>> \in Seq(T) /\ Len(<<>>) = 0
           /\ q # <<>> => /\ Head(q) \in T /\ Tail(q) \in Seq(T)
                          /\ Len(Tail(q)) = Len(q) - 1 /\ Len(q) > 0
           /\ \A x \in T : /\ Append(q, x) \in Seq(T)
                           /\ Len(Append(q, x)) = Len(q) + 1
           /\ \A r \in Seq(T) : /\ q \o r \in Seq(T)
                                /\ Len(q \o r) = Len(q) + Len(r)
           /\ Len(q) \in Nat
           /\ Len(q) = 0 => q = <<>>
  OBVIOUS

LEMMA FileTypes ==
    FileTypeOK <=>
        /\ fd \in {"none", "file", "dir"} /\ openSync \in BOOLEAN
        /\ tasks \in Seq(Tasks)
        /\ task \in [op : Op \cup {"none"}, ref : Ref \cup {NoRef}]
        /\ wpc \in {"idle", "lockTasks", "run", "done", "aborted"}
        /\ taskQueued \in Nat /\ pending \in Nat
        /\ inbox \in Seq(Posts)
        /\ mutex \in {"free", "worker"}
        /\ life \in {"alive", "closed", "noTasks", "freed"}
        /\ reader \in BOOLEAN /\ straggler \in BOOLEAN
  BY DEF FileTypeOK, Tasks, Posts

\* What a task's function may do.
LEMMA OutcomeTypes ==
    ASSUME fd \in {"none", "file", "dir"}, NEW op \in Op,
           NEW out \in Outcomes(op)
    PROVE  out[1] \in {"none", "file", "dir"} /\ out[2] \in Event \cup {"none"}
<1>1. CASE op \in Opens
  BY <1>1 DEF Outcomes, Opens, Event
<1>2. CASE op = "close"
  BY <1>2 DEF Outcomes, Opens, Event
<1>3. CASE op = "read"
  BY <1>3 DEF Outcomes, Opens, Event
<1>4. CASE op = "write"
  BY <1>4 DEF Outcomes, Opens, Event
<1>5. CASE op = "seek"
  BY <1>5 DEF Outcomes, Opens, Event
<1>6. CASE op = "list"
  BY <1>6 DEF Outcomes, Opens, Event
<1> QED BY <1>1, <1>2, <1>3, <1>4, <1>5, <1>6 DEF Op

LEMMA TaskTypes ==
    ASSUME NEW t \in Tasks
    PROVE  /\ t.op \in Op /\ t # NoTask
           /\ t \in [op : Op \cup {"none"}, ref : Ref \cup {NoRef}]
<1>1. t.op # NoTask.op
  BY DEF Tasks, Op, Opens, NoTask, NewTask
<1> QED BY <1>1 DEF Tasks

\* A task is run: what it leaves of the messages.
LEMMA RunTaskKeeps ==
    ASSUME FileTypeOK, FileInv, RunTask
    PROVE  /\ FileTypeOK' /\ FileInv'
           /\ wpc # "idle" /\ wpc' # "idle"
           /\ UNCHANGED <<life, reader, tasks, taskQueued, straggler>>
           /\ Len(inbox') <= Len(inbox) + 1 /\ wpc = "run" /\ wpc' = "done"
           /\ pending = Len(inbox) => pending' = Len(inbox')
<1>1. PICK out \in Outcomes(task.op) :
          /\ fd' = out[1]
          /\ IF out[2] = "none" THEN UNCHANGED messageVars
             ELSE /\ inbox' = Append(inbox, [event |-> out[2],
                                             ref |-> EventRef(task)])
                  /\ pending' = pending + 1
  BY DEF RunTask
<1>2. /\ wpc = "run" /\ wpc' = "done" /\ mutex' = "free"
      /\ UNCHANGED <<openSync, tasks, task, taskQueued, life, reader,
                     straggler>>
  BY DEF RunTask
<1>3. task.op \in Op /\ out[1] \in {"none", "file", "dir"}
  BY <1>1, <1>2, OutcomeTypes DEF FileInv, FileTypeOK
<1>4. out[2] # "none" => [event |-> out[2], ref |-> EventRef(task)] \in Posts
  <2>1. out[2] \in Event \cup {"none"}
    BY <1>1, <1>3, OutcomeTypes DEF FileTypeOK
  <2>2. EventRef(task) \in Ref \cup {NoRef}
    BY DEF EventRef, FileTypeOK
  <2> QED BY <2>1, <2>2 DEF Posts
<1>5. inbox \in Seq(Posts) /\ pending \in Nat
  BY FileTypes
<1>6. /\ inbox' \in Seq(Posts) /\ pending' \in Nat
      /\ pending' - Len(inbox') = pending - Len(inbox)
      /\ Len(inbox') <= Len(inbox) + 1
      /\ Len(inbox) \in Nat /\ Len(inbox') \in Nat
  <2>1. CASE out[2] = "none"
    BY <1>1, <1>5, <2>1, QueueOf DEF messageVars
  <2>2. CASE out[2] # "none"
    <3> DEFINE e == [event |-> out[2], ref |-> EventRef(task)]
    <3>1. e \in Posts /\ inbox' = Append(inbox, e) /\ pending' = pending + 1
      BY <1>1, <1>4, <2>2
    <3> HIDE DEF e
    <3>2. /\ inbox' \in Seq(Posts) /\ Len(inbox') = Len(inbox) + 1
          /\ Len(inbox) \in Nat
      BY <1>5, <3>1, QueueOf
    <3> QED BY <1>5, <3>1, <3>2
  <2> QED BY <2>1, <2>2
<1>7. FileTypeOK'
  BY <1>1, <1>2, <1>3, <1>6, FileTypes DEF FileTypeOK, Tasks, Posts
<1>8. FileInv'
  BY <1>2, <1>3, <1>5, <1>6 DEF FileInv, InHand
<1> QED BY <1>2, <1>5, <1>6, <1>7, <1>8

LEMMA WorkerKeeps ==
    ASSUME FileTypeOK, FileInv, Worker
    PROVE  FileTypeOK' /\ FileInv'
<1>1. /\ tasks \in Seq(Tasks) /\ inbox \in Seq(Posts)
      /\ Len(tasks) \in Nat /\ Len(inbox) \in Nat
  BY FileTypes, QueueOf
<1>2. CASE ReadTask
  <2>1. /\ Head(tasks) \in Tasks /\ Tail(tasks) \in Seq(Tasks)
        /\ Len(Tail(tasks)) = Len(tasks) - 1
    BY <1>1, <1>2, QueueOf DEF ReadTask
  <2>2. /\ task' = Head(tasks) /\ tasks' = Tail(tasks) /\ wpc = "idle"
        /\ wpc' = "lockTasks"
        /\ UNCHANGED <<fd, openSync, taskQueued, inbox, pending, mutex, life,
                       reader, straggler>>
    BY <1>2 DEF ReadTask, messageVars
  <2>3. task'.op \in Op
        /\ task' \in [op : Op \cup {"none"}, ref : Ref \cup {NoRef}]
    BY <2>1, <2>2, TaskTypes
  <2>4. FileTypeOK'
    BY <2>1, <2>2, <2>3 DEF FileTypeOK, Tasks
  <2>5. FileInv'
    BY <1>1, <2>1, <2>2, <2>3 DEF FileInv, InHand, FileTypeOK
  <2> QED BY <2>4, <2>5
<1>3. CASE LockTasks \/ PostAborts
  <2>1. /\ wpc # "idle" /\ mutex' \in {"free", "worker"}
        /\ wpc' \in {"run", "aborted"}
        /\ UNCHANGED <<fd, openSync, tasks, task, taskQueued, inbox, pending,
                       life, reader, straggler>>
    BY <1>3 DEF LockTasks, PostAborts, messageVars, FileTypeOK
  <2> QED BY <2>1 DEF FileTypeOK, FileInv, InHand
<1>4. CASE FinishTask
  <2>1. /\ wpc = "done" /\ wpc' = "idle" /\ task' = NoTask
        /\ taskQueued' = taskQueued - 1
        /\ UNCHANGED <<fd, openSync, tasks, inbox, pending, mutex, life,
                       reader, straggler>>
    BY <1>4 DEF FinishTask, messageVars
  <2>2. NoTask \in [op : Op \cup {"none"}, ref : Ref \cup {NoRef}]
    BY DEF NoTask, NewTask
  <2>3. taskQueued' \in Nat /\ taskQueued' >= Len(tasks)
    BY <1>1, <2>1 DEF FileInv, InHand, FileTypeOK
  <2>4. FileTypeOK'
    BY <2>1, <2>2, <2>3 DEF FileTypeOK
  <2>5. FileInv'
    BY <1>1, <2>1, <2>3 DEF FileInv, InHand
  <2> QED BY <2>4, <2>5
<1> QED BY <1>2, <1>3, <1>4, RunTaskKeeps DEF Worker

LEMMA AddTasksKeeps ==
    ASSUME FileTypeOK, FileInv, NEW new \in Seq(Tasks), AddTasks(new),
           UNCHANGED <<fd, openSync, messageVars, mutex, life, reader,
                       straggler>>
    PROVE  /\ FileTypeOK' /\ FileInv' /\ life = "alive"
           /\ taskQueued' - Len(tasks') - InHand' = taskQueued - Len(tasks) - InHand
           /\ UNCHANGED <<wpc, inbox, pending>>
<1>1. /\ tasks' = tasks \o new /\ taskQueued' = taskQueued + Len(new)
      /\ life = "alive"
      /\ UNCHANGED <<fd, openSync, task, wpc, inbox, pending, mutex, life,
                     reader, straggler>>
  BY DEF AddTasks, messageVars
<1>2. /\ tasks' \in Seq(Tasks) /\ Len(tasks') = Len(tasks) + Len(new)
      /\ Len(tasks) \in Nat /\ Len(new) \in Nat
  BY <1>1, QueueOf, FileTypes
<1>3. taskQueued \in Nat
  BY DEF FileTypeOK
<1>4. FileTypeOK'
  BY <1>1, <1>2, <1>3 DEF FileTypeOK, Tasks
<1>5. FileInv'
  BY <1>1, <1>2, <1>3 DEF FileInv, InHand
<1>6. taskQueued' - Len(tasks') - InHand' = taskQueued - Len(tasks) - InHand
  BY <1>1, <1>2, <1>3 DEF InHand
<1> QED BY <1>1, <1>4, <1>5, <1>6

LEMMA NextMessageKeeps ==
    ASSUME FileTypeOK, FileInv, NextMessage,
           UNCHANGED <<fd, openSync, workerVars, mutex, life, reader,
                       straggler>>
    PROVE  /\ FileTypeOK' /\ FileInv' /\ Head(inbox) \in Posts
           /\ inbox # <<>>
           /\ UNCHANGED <<tasks, wpc, taskQueued>>
           /\ pending = Len(inbox) => pending' = Len(inbox')
<1>1. /\ inbox # <<>> /\ inbox' = Tail(inbox) /\ pending' = pending - 1
      /\ UNCHANGED <<fd, openSync, tasks, task, wpc, taskQueued, mutex, life,
                     reader, straggler>>
  BY DEF NextMessage, workerVars
<1>2. /\ Head(inbox) \in Posts /\ inbox' \in Seq(Posts)
      /\ Len(inbox') = Len(inbox) - 1 /\ Len(inbox) \in Nat /\ Len(inbox) > 0
  BY <1>1, QueueOf, FileTypes
<1>3. pending' \in Nat /\ pending' >= Len(inbox')
  BY <1>1, <1>2 DEF FileInv, FileTypeOK
<1>4. FileTypeOK'
  BY <1>1, <1>2, <1>3 DEF FileTypeOK, Posts
<1>5. FileInv'
  BY <1>1, <1>3 DEF FileInv, InHand
<1> QED BY <1>1, <1>2, <1>4, <1>5

LEMMA EmptyOr ==
    ASSUME NEW T, NEW q \in Seq(T), NEW r \in {q, <<>>}
    PROVE  /\ r \in Seq(T) /\ Len(r) <= Len(q)
           /\ Len(r) \in Nat /\ Len(q) \in Nat
<1>1. CASE r = q
  BY <1>1
<1>2. CASE r = <<>>
  BY <1>2
<1> QED BY <1>1, <1>2

LEMMA DeleteKeeps ==
    ASSUME FileTypeOK, FileInv,
           \/ DeleteFile /\ straggler' = straggler
           \/ ContinueDelete,
           reader' \in BOOLEAN
    PROVE  FileTypeOK' /\ FileInv'
<1>1. CASE DeleteFile /\ straggler' = straggler
  BY <1>1 DEF DeleteFile, workerVars, messageVars, FileTypeOK, FileInv, InHand
<1>2. CASE ContinueDelete
  <2>1. /\ tasks' \in {tasks, <<>>} /\ inbox' \in {inbox, <<>>}
        /\ life' \in {"noTasks", "freed"}
        /\ UNCHANGED <<fd, openSync, task, wpc, taskQueued, pending, mutex,
                       reader>>
    BY <1>2 DEF ContinueDelete, DeleteTasks, DeleteMessages, messageVars
  <2>5. straggler' \in BOOLEAN
    <3>1. straggler' = straggler \/ straggler' = ToPost
      BY <1>2 DEF ContinueDelete, DeleteTasks, DeleteMessages
    <3>2. straggler \in BOOLEAN /\ ToPost \in BOOLEAN
      BY DEF FileTypeOK, ToPost
    <3> QED BY <3>1, <3>2
  <2>2. /\ tasks' \in Seq(Tasks) /\ inbox' \in Seq(Posts)
        /\ Len(tasks') <= Len(tasks) /\ Len(inbox') <= Len(inbox)
        /\ Len(tasks') \in Nat /\ Len(inbox') \in Nat
        /\ Len(tasks) \in Nat /\ Len(inbox) \in Nat
    <3>2. tasks \in Seq(Tasks) /\ inbox \in Seq(Posts)
      BY FileTypes
    <3> QED BY <2>1, <3>2, EmptyOr
  <2>3. FileTypeOK'
    BY <2>1, <2>2, <2>5 DEF FileTypeOK, Tasks, Posts
  <2>4. FileInv'
    BY <2>1, <2>2 DEF FileInv, InHand, FileTypeOK
  <2> QED BY <2>3, <2>4
<1> QED BY <1>1, <1>2

LEMMA FileStart ==
    ASSUME FileInit
    PROVE  /\ FileTypeOK /\ FileInv /\ reader /\ life = "alive"
           /\ tasks = <<>> /\ inbox = <<>> /\ wpc = "idle"
           /\ taskQueued = 0 /\ pending = 0
<1>1. NoTask \in [op : Op \cup {"none"}, ref : Ref \cup {NoRef}]
  BY DEF NoTask, NewTask
<1>2. tasks \in Seq(Tasks) /\ inbox \in Seq(Posts)
  BY DEF FileInit
<1>3. FileTypeOK
  BY <1>1, <1>2, FileTypes DEF FileInit
<1> QED BY <1>3 DEF FileInit, FileInv, InHand
-----------------------------------------------------------------------------
(* A File of a script. *)

LEMMA InitIInv == Init => IInv
<1> SUFFICES ASSUME Init PROVE IInv
  OBVIOUS
<1>1. /\ FileTypeOK /\ FileInv /\ reader /\ life = "alive"
      /\ tasks = <<>> /\ inbox = <<>> /\ wpc = "idle"
      /\ taskQueued = 0 /\ pending = 0
  BY FileStart DEF Init
<1>2. TypeOK
  BY <1>1 DEF Init, TypeOK, Idle, MainAt
<1>3. QuietInv
  BY <1>1 DEF Init, QuietInv, InHand, Idle, MainAt
<1> QED BY <1>1, <1>2, <1>3 DEF IInv

\* The operations of a script add tasks, and root the object.
CallAdds ==
    /\ JSRuns
    /\ \E new \in Seq(Tasks) : AddTasks(new)
    /\ rooted' = TRUE /\ callback' \in [Ref -> Op \cup {"free"}]
    /\ UNCHANGED <<fd, openSync, messageVars, mutex, life, reader, straggler,
                   reachable, main, phase>>

LEMMA Calling ==
    ASSUME IInv,
           \/ \E op \in Calls, r \in Ref : JSCall(op, r)
           \/ \E r \in Ref : JS_listFiles(r)
           \/ JS_close
    PROVE  CallAdds
<1>1. callback \in [Ref -> Op \cup {"free"}]
  BY DEF IInv, TypeOK
<1>2. ASSUME NEW op \in Calls, NEW r \in Ref, JSCall(op, r) PROVE CallAdds
  <2>1. op \in Op
    BY CallsAssumption DEF Op
  <2>2. <<NewTask(op, r)>> \in Seq(Tasks)
    BY <2>1 DEF Tasks, NewTask
  <2>3. callback' \in [Ref -> Op \cup {"free"}]
    BY <1>1, <1>2, <2>1 DEF JSCall, Root
  <2>4. /\ JSRuns /\ AddTasks(<<NewTask(op, r)>>) /\ rooted' = TRUE
        /\ UNCHANGED <<fd, openSync, messageVars, mutex, life, reader,
                       straggler, reachable, main, phase>>
    BY <1>2 DEF JSCall
  <2> HIDE DEF Tasks
  <2> QED BY <2>2, <2>3, <2>4 DEF CallAdds
<1>3. ASSUME NEW r \in Ref, JS_listFiles(r) PROVE CallAdds
  <2> DEFINE new == (IF fd = "none" THEN <<NewTask("open_r", NoRef)>> ELSE <<>>)
                        \o <<NewTask("list", r)>>
  <2>1. NewTask("open_r", NoRef) \in Tasks /\ NewTask("list", r) \in Tasks
    BY DEF Tasks, NewTask, Op, Opens
  <2>2. new \in Seq(Tasks)
    <3>1. \A a, b \in Tasks : /\ <<a>> \o <<b>> \in Seq(Tasks)
                              /\ <<>> \o <<b>> \in Seq(Tasks)
      OBVIOUS
    <3> HIDE DEF Tasks
    <3> QED BY <2>1, <3>1
  <2>3. callback' \in [Ref -> Op \cup {"free"}]
    BY <1>1, <1>3 DEF JS_listFiles, Root, Op
  <2>4. /\ JSRuns /\ AddTasks(new) /\ rooted' = TRUE
        /\ UNCHANGED <<fd, openSync, messageVars, mutex, life, reader,
                       straggler, reachable, main, phase>>
    BY <1>3 DEF JS_listFiles
  <2> HIDE DEF new, Tasks
  <2> QED BY <2>2, <2>3, <2>4 DEF CallAdds
<1>4. ASSUME JS_close PROVE CallAdds
  <2>1. <<NewTask("close", NoRef)>> \in Seq(Tasks)
    BY DEF Tasks, NewTask, Op
  <2>2. /\ JSRuns /\ AddTasks(<<NewTask("close", NoRef)>>) /\ rooted' = TRUE
        /\ UNCHANGED <<fd, openSync, messageVars, mutex, life, reader,
                       straggler, reachable, main, phase, callback>>
    BY <1>4 DEF JS_close
  <2> HIDE DEF Tasks
  <2> QED BY <1>1, <2>1, <2>2 DEF CallAdds
<1> QED BY <1>2, <1>3, <1>4

LEMMA CallKeeps == ASSUME IInv, CallAdds PROVE IInv'
<1>1. PICK new \in Seq(Tasks) : AddTasks(new)
  BY DEF CallAdds
<1>2. /\ FileTypeOK /\ FileInv
      /\ rooted' = TRUE /\ callback' \in [Ref -> Op \cup {"free"}]
      /\ UNCHANGED <<fd, openSync, messageVars, mutex, life, reader, straggler,
                     reachable, main, phase>>
      /\ phase = "running" /\ main.pc # "checkMessages"
  BY DEF CallAdds, IInv, TypeOK, JSRuns
<1>3. /\ FileTypeOK' /\ FileInv' /\ life = "alive"
      /\ taskQueued' - Len(tasks') - InHand' = taskQueued - Len(tasks) - InHand
      /\ UNCHANGED <<wpc, inbox, pending>>
  BY <1>1, <1>2, AddTasksKeeps
<1>4. TypeOK'
  BY <1>2, <1>3 DEF IInv, TypeOK
<1>5. QuietInv'
  <2>1. taskQueued' = Len(tasks') + InHand'
    <3>1. /\ taskQueued = Len(tasks) + InHand
          /\ taskQueued \in Nat /\ taskQueued' \in Nat
          /\ Len(tasks) \in Nat /\ Len(tasks') \in Nat
          /\ InHand \in Nat /\ InHand' \in Nat
      BY <1>2, <1>3, FileTypes, QueueOf
      DEF IInv, QuietInv, InHand, FileTypeOK, Tasks
    <3> HIDE DEF InHand
    <3> QED BY <1>3, <3>1
  <2> QED BY <1>2, <1>3, <2>1 DEF IInv, QuietInv
<1> QED BY <1>3, <1>4, <1>5 DEF IInv

LEMMA WorkingKeeps == ASSUME IInv, Worker, UNCHANGED jsVars PROVE IInv'
<1>1. /\ FileTypeOK /\ FileInv /\ QuietInv
      /\ UNCHANGED <<rooted, reachable, callback, main, phase>>
  BY DEF IInv, TypeOK, jsVars
<1>2. FileTypeOK' /\ FileInv'
  BY <1>1, WorkerKeeps
<1>3. TypeOK'
  BY <1>1, <1>2 DEF IInv, TypeOK
<1>4. ASSUME phase = "running"
      PROVE  /\ rooted /\ reader /\ life = "alive"
             /\ taskQueued = Len(tasks) + InHand /\ pending = Len(inbox)
             /\ main.pc # "checkMessages"
             /\ Len(tasks) \in Nat /\ Len(inbox) \in Nat
  <2>1. /\ reader
        /\ life # "alive" => ~rooted
        /\ taskQueued = Len(tasks) + InHand /\ pending = Len(inbox)
        /\ main.pc = "checkMessages" => taskQueued = 0
        /\ ~rooted => tasks = <<>> /\ wpc = "idle"
    BY <1>1, <1>4 DEF QuietInv
  <2>2. /\ Len(tasks) \in Nat /\ Len(inbox) \in Nat
        /\ Len(tasks) = 0 => tasks = <<>>
    BY <1>1, FileTypes, QueueOf
  <2>3. wpc # "idle" \/ tasks # <<>>
    BY DEF Worker, ReadTask, LockTasks, RunTask, PostAborts, FinishTask
  <2>4. Len(tasks) + InHand # 0
    BY <2>2, <2>3 DEF InHand
  <2>5. main.pc # "checkMessages" /\ rooted
    BY <2>1, <2>3, <2>4
  <2> QED BY <1>1, <2>1, <2>2, <2>5 DEF FileTypeOK
<1>5. ASSUME phase = "running"
      PROVE  /\ UNCHANGED <<reader, life>>
             /\ taskQueued' = Len(tasks') + InHand' /\ pending' = Len(inbox')
  <2>1. CASE ReadTask
    <3>1. Len(tasks') = Len(tasks) - 1
      BY <1>1, <2>1, FileTypes, QueueOf DEF ReadTask
    <3> QED BY <1>4, <1>5, <2>1, <3>1 DEF ReadTask, messageVars, InHand
  <2>2. CASE LockTasks
    BY <1>4, <1>5, <2>2 DEF LockTasks, messageVars, InHand
  <2>3. CASE RunTask
    <3>1. /\ wpc # "idle" /\ wpc' # "idle"
          /\ UNCHANGED <<life, reader, tasks, taskQueued>>
          /\ pending = Len(inbox) => pending' = Len(inbox')
      BY <1>1, <2>3, RunTaskKeeps
    <3> QED BY <1>4, <1>5, <3>1 DEF InHand
  <2>4. CASE FinishTask
    BY <1>4, <1>5, <2>4 DEF FinishTask, messageVars, InHand
  <2>5. ~PostAborts
    BY <1>4, <1>5 DEF PostAborts
  <2> QED BY <2>1, <2>2, <2>3, <2>4, <2>5 DEF Worker
<1>6. QuietInv'
  BY <1>1, <1>4, <1>5 DEF QuietInv
<1> QED BY <1>2, <1>3, <1>6 DEF IInv

\* What leaves the File and its counters alone leaves the invariant, unless it
\* is unroot().
LEMMA MainKeeps ==
    ASSUME IInv, UNCHANGED <<fileVars, rooted>>, phase' = phase,
           reachable' \in BOOLEAN, callback' \in [Ref -> Op \cup {"free"}],
           main' \in [pc : {"idle", "callback", "checkTasks", "checkMessages"},
                      ref : Ref \cup {NoRef}],
           phase = "running" /\ main'.pc = "checkMessages" => taskQueued = 0
    PROVE  IInv'
<1>1. /\ FileTypeOK /\ FileInv
      /\ UNCHANGED <<fd, openSync, tasks, task, wpc, taskQueued, inbox, pending,
                     mutex, life, reader, straggler, rooted, phase>>
  BY DEF IInv, TypeOK, fileVars, workerVars, messageVars
<1>2. FileTypeOK' /\ FileInv'
  BY <1>1 DEF FileTypeOK, FileInv, InHand
<1>3. TypeOK'
  BY <1>1, <1>2 DEF IInv, TypeOK
<1>4. QuietInv'
  BY <1>1 DEF IInv, QuietInv, InHand
<1> QED BY <1>2, <1>3, <1>4 DEF IInv

LEMMA StepsKeep ==
    ASSUME IInv,
           \/ JS_openSync \/ JS_closeSync
           \/ \E b \in BOOLEAN : KeepReference(b)
           \/ CallbackReturns \/ CheckTasks
    PROVE  IInv'
<1>1. /\ FileTypeOK /\ FileInv /\ reachable \in BOOLEAN /\ rooted \in BOOLEAN
      /\ callback \in [Ref -> Op \cup {"free"}]
      /\ main \in [pc : {"idle", "callback", "checkTasks", "checkMessages"},
                   ref : Ref \cup {NoRef}]
  BY DEF IInv, TypeOK
<1>2. CASE JS_openSync \/ JS_closeSync
  <2>1. /\ fd' \in {"none", "file", "dir"} /\ openSync' \in BOOLEAN
        /\ UNCHANGED <<tasks, task, wpc, taskQueued, inbox, pending, mutex,
                       life, reader, straggler, rooted, reachable, callback, main,
                       phase>>
    BY <1>1, <1>2
    DEF JS_openSync, JS_closeSync, workerVars, messageVars, jsVars, FileTypeOK
  <2>2. FileTypeOK' /\ FileInv'
    BY <1>1, <2>1 DEF FileTypeOK, FileInv, InHand
  <2> QED BY <1>1, <2>1, <2>2 DEF IInv, TypeOK, QuietInv, InHand
<1>3. ASSUME NEW b \in BOOLEAN, KeepReference(b) PROVE IInv'
  BY <1>1, <1>3, MainKeeps DEF KeepReference, IInv, QuietInv
<1>4. CASE CallbackReturns
  <2>1. [main EXCEPT !.pc = "checkTasks"]
            \in [pc : {"idle", "callback", "checkTasks", "checkMessages"},
                 ref : Ref \cup {NoRef}]
    BY <1>1
  <2>2. main'.pc = "checkTasks"
    BY <1>1, <1>4 DEF CallbackReturns
  <2> QED BY <1>1, <1>4, <2>1, <2>2, MainKeeps DEF CallbackReturns
<1>5. CASE CheckTasks
  <2>1. CASE taskQueued = 0
    <3>1. [main EXCEPT !.pc = "checkMessages"]
            \in [pc : {"idle", "callback", "checkTasks", "checkMessages"},
                 ref : Ref \cup {NoRef}]
      BY <1>1
    <3> QED BY <1>1, <1>5, <2>1, <3>1, MainKeeps DEF CheckTasks
  <2>2. CASE taskQueued # 0
    <3>1. /\ Idle \in [pc : {"idle", "callback", "checkTasks", "checkMessages"},
                       ref : Ref \cup {NoRef}]
          /\ Idle.pc = "idle"
      BY DEF Idle, MainAt
    <3>2. /\ main' = Idle
          /\ callback' = [callback EXCEPT ![main.ref] = "free"]
          /\ UNCHANGED <<fileVars, rooted, reachable, phase>>
      BY <1>5, <2>2 DEF CheckTasks, MessageDone
    <3>3. callback' \in [Ref -> Op \cup {"free"}]
      BY <1>1, <3>2
    <3> QED BY <1>1, <3>1, <3>2, <3>3, MainKeeps
  <2> QED BY <2>1, <2>2
<1> QED BY <1>2, <1>3, <1>4, <1>5

\* unroot(): between the two reads of the counters the worker has nothing to
\* do, and the second one is the truth.
LEMMA UnrootKeeps == ASSUME IInv, CheckMessages PROVE IInv'
<1>1. /\ FileTypeOK /\ FileInv
      /\ UNCHANGED <<fd, openSync, tasks, task, wpc, taskQueued, inbox, pending,
                     mutex, life, reader, straggler, reachable, phase>>
      /\ main.pc = "checkMessages" /\ main' = Idle
      /\ (rooted' <=> rooted /\ pending # 0) /\ rooted' \in BOOLEAN
      /\ callback' = [callback EXCEPT ![main.ref] = "free"]
  BY DEF IInv, TypeOK, CheckMessages, MessageDone, fileVars, workerVars,
         messageVars
<1>2. FileTypeOK' /\ FileInv'
  BY <1>1 DEF FileTypeOK, FileInv, InHand
<1>3. TypeOK'
  BY <1>1, <1>2 DEF IInv, TypeOK, Idle, MainAt
<1>4. ASSUME phase = "running"
      PROVE  /\ tasks = <<>> /\ wpc = "idle"
             /\ pending = 0 => inbox = <<>>
  <2>1. /\ Len(tasks) \in Nat /\ Len(inbox) \in Nat
        /\ Len(tasks) = 0 => tasks = <<>>
        /\ Len(inbox) = 0 => inbox = <<>>
    BY <1>1, FileTypes, QueueOf
  <2>2. /\ taskQueued = 0 /\ taskQueued = Len(tasks) + InHand
        /\ pending = Len(inbox)
    BY <1>1, <1>4 DEF IInv, QuietInv
  <2>3. Len(tasks) = 0 /\ InHand = 0
    BY <2>1, <2>2 DEF InHand
  <2> QED BY <2>1, <2>2, <2>3 DEF InHand
<1>5. QuietInv'
  <2>1. Idle.pc = "idle"
    BY DEF Idle, MainAt
  <2> QED BY <1>1, <1>4, <2>1 DEF IInv, QuietInv, InHand
<1> QED BY <1>2, <1>3, <1>5 DEF IInv

LEMMA OnMessageKeeps == ASSUME IInv, OnMessage PROVE IInv'
<1>1. /\ FileTypeOK /\ FileInv /\ NextMessage
      /\ UNCHANGED <<fd, openSync, workerVars, mutex, life, reader, straggler,
                     rooted, reachable, callback, phase>>
      /\ main' = IF Head(inbox).ref = NoRef THEN Idle
                 ELSE MainAt("callback", Head(inbox).ref)
  BY DEF IInv, TypeOK, OnMessage
<1>2. /\ FileTypeOK' /\ FileInv' /\ Head(inbox) \in Posts /\ inbox # <<>>
      /\ UNCHANGED <<tasks, wpc, taskQueued>>
      /\ pending = Len(inbox) => pending' = Len(inbox')
  BY <1>1, NextMessageKeeps
<1>3. /\ main' \in [pc : {"idle", "callback", "checkTasks", "checkMessages"},
                    ref : Ref \cup {NoRef}]
      /\ main'.pc \in {"idle", "callback"}
  BY <1>1, <1>2 DEF Idle, MainAt, Posts
<1>4. TypeOK'
  BY <1>1, <1>2, <1>3 DEF IInv, TypeOK
<1>5. QuietInv'
  BY <1>1, <1>2, <1>3 DEF IInv, QuietInv, InHand
<1> QED BY <1>2, <1>4, <1>5 DEF IInv

LEMMA CollectKeeps == ASSUME IInv, Collect PROVE IInv'
<1>1. /\ FileTypeOK /\ FileInv /\ DeleteFile /\ ~rooted /\ reader' = reader
      /\ straggler' = straggler
      /\ UNCHANGED <<rooted, reachable, callback, main, phase>>
  BY DEF IInv, TypeOK, Collect, jsVars
<1>2. FileTypeOK' /\ FileInv'
  BY <1>1, DeleteKeeps DEF FileTypeOK
<1>3. TypeOK'
  BY <1>1, <1>2 DEF IInv, TypeOK
<1>4. QuietInv'
  BY <1>1 DEF IInv, QuietInv, InHand, DeleteFile, workerVars, messageVars
<1> QED BY <1>2, <1>3, <1>4 DEF IInv

LEMMA ContinueKeeps == ASSUME IInv, ContinueDelete, UNCHANGED jsVars PROVE IInv'
<1>1. /\ FileTypeOK /\ FileInv /\ reader' = reader
      /\ UNCHANGED <<rooted, reachable, callback, main, phase>>
  BY DEF IInv, TypeOK, ContinueDelete, jsVars
<1>2. FileTypeOK' /\ FileInv'
  BY <1>1, DeleteKeeps DEF FileTypeOK
<1>3. TypeOK'
  BY <1>1, <1>2 DEF IInv, TypeOK
<1>4. QuietInv'
  <2>1. /\ tasks' \in {tasks, <<>>} /\ inbox' \in {inbox, <<>>}
        /\ life # "alive" /\ life' # "alive"
        /\ UNCHANGED <<wpc, taskQueued, pending, reader>>
    BY DEF ContinueDelete, DeleteTasks, DeleteMessages, messageVars
  <2>2. ASSUME phase = "running"
        PROVE  ~rooted /\ tasks' = tasks /\ inbox' = inbox
    BY <2>1, <2>2 DEF IInv, QuietInv
  <2> QED BY <1>1, <2>1, <2>2 DEF IInv, QuietInv, InHand
<1> QED BY <1>2, <1>3, <1>4 DEF IInv

LEMMA EndKeeps == ASSUME IInv, DestroyJS \/ DestroyReader PROVE IInv'
<1>1. FileTypeOK /\ FileInv /\ reader' \in BOOLEAN
  BY DEF IInv, TypeOK, FileTypeOK, DestroyJS, DestroyReader
<1>2. phase' \in {"jsDestroyed", "readerGone"} /\ main' = main
  BY DEF DestroyJS, DestroyReader
<1>3. FileTypeOK' /\ FileInv'
  <2>1. CASE DeleteFile
    <3>1. straggler' = straggler
      BY DEF DestroyJS, DestroyReader
    <3> QED BY <1>1, <2>1, <3>1, DeleteKeeps
  <2>2. CASE ~DeleteFile
    <3>1. /\ inbox' \in {inbox, <<>>}
          /\ UNCHANGED <<fd, openSync, tasks, task, wpc, taskQueued, pending,
                         mutex, life, straggler>>
      BY <2>2 DEF DestroyJS, DestroyReader, workerVars, messageVars
    <3>2. /\ inbox' \in Seq(Posts) /\ Len(inbox') <= Len(inbox)
          /\ Len(inbox') \in Nat /\ Len(inbox) \in Nat
      BY <1>1, <3>1, FileTypes, EmptyOr
    <3> QED BY <1>1, <3>1, <3>2 DEF FileTypeOK, FileInv, InHand, Posts
  <2> QED BY <2>1, <2>2
<1>4. TypeOK'
  BY <1>2, <1>3 DEF IInv, TypeOK, DestroyJS, DestroyReader
<1>5. QuietInv'
  BY <1>2 DEF QuietInv
<1> QED BY <1>3, <1>4, <1>5 DEF IInv

\* In every state of a File of a script its counters cover what is under way,
\* and are exact while the program runs.
THEOREM Invariance == Spec => []IInv
<1>1. IInv /\ [Next]_vars => IInv'
  <2> SUFFICES ASSUME IInv, [Next]_vars PROVE IInv'
    OBVIOUS
  <2>1. CASE UNCHANGED vars
    <3>1. UNCHANGED <<fileVars, rooted, reachable, callback, main, phase>>
      BY <2>1 DEF vars, jsVars
    <3> QED BY <3>1, MainKeeps DEF IInv, TypeOK, QuietInv
  <2>2. CASE Next
    BY <2>2, Calling, CallKeeps, StepsKeep, UnrootKeeps, OnMessageKeeps,
       CollectKeeps, EndKeeps, ContinueKeeps, WorkingKeeps
    DEF Next
  <2> QED BY <2>1, <2>2
<1> QED BY <1>1, InitIInv, PTL DEF Spec

\* Every variable of a File and of its JavaScript object has its type.
THEOREM TypeCorrect == Spec => []TypeOK
<1>1. IInv => TypeOK
  BY DEF IInv
<1> QED BY <1>1, Invariance, PTL

\* A File that the collector may delete has no task and no message.
THEOREM UnrootedAreQuiet == Spec => []UnrootedIsQuiet
<1>1. IInv => UnrootedIsQuiet
  BY DEF IInv, FileInv, QuietInv, UnrootedIsQuiet
<1> QED BY <1>1, Invariance, PTL
-----------------------------------------------------------------------------
(* A call of File.read(). *)

\* What FileRead takes from File is the same File.
LEMMA SameFile ==
    /\ R!FileTypeOK <=> FileTypeOK
    /\ R!FileInit <=> FileInit
    /\ R!Worker <=> Worker
    /\ R!ContinueDelete <=> ContinueDelete
    /\ R!DeleteFile <=> DeleteFile
    /\ R!NextMessage <=> NextMessage
    /\ \A new : R!AddTasks(new) <=> AddTasks(new)
    /\ R!Deleting <=> Deleting
<1>1. /\ R!NoTask = NoTask /\ R!Op = Op /\ R!Event = Event /\ R!Opens = Opens
      /\ \A op : R!Outcomes(op) = Outcomes(op)
      /\ \A t : R!EventRef(t) = EventRef(t)
  BY DEF R!NoTask, NoTask, R!NewTask, NewTask, R!Op, Op, R!Opens, Opens,
         R!Event, Event, R!Outcomes, Outcomes, R!EventRef, EventRef
<1>2. /\ R!ReadTask <=> ReadTask
      /\ R!LockTasks <=> LockTasks
      /\ R!FinishTask <=> FinishTask
  BY <1>1
  DEF R!ReadTask, ReadTask, R!LockTasks, LockTasks, R!FinishTask, FinishTask,
      R!messageVars, messageVars
<1>3. (R!RunTask <=> RunTask) /\ (R!PostAborts <=> PostAborts)
  BY <1>1 DEF R!RunTask, RunTask, R!PostAborts, PostAborts, R!messageVars,
              messageVars
<1>4. R!FileTypeOK <=> FileTypeOK
  BY <1>1 DEF R!FileTypeOK, FileTypeOK
<1>5. R!FileInit <=> FileInit
  BY <1>1 DEF R!FileInit, FileInit
<1>6. R!Worker <=> Worker
  BY <1>2, <1>3 DEF R!Worker, Worker
<1>7. R!ContinueDelete <=> ContinueDelete
  BY DEF R!ContinueDelete, ContinueDelete, R!DeleteTasks, DeleteTasks,
         R!DeleteMessages, DeleteMessages, R!ToPost, ToPost, R!messageVars, messageVars
<1>8. R!DeleteFile <=> DeleteFile
  BY DEF R!DeleteFile, DeleteFile, R!workerVars, workerVars, R!messageVars,
         messageVars
<1>9. \A new : R!AddTasks(new) <=> AddTasks(new)
  BY DEF R!AddTasks, AddTasks
<1>10. (R!Deleting <=> Deleting) /\ (R!NextMessage <=> NextMessage)
  BY DEF R!Deleting, Deleting, R!NextMessage, NextMessage
<1> QED BY <1>4, <1>5, <1>6, <1>7, <1>8, <1>9, <1>10

\* The callback is called once, by the listener.  A stream that is deleted has
\* no task when ~Managed() is over, and when ~Messages() is no message but that
\* of the task that the worker had yet to run.
ReadInv ==
    /\ listening => called = 0
    /\ readPhase = "before" => called = 0
    /\ life \in {"noTasks", "freed"} => tasks = <<>>
    /\ life = "freed" =>
        Len(inbox) + (IF ToPost THEN 1 ELSE 0) <= IF straggler THEN 1 ELSE 0

StreamTypeOK ==
    /\ listening \in BOOLEAN /\ openFailed \in BOOLEAN /\ timer \in BOOLEAN
    /\ readPhase \in {"before", "running", "jsDestroyed", "readerGone"}
    /\ called \in 0..1

RInv == FileTypeOK /\ FileInv /\ StreamTypeOK /\ ReadInv

LEMMA InitRInv == R!Init => RInv
<1> SUFFICES ASSUME R!Init PROVE RInv
  OBVIOUS
<1>1. FileInit
  BY SameFile DEF R!Init
<1>2. /\ FileTypeOK /\ FileInv /\ life = "alive"
      /\ tasks = <<>> /\ inbox = <<>>
  BY <1>1, FileStart
<1>3. StreamTypeOK
  <2>1. called \in 0..1
    BY DEF R!Init
  <2> QED BY <2>1 DEF R!Init, StreamTypeOK
<1> QED BY <1>2, <1>3 DEF RInv, ReadInv, R!Init

LEMMA ReadStarts == ASSUME RInv, R!JSStatic_read PROVE RInv'
<1> DEFINE new == <<NewTask("open_r", NoRef), NewTask("read", NoRef),
                    NewTask("close", NoRef)>>
<1>1. new \in Seq(Tasks)
  <2>1. /\ NewTask("open_r", NoRef) \in Tasks /\ NewTask("read", NoRef) \in Tasks
        /\ NewTask("close", NoRef) \in Tasks
    BY DEF Tasks, NewTask, Op, Opens
  <2> HIDE DEF Tasks
  <2> QED BY <2>1
<1>2. /\ AddTasks(new) /\ listening' = TRUE /\ readPhase' = "running"
      /\ readPhase = "before"
      /\ UNCHANGED <<fd, openSync, messageVars, mutex, life, reader,
                     straggler, openFailed, timer, called>>
  BY SameFile DEF R!JSStatic_read, R!NewTask, NewTask, R!messageVars, messageVars
<1>3. FileTypeOK /\ FileInv /\ ReadInv
  BY DEF RInv
<1>4. /\ FileTypeOK' /\ FileInv' /\ life = "alive"
  <2> HIDE DEF new
  <2> QED BY <1>1, <1>2, <1>3, AddTasksKeeps
<1>5. StreamTypeOK'
  BY <1>2, <1>4 DEF RInv, StreamTypeOK
<1> QED BY <1>2, <1>3, <1>4, <1>5 DEF RInv, ReadInv

LEMMA ReadHears == ASSUME RInv, R!OnMessage PROVE RInv'
<1>1. /\ FileTypeOK /\ FileInv /\ ReadInv
  BY DEF RInv
<1>2. /\ NextMessage /\ readPhase = "running"
      /\ UNCHANGED <<fd, openSync, workerVars, mutex, life, reader, straggler,
                     readPhase>>
  BY SameFile DEF R!OnMessage, R!workerVars, workerVars
<1>3. /\ openFailed' \in BOOLEAN
      /\ \/ called' = called + 1 /\ listening' = FALSE /\ timer' = TRUE
            /\ listening
         \/ UNCHANGED <<called, listening, timer>>
  BY DEF R!OnMessage, R!CallBack, RInv, StreamTypeOK
<1>4. /\ FileTypeOK' /\ FileInv' /\ UNCHANGED <<tasks, wpc, taskQueued>>
      /\ inbox # <<>> /\ life = "alive" /\ life' = "alive"
  BY <1>1, <1>2, NextMessageKeeps DEF NextMessage
<1>5. StreamTypeOK'
  <2>1. called' \in 0..1
    BY <1>1, <1>3 DEF RInv, StreamTypeOK, ReadInv
  <2>2. listening' \in BOOLEAN /\ timer' \in BOOLEAN
    BY <1>3 DEF RInv, StreamTypeOK
  <2> QED BY <1>2, <1>3, <2>1, <2>2 DEF RInv, StreamTypeOK
<1> QED BY <1>1, <1>2, <1>3, <1>4, <1>5 DEF RInv, ReadInv

LEMMA ReadDeletes ==
    ASSUME RInv, \/ R!DeleteStream
                 \/ R!ContinueDelete /\ UNCHANGED R!streamVars
    PROVE  RInv'
<1>1. /\ FileTypeOK /\ FileInv /\ ReadInv /\ reader' = reader
  BY SameFile DEF RInv, R!DeleteStream, R!ContinueDelete
<1>2. /\ \/ DeleteFile /\ straggler' = straggler
         \/ ContinueDelete
      /\ timer' \in BOOLEAN
      /\ UNCHANGED <<listening, openFailed, readPhase, called>>
  BY SameFile DEF R!DeleteStream, R!streamVars, RInv, StreamTypeOK
<1>3. FileTypeOK' /\ FileInv'
  BY <1>1, <1>2, DeleteKeeps DEF FileTypeOK
<1>4. StreamTypeOK'
  BY <1>2, <1>3 DEF RInv, StreamTypeOK
<1>5. /\ life' \in {"noTasks", "freed"} => tasks' = <<>>
      /\ life' = "freed" => /\ inbox' = <<>> /\ straggler' = ToPost
                            /\ ToPost' = ToPost
  BY <1>1, <1>2
  DEF ReadInv, DeleteFile, ContinueDelete, DeleteTasks, DeleteMessages, ToPost
<1> QED BY <1>1, <1>2, <1>3, <1>4, <1>5 DEF RInv, ReadInv

LEMMA ReadEnds == ASSUME RInv, R!DestroyJS \/ R!DestroyReader PROVE RInv'
<1>1. FileTypeOK /\ FileInv /\ ReadInv
  BY DEF RInv
<1>2. /\ inbox' \in {inbox, <<>>} /\ reader' \in BOOLEAN
      /\ timer' \in BOOLEAN /\ readPhase' \in {"jsDestroyed", "readerGone"}
      /\ UNCHANGED <<fd, openSync, tasks, task, wpc, taskQueued, pending, mutex,
                     life, straggler, listening, openFailed, called>>
  BY <1>1 DEF R!DestroyJS, R!DestroyReader, R!fileVars, R!workerVars,
              R!messageVars, RInv, StreamTypeOK, FileTypeOK
<1>3. /\ inbox' \in Seq(Posts) /\ Len(inbox') <= Len(inbox)
      /\ Len(inbox') \in Nat /\ Len(inbox) \in Nat
  BY <1>1, <1>2, FileTypes, EmptyOr
<1>4. FileTypeOK'
  BY <1>1, <1>2, <1>3 DEF FileTypeOK, Posts
<1>5. FileInv'
  BY <1>1, <1>2, <1>3 DEF FileInv, FileTypeOK, InHand
<1>6. StreamTypeOK'
  BY <1>2, <1>4 DEF RInv, StreamTypeOK
<1>7. ReadInv'
  BY <1>1, <1>2, <1>3, <1>6 DEF ReadInv, RInv, StreamTypeOK, ToPost
<1> QED BY <1>4, <1>5, <1>6, <1>7 DEF RInv

LEMMA ReadWorks == ASSUME RInv, Worker, UNCHANGED R!streamVars PROVE RInv'
<1>1. /\ FileTypeOK /\ FileInv /\ ReadInv
      /\ UNCHANGED <<listening, openFailed, timer, readPhase, called>>
  BY SameFile DEF RInv, R!streamVars
<1>2. FileTypeOK' /\ FileInv'
  BY <1>1, WorkerKeeps
<1>3. StreamTypeOK'
  BY <1>1, <1>2 DEF RInv, StreamTypeOK
<1>4. /\ life' = life /\ straggler' = straggler
      /\ tasks = <<>> => tasks' = tasks
  BY DEF Worker, ReadTask, LockTasks, RunTask, PostAborts, FinishTask
<1>5. ASSUME life = "freed"
      PROVE  Len(inbox') + (IF ToPost' THEN 1 ELSE 0)
                <= Len(inbox) + (IF ToPost THEN 1 ELSE 0)
  <2>1. /\ tasks = <<>> /\ ~ReadTask
        /\ Len(inbox) \in Nat /\ Len(inbox') \in Nat
    BY <1>1, <1>2, <1>5, FileTypes, QueueOf DEF ReadInv, ReadTask
  <2>2. CASE RunTask
    <3>1. /\ Len(inbox') <= Len(inbox) + 1 /\ wpc = "run" /\ wpc' = "done"
      BY <1>1, <2>2, RunTaskKeeps
    <3> QED BY <2>1, <3>1 DEF ToPost
  <2>3. CASE LockTasks \/ PostAborts \/ FinishTask
    <3>1. inbox' = inbox /\ (ToPost' => ToPost)
      BY <2>3 DEF LockTasks, PostAborts, FinishTask, messageVars, ToPost
    <3> QED BY <2>1, <3>1
  <2> QED BY <2>1, <2>2, <2>3 DEF Worker
<1>6. ASSUME life = "freed"
      PROVE  Len(inbox') + (IF ToPost' THEN 1 ELSE 0)
                <= IF straggler' THEN 1 ELSE 0
  <2>1. Len(inbox) + (IF ToPost THEN 1 ELSE 0) <= IF straggler THEN 1 ELSE 0
    BY <1>1, <1>6 DEF ReadInv
  <2>2. Len(inbox) \in Nat /\ Len(inbox') \in Nat
    BY <1>1, <1>2, FileTypes, QueueOf
  <2> QED BY <1>4, <1>5, <1>6, <2>1, <2>2
<1>7. ReadInv'
  BY <1>1, <1>4, <1>6 DEF ReadInv
<1> QED BY <1>2, <1>3, <1>7 DEF RInv

\* In every state of a call of File.read() the callback has been called at most
\* once, and what was deleted is empty.
THEOREM ReadInvariance == R!Spec => []RInv
<1>1. RInv /\ [R!Next]_(R!vars) => RInv'
  <2> SUFFICES ASSUME RInv, [R!Next]_(R!vars) PROVE RInv'
    OBVIOUS
  <2>1. CASE UNCHANGED R!vars
    BY <2>1 DEF R!vars, R!fileVars, R!workerVars, R!messageVars, R!streamVars,
                RInv, FileTypeOK, StreamTypeOK, FileInv, InHand, ReadInv, ToPost
  <2>2. CASE R!Next
    BY <2>2, SameFile, ReadStarts, ReadHears, ReadDeletes, ReadEnds, ReadWorks
    DEF R!Next
  <2> QED BY <2>1, <2>2
<1> QED BY <1>1, InitRInv, PTL DEF R!Spec

\* Every variable of a call of File.read() has its type; called is 0 or 1.
THEOREM ReadTypeCorrect == R!Spec => []R!TypeOK
<1>1. RInv => R!TypeOK
  BY SameFile DEF RInv, StreamTypeOK, R!TypeOK
<1> QED BY <1>1, ReadInvariance, PTL

\* A stream that is deleted leaves no task behind, and no message but that of a
\* task that the worker had yet to run when ~Messages() was over.
THEOREM DeletedIsEmpty == R!Spec => []NothingForTheDeleted
<1>1. ASSUME RInv PROVE NothingForTheDeleted
  <2>1. Len(inbox) \in Nat
    BY <1>1, FileTypes, QueueOf DEF RInv
  <2> QED BY <1>1, <2>1
          DEF RInv, ReadInv, NothingForTheDeleted, R!NothingForTheDeleted
<1> QED BY <1>1, ReadInvariance, PTL
=============================================================================
