------------------------------- MODULE Server -------------------------------
(***************************************************************************)
(* The server program (Server/Server.cpp): a parent that forks the workers *)
(* and waits for them, replaces one that crashes, and ends when one exits. *)
(* A signal to stop is passed on to all in pidList; a worker has a copy of *)
(* the list as it was when it was forked, and does the same.               *)
(*                                                                         *)
(* External: a process that is told to stop by a signal gets to its        *)
(* handler; waitpid() goes on after a signal; an event loop that is told   *)
(* to stop does.                                                           *)
(***************************************************************************)
EXTENDS Naturals, FiniteSets

CONSTANTS
    Pid,        \* process ids: enough for all workers and one more
    Workers,    \* m_NWorkers
    Everybody   \* -1, which fork() returns when it fails, and kill() takes for
                \* every process there is

VARIABLES
    parent,     \* what the parent does, for which worker and which process
    workerIdx,  \* m_WorkerIdx
    pidList,    \* the processes that the parent passes signals on to
    worker,     \* per process: its state, its index (m_PidIdxMapper has it
                \* too), its copy of pidList, whether a signal awaits it
    lost,       \* history: indices of workers that could not be forked
    asked       \* history: the parent, in wait(), was told to stop, and has not
                \* forked since

workersVars == <<parent, workerIdx, pidList, worker, lost, asked>>

Index == 1..Workers
NoProcess == [state |-> "none", idx |-> 0, list |-> {}, told |-> FALSE]

WorkersInit ==
    /\ parent = [state |-> "forking", idx |-> 1, pid |-> Everybody]
    /\ workerIdx = 1 /\ pidList = {}
    /\ worker = [p \in Pid |-> NoProcess]
    /\ lost = {} /\ asked = FALSE

WorkersTypeOK ==
    /\ parent \in [state : {"forking", "recording", "waiting", "over"},
                   idx : 0..Workers, pid : Pid \cup {Everybody}]
    /\ workerIdx \in Index /\ pidList \subseteq Pid \cup {Everybody}
    /\ worker \in [Pid -> [state : {"none", "running", "stopping", "exited",
                                    "crashed"},
                           idx : 0..Workers,
                           list : SUBSET (Pid \cup {Everybody}),
                           told : BOOLEAN]]
    /\ lost \subseteq Index /\ asked \in BOOLEAN

Alive(p) == worker[p].state \in {"running", "stopping"}
\* kill() of all in a list, by a process that is not told itself by Everybody.
Kill(workers, list, self) ==
    [p \in Pid |->
        IF Alive(p) /\ (p \in list \/ (Everybody \in list /\ p # self))
        THEN [workers[p] EXCEPT !.told = TRUE] ELSE workers[p]]
-----------------------------------------------------------------------------
(* The parent *)

\* initWorker(): fork(), which gives the worker what the parent has; or fails.
Fork ==
    /\ parent.state = "forking"
    /\ \/ \E p \in Pid :
            /\ worker[p].state = "none"
            /\ worker' = [worker EXCEPT
                    ![p] = [state |-> "running", idx |-> parent.idx,
                            list |-> pidList, told |-> FALSE]]
            /\ parent' = [parent EXCEPT !.state = "recording", !.pid = p]
            /\ UNCHANGED lost
       \/ /\ parent' = [parent EXCEPT !.state = "recording", !.pid = Everybody]
          /\ lost' = lost \cup {parent.idx}
          /\ UNCHANGED worker
    /\ asked' = FALSE
    /\ UNCHANGED <<workerIdx, pidList>>

\* The rest of it, in the loop of init() or in wait()
Record ==
    /\ parent.state = "recording"
    /\ pidList' = pidList \cup {parent.pid}
    /\ IF workerIdx < Workers
       THEN /\ workerIdx' = workerIdx + 1
            /\ parent' = [parent EXCEPT !.state = "forking", !.idx = workerIdx + 1]
       ELSE /\ parent' = [parent EXCEPT !.state = "waiting", !.idx = 0]
            /\ UNCHANGED workerIdx
    /\ UNCHANGED <<worker, lost, asked>>

\* wait(): a worker that has exited ends the parent as well, one that a signal
\* has ended is replaced, under its index; and without any the parent ends.
WaitWrongly ==
    /\ parent.state = "waiting"
    /\ \/ \E p \in Pid :
            /\ worker[p].state = "crashed"
            /\ worker' = [worker EXCEPT ![p] = NoProcess]
            /\ parent' = [parent EXCEPT !.state = "forking", !.idx = 1]
       \/ /\ \/ \E p \in Pid : worker[p].state = "exited"
             \/ \A p \in Pid : worker[p].state = "none"
          /\ parent' = [parent EXCEPT !.state = "over"] /\ UNCHANGED worker
    /\ UNCHANGED <<workerIdx, pidList, lost, asked>>
Wait ==
    /\ parent.state = "waiting"
    /\ \/ \E p \in Pid :
            /\ worker[p].state = "crashed"
            /\ worker' = [worker EXCEPT ![p] = NoProcess]
            /\ parent' = [parent EXCEPT !.state = "forking",
                                        !.idx = worker[p].idx]
       \/ /\ \/ \E p \in Pid : worker[p].state = "exited"
             \/ \A p \in Pid : worker[p].state = "none"
          /\ parent' = [parent EXCEPT !.state = "over"] /\ UNCHANGED worker
    /\ UNCHANGED <<workerIdx, pidList, lost, asked>>

\* signal_handler() in the parent, wherever it is
Signal ==
    /\ parent.state # "over"
    /\ worker' = Kill(worker, pidList, Everybody)
    /\ asked' = (asked \/ parent.state = "waiting")
    /\ UNCHANGED <<parent, workerIdx, pidList, lost>>
-----------------------------------------------------------------------------
(* The workers *)

Becomes(p, state) == [worker EXCEPT ![p].state = state]

\* Somebody sends it a signal.
SignalWorker(p) ==
    /\ Alive(p) /\ worker' = [worker EXCEPT ![p].told = TRUE]
    /\ UNCHANGED <<parent, workerIdx, pidList, lost, asked>>

\* signal_handler() in the worker, with its copy of the list
Handle(p) ==
    /\ Alive(p) /\ worker[p].told
    /\ worker' = Kill([Becomes(p, "stopping") EXCEPT ![p].told = FALSE],
                      worker[p].list, p)
    /\ UNCHANGED <<parent, workerIdx, pidList, lost, asked>>

\* A script stops the loop.
Quit(p) ==
    /\ worker[p].state = "running" /\ worker' = Becomes(p, "stopping")
    /\ UNCHANGED <<parent, workerIdx, pidList, lost, asked>>

\* Worker::run() returns, and with it initWorker(), init() or wait().
Exit(p) ==
    /\ worker[p].state = "stopping" /\ worker' = Becomes(p, "exited")
    /\ UNCHANGED <<parent, workerIdx, pidList, lost, asked>>

Crash(p) ==
    /\ Alive(p) /\ worker' = Becomes(p, "crashed")
    /\ UNCHANGED <<parent, workerIdx, pidList, lost, asked>>

\* NidiumCheckParentAlive_ping()
Ping(p) ==
    /\ worker[p].state = "running" /\ parent.state = "over"
    /\ worker' = Becomes(p, "exited")
    /\ UNCHANGED <<parent, workerIdx, pidList, lost, asked>>

WorkersNext ==
    \/ Fork \/ Record \/ Wait \/ Signal
    \/ \E p \in Pid :
            \/ SignalWorker(p) \/ Handle(p) \/ Quit(p) \/ Exit(p)
            \/ Crash(p) \/ Ping(p)

\* The parent and its workers are processes that the system runs; the loop of a
\* worker calls the ping each second, and ends when it was told to.
WorkersFairness ==
    /\ WF_workersVars(Fork) /\ WF_workersVars(Record) /\ WF_workersVars(Wait)
    /\ \A p \in Pid :
            /\ WF_workersVars(Handle(p)) /\ WF_workersVars(Exit(p))
            /\ WF_workersVars(Ping(p))
-----------------------------------------------------------------------------
Here(i) == {p \in Pid : worker[p].state # "none" /\ worker[p].idx = i}
AllOver == parent.state = "over" /\ \A p \in Pid : ~Alive(p)

\* The workers are supervised: in the end there is one for each index, by which
\* scripts tell themselves apart, that could be forked, whichever crash; a signal
\* to the parent that waits ends the whole server, unless a worker crashes and is
\* replaced when the signals have been sent already; and no worker goes on
\* without its parent.
Supervised ==
    /\ \A i \in Index :
            Cardinality(Here(i)) # 1 ~>
                \/ Cardinality(Here(i)) = 1
                \/ i \in lost \/ parent.state = "over"
    /\ asked ~> (AllOver \/ ~asked)
    /\ parent.state = "over" ~> AllOver
=============================================================================
