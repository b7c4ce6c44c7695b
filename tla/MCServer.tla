------------------------------ MODULE MCServer ------------------------------
(* Instances for TLC of what a server program is made of: the parent and its  *)
(* workers; and in a worker the HTTP and WebSocket servers, the Socket and    *)
(* the Thread of scripts.  They share nothing: part says which one a behavior *)
(* is about, the state of the others stays as it is.                          *)
EXTENDS WebSocket, JSSocket, JSThread, TLC

CONSTANTS Pid, Workers, Everybody

VARIABLES part, parent, workerIdx, pidList, worker, lost, asked

P == INSTANCE Server

workersVars == <<parent, workerIdx, pidList, worker, lost, asked>>

ServersInit ==
    /\ Init /\ SocketInit /\ P!WorkersInit /\ ThreadInit
    /\ part \in {"workers", "servers", "socket", "thread"}

ServersNext ==
    \/ /\ part = "workers" /\ P!WorkersNext
       /\ UNCHANGED <<vars, socketVars, threadVars, part>>
    \/ /\ part = "thread" /\ ThreadNext
       /\ UNCHANGED <<vars, socketVars, workersVars, part>>
    \/ /\ part = "servers" /\ Next
       /\ UNCHANGED <<socketVars, workersVars, threadVars, part>>
    \/ /\ part = "socket" /\ SocketNext
       /\ UNCHANGED <<vars, workersVars, threadVars, part>>

\* The workers are where something must happen in the end.
ServersSpec ==
    /\ ServersInit
    /\ [][ServersNext]_<<vars, socketVars, workersVars, threadVars, part>>
    /\ part = "workers" => P!WorkersFairness

Supervised == part = "workers" => P!Supervised
=============================================================================
