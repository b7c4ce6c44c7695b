------------------------------- MODULE MCFile -------------------------------
(* Instances of File for TLC, used by a File object (JSFile) or by a call of  *)
(* File.read() (FileRead): the phase of the user that there is not is "over". *)
EXTENDS JSFile

VARIABLES listening, openFailed, timer, readPhase, called

R == INSTANCE FileRead WITH phase <- readPhase

readVars == <<listening, openFailed, timer, readPhase, called>>
over == "readerGone"

UsersInit ==
    /\ FileInit
    /\ rooted = FALSE /\ callback = [r \in Ref |-> "free"] /\ main = Idle
    /\ listening = FALSE /\ openFailed = FALSE /\ timer = FALSE /\ called = 0
    /\ \/ phase = "running" /\ reachable = TRUE /\ readPhase = over
       \/ phase = over /\ reachable = FALSE /\ readPhase = "before"

UsersNext ==
    \/ readPhase = over /\ Next /\ UNCHANGED readVars
    \/ phase = over /\ R!Next /\ UNCHANGED jsVars

UsersSpec ==
    /\ UsersInit /\ [][UsersNext]_<<vars, readVars>>
    /\ Fairness /\ R!Fairness

NothingForTheDeleted == R!NothingForTheDeleted

\* Whoever uses a File or reads one has the answer in the end: scripts their
\* callbacks, File.read() its data, after which its stream goes away.
EveryUserIsAnswered == EveryCallbackRuns /\ R!AnswerAndDelete

NoPostAfterDestroyReader == R!NoPostAfterDestroyReader
=============================================================================
