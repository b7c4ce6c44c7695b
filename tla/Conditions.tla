----------------------------- MODULE Conditions -----------------------------
(***************************************************************************)
(* The conditions of AV.h: a flag, a mutex and a pthread condition, used by *)
(* NIDIUM_PTHREAD_SIGNAL() without the mutex.  Each has one thread that     *)
(* waits for it.                                                           *)
(***************************************************************************)
VARIABLES
    cond,   \* per condition: its flag
    wait    \* per condition: how far its thread is with NIDIUM_PTHREAD_WAIT()

condVars == <<cond, wait>>

\* NIDIUM_PTHREAD_SIGNAL(): the flag, then the sleeper if there is one.
Signal(cs) ==
    /\ cond' = [c \in DOMAIN cond |-> c \in cs \/ cond[c]]
    /\ wait' = [c \in DOMAIN wait |->
                    IF c \in cs /\ wait[c] = "asleep" THEN "check" ELSE wait[c]]
NoSignal == UNCHANGED condVars

\* NIDIUM_PTHREAD_WAIT(): the thread waits until wait[c] is "no" again.
WaitFor(c) == wait' = [wait EXCEPT ![c] = "check"] /\ UNCHANGED cond
Waited(c) == wait[c] = "no"

\* The flag is looked at, and reset when it is set, ...
Check(c) ==
    /\ wait[c] = "check"
    /\ wait' = [wait EXCEPT ![c] = IF cond[c] THEN "no" ELSE "unset"]
    /\ cond' = [cond EXCEPT ![c] = FALSE]
\* ... and nothing keeps a signal from coming before the thread sleeps.
Sleep(c) ==
    /\ wait[c] = "unset"
    /\ wait' = [wait EXCEPT ![c] = "asleep"]
    /\ UNCHANGED cond
=============================================================================
