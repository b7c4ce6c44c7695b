------------------------------ MODULE JSThread ------------------------------
(***************************************************************************)
(* The Thread of scripts (Binding/JSThread.cpp): an object of the main     *)
(* thread, and the thread that each start() creates, with a runtime and a  *)
(* table of rooted things of its own (Binding/ThreadLocalContext.h).  Both *)
(* use the object without a lock.                                          *)
(*                                                                         *)
(* unroot() and UnrootObject(), called by the thread, look in its own      *)
(* table and find nothing there: what the main thread has rooted stays so  *)
(* until the program ends.  Messages go through Core's Messages, here a    *)
(* sequence.  External: the collector takes what is not reachable, and     *)
(* scripts end some time.                                                  *)
(***************************************************************************)
EXTENDS Sequences, Naturals

CONSTANTS
    MaxStarts,  \* calls of start(): a bound
    MaxSends    \* calls of send() by one of them: a bound

ASSUME ThreadAssumption == MaxStarts \in Nat /\ MaxSends \in Nat

VARIABLES
    object,     \* life, whether the script holds it, m_Rooted, m_MarkedStop
    roots,      \* m_RootedThings of the main thread: "instance", "function"
    main,       \* what the main thread is in the middle of
    ended,      \* destroyJS() has begun
    thread,     \* per start(): where its thread is and what it has sent
    runtime,    \* m_JsRuntime: 0 for NULL, or the start() it belongs to
    params,     \* m_Params: the start() they were given to
    freed,      \* the m_Params that were freed
    inbox,      \* the messages that are posted and not yet handled
    heard,      \* history, per start(): what the script has heard of it
    stale,      \* history: what was used after it was gone
    hasty       \* history: start() before the last thread was over, "again",
                \* or the object deleted before it had a runtime, "early"

threadVars == <<object, roots, main, ended, thread, runtime, params, freed,
                inbox, heard, stale, hasty>>

Starts == 1..MaxStarts

ThreadInit ==
    /\ object = [life |-> "alive", held |-> TRUE, rooted |-> FALSE,
                 marked |-> FALSE]
    /\ roots = {"function"} /\ main = "idle" /\ ended = FALSE
    /\ thread = [t \in Starts |-> [pc |-> "none", sent |-> 0, failed |-> FALSE]]
    /\ runtime = 0 /\ params = 0 /\ freed = {}
    /\ inbox = <<>> /\ heard = [t \in Starts |-> "nothing"]
    /\ stale = {} /\ hasty = {}

ThreadTypeOK ==
    /\ object \in [life : {"alive", "deleted"}, held : BOOLEAN,
                   rooted : BOOLEAN, marked : BOOLEAN]
    /\ roots \subseteq {"instance", "function"} /\ ended \in BOOLEAN
    /\ main \in {"idle", "rooting", "interrupting", "joining"}
    /\ thread \in [Starts -> [pc : {"none", "created", "ready", "running",
                                    "returned", "posted", "unrooted",
                                    "destroyed", "over"},
                              sent : 0..MaxSends, failed : BOOLEAN]]
    /\ runtime \in 0..MaxStarts /\ params \in 0..MaxStarts
    /\ freed \subseteq Starts
    /\ inbox \in Seq([from : Starts, event : {"message", "complete"}])
    /\ heard \in [Starts -> {"nothing", "complete"}]
    /\ stale \subseteq {"object", "runtime", "params", "function"}
    /\ hasty \subseteq {"again", "early"}
-----------------------------------------------------------------------------
(* The main thread *)

Idle == main = "idle" /\ ~ended

\* JS_start(), until the thread exists; it does not look whether one is running.
Start ==
    /\ Idle /\ object.held
    /\ \E t \in Starts :
        /\ thread[t].pc = "none" /\ \A s \in 1..t - 1 : thread[s].pc # "none"
        /\ thread' = [thread EXCEPT ![t].pc = "created"]
        /\ params' = t
        /\ hasty' = IF \A s \in 1..t - 1 : thread[s].pc = "over" THEN hasty
                    ELSE hasty \cup {"again"}
    /\ main' = "rooting"
    /\ UNCHANGED <<object, roots, ended, runtime, freed, inbox, heard, stale>>

\* root(), as the thread runs
Root ==
    /\ main = "rooting" /\ main' = "idle"
    /\ IF object.rooted THEN UNCHANGED <<object, roots>>
       ELSE /\ object' = [object EXCEPT !.rooted = TRUE]
            /\ roots' = roots \cup {"instance"}
    /\ UNCHANGED <<ended, thread, runtime, params, freed, inbox, heard, stale,
                   hasty>>

\* onMessage()
Hear ==
    /\ Idle /\ object.life = "alive" /\ inbox # <<>>
    /\ inbox' = Tail(inbox)
    /\ heard' = IF Head(inbox).event = "message" THEN heard
                ELSE [heard EXCEPT ![Head(inbox).from] = "complete"]
    /\ UNCHANGED <<object, roots, main, ended, thread, runtime, params, freed,
                   stale, hasty>>

DropThread ==
    /\ Idle /\ object.held
    /\ object' = [object EXCEPT !.held = FALSE]
    /\ UNCHANGED <<roots, main, ended, thread, runtime, params, freed, inbox,
                   heard, stale, hasty>>

\* ~JSThread(), to its end or to the thread that it has to wait for; ~Messages()
\* takes what is still posted.
Gone == [object EXCEPT !.life = "deleted", !.rooted = FALSE, !.marked = TRUE]
Delete ==
    /\ hasty' = IF runtime = 0 /\ \E t \in Starts : thread[t].pc = "created"
                THEN hasty \cup {"early"} ELSE hasty
    /\ IF runtime # 0
       THEN /\ object' = [object EXCEPT !.marked = TRUE]
            /\ main' = "interrupting" /\ UNCHANGED inbox
       ELSE object' = Gone /\ inbox' = <<>> /\ UNCHANGED main

\* The collector.  It traces m_JsFunction as well, of an object that is gone.
CollectThread ==
    /\ Idle
    /\ IF object.life = "alive"
       THEN ~object.held /\ "instance" \notin roots /\ Delete /\ UNCHANGED stale
       ELSE /\ stale' = IF "function" \in roots THEN stale \cup {"function"}
                        ELSE stale
            /\ UNCHANGED <<object, main, inbox, hasty>>
    /\ UNCHANGED <<roots, ended, thread, runtime, params, freed, heard>>

\* destroyJS(), shutdown(): nothing is rooted any more.
EndProgram ==
    /\ Idle
    /\ ended' = TRUE /\ roots' = {}
    /\ IF object.life = "alive" THEN Delete
       ELSE UNCHANGED <<object, main, inbox, hasty>>
    /\ UNCHANGED <<thread, runtime, params, freed, heard, stale>>

\* JS_RequestInterruptCallback(m_JsRuntime)
Interrupt ==
    /\ main = "interrupting" /\ main' = "joining"
    /\ stale' = IF runtime # 0 /\ thread[runtime].pc # "destroyed" THEN stale
               ELSE stale \cup {"runtime"}
    /\ UNCHANGED <<object, roots, ended, thread, runtime, params, freed, inbox,
                   heard, hasty>>

\* pthread_join() of the thread started last
Join ==
    /\ main = "joining" /\ main' = "idle"
    /\ \A t \in Starts :
            thread[t].pc = "none" \/ thread[t].pc = "over"
            \/ \E s \in Starts : s > t /\ thread[s].pc # "none"
    /\ object' = Gone /\ inbox' = <<>>
    /\ UNCHANGED <<roots, ended, thread, runtime, params, freed, heard, stale,
                   hasty>>
-----------------------------------------------------------------------------
(* nidium_thread() *)

\* The thread goes on from a place, with the object; or without it, if it is
\* deleted, and that is the end of it here.
At(t, pc) == thread[t].pc = pc /\ object.life = "alive"
Goes(t, pc) == thread' = [thread EXCEPT ![t].pc = pc]
Fails(t) == thread' = [thread EXCEPT ![t].pc = "over", ![t].failed = TRUE]
Stray(t) ==
    /\ object.life = "deleted"
    /\ thread[t].pc \notin {"none", "unrooted", "over"}
    /\ Goes(t, "over") /\ stale' = stale \cup {"object"}
    /\ UNCHANGED <<object, roots, main, ended, runtime, params, freed, inbox,
                   heard, hasty>>

\* JS_NewRuntime(), JS_NewContext(), InitJSThread()
Ready(t) ==
    /\ At(t, "created")
    /\ \/ Goes(t, "ready") /\ runtime' = t
       \/ Fails(t) /\ UNCHANGED runtime
    /\ UNCHANGED <<object, roots, main, ended, params, freed, inbox, heard,
                   stale, hasty>>

\* CompileFunction(), which fails with the runtime still there.  There is no
\* thread without a global: _CreateJSGlobal() has entered the compartment of what
\* JS_NewGlobalObject() gave it before the thread looks whether it is NULL.
Compile(t) ==
    /\ At(t, "ready") /\ (Goes(t, "running") \/ Fails(t))
    /\ UNCHANGED <<object, roots, main, ended, runtime, params, freed, inbox,
                   heard, stale, hasty>>

\* nidium_post_message()
PostMessage(t) ==
    /\ At(t, "running") /\ ~object.marked /\ thread[t].sent < MaxSends
    /\ thread' = [thread EXCEPT ![t].sent = @ + 1]
    /\ inbox' = Append(inbox, [from |-> t, event |-> "message"])
    /\ UNCHANGED <<object, roots, main, ended, runtime, params, freed, heard,
                   stale, hasty>>

\* The function has returned, or was interrupted: m_Params are freed.
Return(t) ==
    /\ At(t, "running") /\ Goes(t, "returned")
    /\ freed' = freed \cup {params}
    /\ stale' = IF params \in freed THEN stale \cup {"params"} ELSE stale
    /\ UNCHANGED <<object, roots, main, ended, runtime, params, inbox, heard,
                   hasty>>

\* onComplete(), until unroot()
Complete(t) ==
    /\ At(t, "returned") /\ Goes(t, "posted")
    /\ inbox' = Append(inbox, [from |-> t, event |-> "complete"])
    /\ UNCHANGED <<object, roots, main, ended, runtime, params, freed, heard,
                   stale, hasty>>

\* unroot(), in the table of the thread
UnrootWrongly(t) ==
    /\ At(t, "posted") /\ Goes(t, "unrooted")
    /\ object' = [object EXCEPT !.rooted = FALSE]
    /\ roots' = roots \ {"instance"}
    /\ UNCHANGED <<main, ended, runtime, params, freed, inbox, heard, stale,
                   hasty>>
Unroot(t) ==
    /\ At(t, "posted") /\ Goes(t, "unrooted")
    /\ object' = [object EXCEPT !.rooted = FALSE]
    /\ UNCHANGED <<roots, main, ended, runtime, params, freed, inbox, heard,
                   stale, hasty>>

\* JS_DestroyRuntime()
DestroyRuntime(t) ==
    /\ thread[t].pc = "unrooted" /\ Goes(t, "destroyed")
    /\ UNCHANGED <<object, roots, main, ended, runtime, params, freed, inbox,
                   heard, stale, hasty>>

\* m_JsRuntime is NULL again, and the thread is over.
Forget(t) ==
    /\ At(t, "destroyed") /\ Goes(t, "over")
    /\ runtime' = 0
    /\ UNCHANGED <<object, roots, main, ended, params, freed, inbox, heard,
                   stale, hasty>>

ThreadNext ==
    \/ Start \/ Root \/ Hear \/ DropThread \/ CollectThread \/ EndProgram
    \/ Interrupt \/ Join
    \/ \E t \in Starts :
            \/ Stray(t) \/ Ready(t) \/ Compile(t) \/ PostMessage(t) \/ Return(t)
            \/ Complete(t) \/ Unroot(t) \/ DestroyRuntime(t) \/ Forget(t)

ThreadSpec == ThreadInit /\ [][ThreadNext]_threadVars
-----------------------------------------------------------------------------
\* A Thread lives as long as its thread needs it and until the script has heard
\* that it is complete, whether the script holds it or not; and when the program
\* ends, it is deleted only when the thread is over, whatever that is doing.  A
\* script that calls start() again before the last thread is over, which it is
\* not yet in the handler of complete, is left out, as m_JsRuntime and m_Params
\* then belong to both; and so is the use of a Thread that was deleted before
\* m_JsRuntime told the destructor that there is a thread to wait for.  The
\* runtime that the destructor interrupts may be destroyed by then, but only as
\* the program ends: what is collected before has none.
ThreadIsWaitedFor ==
    /\ "runtime" \in stale => ended
    /\ "again" \notin hasty =>
        /\ "object" \in stale => "early" \in hasty
        /\ "params" \notin stale
        /\ object.life = "deleted" /\ ~ended =>
                \A t \in Starts :
                    \/ thread[t].pc = "none" \/ thread[t].failed
                    \/ thread[t].pc = "over" /\ heard[t] = "complete"
=============================================================================
