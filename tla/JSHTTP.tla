------------------------------- MODULE JSHTTP -------------------------------
(***************************************************************************)
(* The HTTP object of scripts (Binding/JSHTTP.cpp): the delegate of an     *)
(* HTTP, and what a script does with it, from its own code and from the    *)
(* handlers of the events.  The object is rooted while a request runs, so  *)
(* that a script need not hold it.                                         *)
(***************************************************************************)
EXTENDS HTTP, FiniteSets

VARIABLES
    alive,      \* the garbage collector has not taken the object
    held,       \* the script has a reference to it
    rooted,     \* ClassMapper::m_Rooted
    answers,    \* per request: the events response and error it has had, three
                \* for more
    stopped,    \* history: the requests that the script stopped
    again       \* history: those stopped in a handler of their own error

jsVars == <<alive, held, rooted, answers, stopped, again>>
vars == <<httpVars, jsVars>>

Init ==
    /\ HTTPInit
    /\ alive = TRUE /\ held = TRUE /\ rooted = FALSE
    /\ answers = [r \in Request |-> 0] /\ stopped = {} /\ again = {}

TypeOK ==
    /\ HTTPTypeOK
    /\ alive \in BOOLEAN /\ held \in BOOLEAN /\ rooted \in BOOLEAN
    /\ answers \in [Request -> 0..3] /\ stopped \subseteq Request
    /\ again \subseteq stopped
-----------------------------------------------------------------------------
Answered(r) == answers' = [answers EXCEPT ![r] = IF @ = 3 THEN @ ELSE @ + 1]

\* onRequest(): the event, or an error when the body is not the JSON that it
\* should be, then the root goes.
OnRequest ==
    /\ At("onRequest") /\ Answered(h.msg)
    /\ \E event \in {"response", "error"} :
        Rest(<<CallOn("handler", event), Call("unroot")>>)
    /\ UNCHANGED <<env, h, net, timers, req, fault, alive, held, rooted,
                   stopped, again>>
OnError ==
    /\ At("onError") /\ Answered(req)
    /\ Rest(<<CallOn("handler", "error"), Call("unroot")>>)
    /\ UNCHANGED <<env, h, net, timers, req, fault, alive, held, rooted,
                   stopped, again>>
Unroot ==
    /\ At("unroot") /\ Return
    /\ rooted' = FALSE
    /\ UNCHANGED <<env, h, net, timers, req, fault, alive, held, answers,
                   stopped, again>>

\* onHeader(), onProgress(): an event and nothing else.
OnEvent ==
    /\ At("onHeader") \/ At("onProgress")
    /\ Rest(<<CallOn("handler", IF At("onHeader") THEN "headers"
                                ELSE "progress")>>)
    /\ UNCHANGED <<env, h, net, timers, req, fault, jsVars>>

\* JS_request(), JSHTTP::request(): refused while a request is pending.
JSRequest ==
    /\ CanDoRequest /\ req < env.requests
    /\ req' = req + 1 /\ rooted' = TRUE
    /\ Rest(<<Call(IF h.cur = NoSock THEN "createConnection" ELSE "reuse")>>)
    /\ UNCHANGED <<env, h, net, timers, fault, alive, held, answers, stopped,
                   again>>

\* JS_stop()
JSStop ==
    /\ Rest(<<Call("stop")>>)
    /\ stopped' = IF h.ended THEN stopped ELSE stopped \cup {req}
    /\ again' = IF h.ended \/ ~(At("handler") /\ On = "error") THEN again
                ELSE again \cup {req}
    /\ UNCHANGED <<env, h, net, timers, req, fault, alive, held, rooted,
                   answers>>

\* The script, in a handler of an event or from elsewhere.
HandlerReturns ==
    /\ At("handler") /\ Return
    /\ UNCHANGED <<env, h, net, timers, req, fault, jsVars>>
HandlerRequests ==
    At("handler") /\ <<On, "request">> \in env.calls /\ JSRequest
HandlerStops == At("handler") /\ <<On, "stop">> \in env.calls /\ JSStop
ScriptRequests == MainLoop /\ held /\ JSRequest
ScriptStops == MainLoop /\ held /\ req > 0 /\ JSStop
ScriptDrops ==
    /\ MainLoop /\ held
    /\ held' = FALSE
    /\ UNCHANGED <<httpVars, alive, rooted, answers, stopped, again>>

\* ~JSHTTP(), ~HTTP()
CollectWrongly ==
    /\ MainLoop /\ alive /\ ~held /\ ~rooted
    /\ alive' = FALSE
    /\ ctx' = ctx \ {h.cur}
    /\ IF h.cur = NoSock THEN UNCHANGED <<sock, fault>>
       ELSE /\ fault' = (sock[h.cur] = "free")
            /\ sock' = [sock EXCEPT ![h.cur] = "free"]
    /\ h' = [h EXCEPT !.cur = NoSock, !.err = "none", !.delegate = FALSE]
    /\ UNCHANGED <<env, asked, timers, req, todo, held, rooted, answers,
                   stopped, again>>
Collect ==
    /\ MainLoop /\ alive /\ ~held /\ ~rooted
    /\ alive' = FALSE
    /\ ctx' = ctx \ {h.cur}
    /\ IF h.cur = NoSock THEN UNCHANGED <<sock, fault>>
       ELSE /\ fault' = (sock[h.cur] = "free")
            /\ sock' = [sock EXCEPT ![h.cur] = "free"]
    /\ ClearTimeout
    /\ h' = [WithoutTimer EXCEPT !.cur = NoSock, !.err = "none",
                                 !.delegate = FALSE]
    /\ UNCHANGED <<env, asked, req, todo, held, rooted, answers, stopped,
                   again>>

JSNext ==
    \/ OnRequest \/ OnError \/ Unroot \/ OnEvent
    \/ HandlerReturns \/ HandlerRequests \/ HandlerStops
    \/ ScriptRequests \/ ScriptStops \/ ScriptDrops \/ Collect

\* What a socket or a timer does with an HTTP that was deleted is undefined.
Next == JSNext \/ (alive /\ (Reading \/ HTTPNext) /\ UNCHANGED jsVars)

Spec == Init /\ [][Next]_vars
-----------------------------------------------------------------------------

\* A client that refuses requests will accept them again: when no call is in
\* progress, a timer will stop its request, or a socket's end will be taken for
\* the end of it - as long as no connection's end has forgotten a request.
NeverStuck ==
    MainLoop /\ alive /\ ~CanDoRequest /\ h.lost = {} =>
        \/ h.timer \in timers
        \/ \E s \in ctx : sock[s] # "free" /\ h.cur \in {NoSock, s}

\* No timer and no socket but the ones in hand has the address of the HTTP
\* object, and none at all once it is deleted: they would call it back.  Only
\* a request that the end of a connection forgets leaves its own, one timer
\* and one socket.
NothingOutlives ==
    LET inHand == IF alive THEN {h.cur, h.timer} ELSE {}
    IN  MainLoop =>
            /\ Cardinality(ctx \ inHand) <= Cardinality(h.lost)
            /\ Cardinality(timers \ inHand) <= Cardinality(h.lost)
=============================================================================
