-------------------------------- MODULE HTTP --------------------------------
(***************************************************************************)
(* The HTTP client of Net/HTTP.cpp: one HTTP object, its sockets, its      *)
(* timer and its parser, for the delegates that extend this module.        *)
(*                                                                         *)
(* Everything happens on one thread, but the handlers call each other and  *)
(* call the delegate, which may call them again: todo is what is left to   *)
(* do of the calls in progress, the innermost first.  An event of the main *)
(* loop (the network, the timer) comes when it is empty.                   *)
(*                                                                         *)
(* External: APE_socket_shutdown_now() calls on_disconnect before it       *)
(* returns, as HTTP.cpp expects of it, APE_socket_shutdown() later; the    *)
(* parser calls back once per part of a message.  A server answers each    *)
(* request once, with one message.                                         *)
(***************************************************************************)
EXTENDS Naturals, Sequences

CONSTANTS
    Sock,           \* the sockets
    NoSock,         \* NULL
    MaxReq,         \* the requests of the script: a bound
    MaxRedirect,    \* m_MaxRedirect
    Environment     \* what servers answer (see Message), what the delegate's
                    \* user calls from which event, how many requests it makes
                    \* and whether createConnection() may fail; delegates add
                    \* to it

ASSUME HTTPAssumption ==
    /\ NoSock \notin Sock
    /\ MaxReq \in Nat /\ MaxRedirect \in Nat

VARIABLES
    env,        \* the environment: it does not change
    h,          \* the fields of the HTTP object, and two histories: lost, the
                \* requests made while a connection ends, which the end forgets,
                \* and cut, those whose answer the parser is left in the middle of
    sock,       \* per socket: "free", "connecting", "open", "closing"
                \* (it will be shut down) or "dying" (in on_disconnect)
    ctx,        \* the sockets whose ctx is the HTTP object
    asked,      \* per socket: the request to answer, 0 for none
    timers,     \* the timers that will call Nidium_HTTP_handle_timeout()
    req,        \* the number of the last request that was accepted
    fault,      \* a socket that does not exist was used
    todo        \* the calls in progress

net == <<sock, ctx, asked>>
httpVars == <<env, h, net, timers, req, fault, todo>>

Timer == 1..(MaxReq + 1)
Request == 1..MaxReq
Message == {"keep", "close", "until_eof", "redirect", "redirect_eof"}
UntilEof == {"until_eof", "redirect_eof"}
Redirects == {"redirect", "redirect_eof"}
Errors == {"none", "disconnected", "response", "socket", "timeout",
           "redirectmax"}

HTTPInit ==
    /\ env \in Environment
    /\ h = [cur |-> NoSock, ended |-> FALSE, canDo |-> TRUE, err |-> "none",
            timer |-> 0, redirect |-> FALSE, count |-> 0, close |-> FALSE,
            rdy |-> FALSE, parser |-> "dead", parsing |-> FALSE, msg |-> 0,
            delegate |-> FALSE, lost |-> {}, cut |-> {}]
    /\ sock = [s \in Sock |-> "free"] /\ ctx = {}
    /\ asked = [s \in Sock |-> 0]
    /\ timers = {} /\ req = 0 /\ fault = FALSE /\ todo = <<>>

HTTPTypeOK ==
    /\ h \in [cur : Sock \cup {NoSock}, ended : BOOLEAN, canDo : BOOLEAN,
              err : Errors, timer : Timer \cup {0}, redirect : BOOLEAN,
              count : 0..(MaxRedirect + 1), close : BOOLEAN,
              rdy : BOOLEAN, parser : {"start", "body", "eof", "dead"},
              parsing : BOOLEAN, msg : 0..MaxReq, delegate : BOOLEAN,
              lost : SUBSET Request, cut : SUBSET Request]
    /\ sock \in [Sock -> {"free", "connecting", "open", "closing", "dying"}]
    /\ ctx \subseteq Sock /\ asked \in [Sock -> 0..MaxReq]
    /\ timers \subseteq Timer /\ req \in 0..MaxReq /\ fault \in BOOLEAN
-----------------------------------------------------------------------------
(* The calls in progress. *)

Call(f) == [f |-> f, on |-> NoSock]
CallOn(f, what) == [f |-> f, on |-> what]
MainLoop == todo = <<>> /\ ~fault
At(f) == todo # <<>> /\ Head(todo).f = f /\ ~fault
On == Head(todo).on
Rest(calls) == todo' = calls \o (IF todo = <<>> THEN <<>> ELSE Tail(todo))
Return == Rest(<<>>)

\* clearTimeout(), then what else an action does to h.
WithoutTimer == [h EXCEPT !.timer = 0]
ClearTimeout == timers' = timers \ {h.timer}

\* canDoRequest()
CanDoRequest == h.canDo /\ h.err = "none"

Cleared == [h EXCEPT !.err = "none", !.close = FALSE]

\* reportPendingError(), then the headers and the data go.
ClearState ==
    /\ At("clearState")
    /\ IF h.delegate /\ h.err # "none"
       THEN Rest(<<Call("onError"), Call("clearHeaders")>>) /\ UNCHANGED h
       ELSE Return /\ h' = Cleared
    /\ UNCHANGED <<env, net, timers, req, fault>>
ClearHeaders ==
    /\ At("clearHeaders") /\ Return
    /\ h' = Cleared
    /\ UNCHANGED <<env, net, timers, req, fault>>
-----------------------------------------------------------------------------
(* Sockets. *)

\* The callback on_disconnect, then the socket is deleted.
Dies(s) ==
    /\ sock' = [sock EXCEPT ![s] = "dying"]
    /\ Rest(<<CallOn("disconnect", s), CallOn("deleted", s)>>)
Deleted ==
    /\ At("deleted") /\ Return
    /\ sock' = [sock EXCEPT ![On] = "free"]
    /\ asked' = [asked EXCEPT ![On] = 0]
    /\ ctx' = ctx \ {On}
    /\ UNCHANGED <<env, h, timers, req, fault>>

\* APE_socket_shutdown_now(): the callback runs at once.
ShutdownNow ==
    /\ At("shutdown_now")
    /\ IF sock[On] \in {"free", "dying"}
       THEN Return /\ UNCHANGED sock
       ELSE Dies(On)
    /\ fault' = (sock[On] = "free")
    /\ UNCHANGED <<env, h, ctx, asked, timers, req>>

\* The peer closes the connection or cannot be reached, or a socket that was
\* shut down has nothing more to write.
Disconnected(s) ==
    /\ MainLoop /\ sock[s] # "free"
    /\ Dies(s)
    /\ UNCHANGED <<env, h, ctx, asked, timers, req, fault>>

Disconnect ==
    /\ At("disconnect")
    /\ IF On \notin ctx \/ h.cur \notin {NoSock, On}
       THEN Return /\ UNCHANGED <<h, timers>>
       ELSE /\ ClearTimeout /\ h' = WithoutTimer
            /\ Rest(<<Call("eof"), CallOn("forget", On)>>)
    /\ UNCHANGED <<env, net, req, fault>>
Forget ==
    /\ At("forget")
    /\ h' = [h EXCEPT !.cur = NoSock,
                      !.err = IF h.ended THEN @ ELSE "disconnected"]
    /\ Rest(<<Call("clearState"), CallOn("forgotten", On)>>)
    /\ UNCHANGED <<env, net, timers, req, fault>>
ForgottenWrongly ==
    /\ At("forgotten") /\ Return
    /\ ctx' = ctx \ {On}
    /\ UNCHANGED <<env, h, sock, asked, timers, req, fault>>
Forgotten ==
    /\ At("forgotten") /\ Return
    /\ h' = [h EXCEPT !.canDo = TRUE]
    /\ ctx' = ctx \ {On}
    /\ UNCHANGED <<env, sock, asked, timers, req, fault>>

\* The parser at the end of the stream, unless it is at work.
Eof ==
    /\ At("eof")
    /\ IF h.parsing \/ ~h.rdy \/ h.parser # "eof"
       THEN /\ Return
            /\ h' = [h EXCEPT !.cut = IF h.parsing /\ h.parser = "eof"
                                      THEN @ \cup {h.msg} ELSE @]
       ELSE Rest(<<Call("requestEnded")>>) /\ h' = [h EXCEPT !.parser = "start"]
    /\ UNCHANGED <<env, net, timers, req, fault>>

\* nidium_http_connected(): the parser starts afresh, the request is written.
Connected(s) ==
    IF s \in ctx
    THEN /\ asked' = [asked EXCEPT ![s] = req]
         /\ h' = [h EXCEPT !.rdy = TRUE, !.parser = "start"]
    ELSE UNCHANGED <<asked, h>>
Connects(s) ==
    /\ MainLoop /\ sock[s] = "connecting"
    /\ sock' = [sock EXCEPT ![s] = "open"]
    /\ Connected(s)
    /\ UNCHANGED <<env, ctx, timers, req, fault, todo>>
-----------------------------------------------------------------------------
(* Requests. *)

\* The requests that are made, or made again, while a connection ends.
Lost == IF \E i \in 1..Len(todo) : todo[i].f = "forget"
        THEN h.lost \cup {req} ELSE h.lost

\* request(), which has checked canDoRequest().
NewRequest(force) ==
    /\ IF force /\ h.cur # NoSock
       THEN /\ ctx' = ctx \ {h.cur}
            /\ Rest(<<CallOn("shutdown_now", h.cur), Call("createConnection")>>)
       ELSE /\ UNCHANGED ctx
            /\ Rest(<<Call(IF h.cur = NoSock THEN "createConnection"
                           ELSE "reuse")>>)
    /\ UNCHANGED <<env, h, sock, asked, timers, req, fault>>
RequestAgain == At("request") /\ NewRequest(TRUE)

CreateConnection ==
    /\ At("createConnection")
    /\ \E s \in Sock :
        /\ sock[s] = "free" /\ s # h.cur
        /\ sock' = [sock EXCEPT ![s] = "connecting"]
        /\ ctx' = ctx \cup {s}
        /\ h' = [h EXCEPT !.cur = s]
        /\ Rest(<<Call("begin")>>)
    /\ UNCHANGED <<env, asked, timers, req, fault>>
\* m_CurrentSock may be left with a socket that was shut down.
CreateConnectionFails ==
    /\ At("createConnection") /\ env.connectFails
    /\ h' = [h EXCEPT !.err = IF h.delegate THEN "socket" ELSE @,
                      !.lost = Lost]
    /\ Rest(<<Call("clearState")>>)
    /\ UNCHANGED <<env, net, timers, req, fault>>

\* What is left of request(), on a new connection or on the one in hand.
Began(g) ==
    LET t == CHOOSE t \in Timer : t \notin timers
    IN  /\ timers' = timers \cup {t}
        /\ h' = [g EXCEPT !.timer = t, !.ended = FALSE, !.canDo = FALSE,
                          !.delegate = TRUE, !.lost = Lost]
Begin ==
    /\ At("begin") /\ Return
    /\ Began(h)
    /\ UNCHANGED <<env, net, req, fault>>
Reuse ==
    /\ At("reuse") /\ Return
    /\ IF h.cur \in ctx
       THEN /\ asked' = [asked EXCEPT ![h.cur] = req]
            /\ Began([h EXCEPT !.rdy = TRUE, !.parser = "start"])
       ELSE UNCHANGED asked /\ Began(h)
    /\ fault' = (sock[h.cur] = "free")
    /\ UNCHANGED <<env, sock, ctx, req>>

\* stopRequest()
Stop(how) ==
    /\ At(how) /\ how \in {"stop", "timeout"}
    /\ ClearTimeout
    /\ h' = [WithoutTimer EXCEPT !.ended = TRUE]
    /\ IF h.ended THEN Return
       ELSE Rest((IF h.cur = NoSock THEN <<>>
                  ELSE <<CallOn("shutdown_now", h.cur)>>)
                 \o <<Call(IF how = "stop" THEN "stopped" ELSE "timedOut")>>)
    /\ UNCHANGED <<env, net, req, fault>>
Stopped ==
    /\ At("stopped") \/ At("timedOut")
    /\ h' = [h EXCEPT !.err = IF At("timedOut") THEN "timeout" ELSE @]
    /\ Rest(<<Call("clearState"), Call("eof"), Call("canDo")>>)
    /\ UNCHANGED <<env, net, timers, req, fault>>
CanDo ==
    /\ At("canDo") /\ Return
    /\ h' = [h EXCEPT !.canDo = TRUE]
    /\ UNCHANGED <<env, net, timers, req, fault>>

\* Nidium_HTTP_handle_timeout()
TimerFires(t) ==
    /\ MainLoop /\ t \in timers
    /\ timers' = timers \ {t}
    /\ Rest(<<Call("timeout")>>)
    /\ UNCHANGED <<env, h, net, req, fault>>
-----------------------------------------------------------------------------
(* Responses. *)

\* nidium_http_read(): the parts of a message that have come, and the last of
\* them or not.
Read(s, m, parts) ==
    /\ MainLoop /\ sock[s] = "open" /\ asked[s] # 0
    /\ IF s \notin ctx \/ h.ended
       THEN UNCHANGED <<h, todo>>
       ELSE /\ h' = [h EXCEPT !.parsing = TRUE,
                              !.msg = asked[s]]
            /\ Rest([i \in 1..Len(parts) |-> Call(parts[i])]
                    \o <<CallOn("readEnd", s)>>)
    /\ asked' = [asked EXCEPT ![s] =
                    IF parts[Len(parts)] = "requestEnded" THEN 0 ELSE @]
    /\ UNCHANGED <<env, sock, ctx, timers, req, fault>>
ReadStart(s) ==
    /\ h.parser = "start"
    /\ \E m \in env.answers :
        \E more \in {<<>>, <<"body">>, <<"body", "requestEnded">>} :
            /\ m \in UntilEof => Len(more) < 2
            /\ Read(s, m, <<"message_begin", m>> \o more)
ReadMore(s) ==
    /\ h.parser \in {"body", "eof"}
    /\ \E parts \in {<<"body">>, <<"requestEnded">>} :
        /\ h.parser = "eof" => parts = <<"body">>
        /\ Read(s, "keep", parts)
ReadJunk(s) == h.parser # "dead" /\ Read(s, "keep", <<"junk">>)

ReadEnd ==
    /\ At("readEnd")
    /\ h' = [h EXCEPT !.parsing = FALSE]
    /\ Return
    /\ UNCHANGED <<env, net, timers, req, fault>>
\* The parser gives up.
Junk ==
    /\ At("junk")
    /\ h' = [h EXCEPT !.parsing = FALSE, !.parser = "dead",
                      !.err = IF h.ended THEN @ ELSE "response"]
    /\ todo' = IF h.ended THEN Tail(Tail(todo))
               ELSE <<CallOn("shutdown_now", todo[2].on)>> \o Tail(Tail(todo))
    /\ UNCHANGED <<env, net, timers, req, fault>>

\* message_begin_cb()
MessageBegin ==
    /\ At("message_begin")
    /\ Rest(<<Call("clearState"), Call("clearTimeout")>>)
    /\ UNCHANGED <<env, h, net, timers, req, fault>>
MessageBegan ==
    /\ At("clearTimeout") /\ Return
    /\ ClearTimeout /\ h' = WithoutTimer
    /\ UNCHANGED <<env, net, req, fault>>

\* headers_complete_cb(), headerEnded(): the delegate hears of the headers
\* unless they redirect.  More redirections than are allowed are counted as one.
HeaderEnded(m) ==
    /\ At(m) /\ m \in Message
    /\ h' = [h EXCEPT !.redirect = m \in Redirects,
                      !.count = IF m \in Redirects /\ @ <= MaxRedirect
                                THEN @ + 1 ELSE @,
                      !.err = IF m \in Redirects /\ h.count >= MaxRedirect
                              THEN "redirectmax" ELSE @,
                      !.close = m = "close",
                      !.parser = IF m \in UntilEof THEN "eof" ELSE "body"]
    /\ IF m \in Redirects THEN Return ELSE Rest(<<Call("onHeader")>>)
    /\ UNCHANGED <<env, net, timers, req, fault>>

\* body_cb()
Body ==
    /\ At("body")
    /\ Rest(<<Call("onProgress")>>)
    /\ UNCHANGED <<env, h, net, timers, req, fault>>

\* message_complete_cb(), requestEnded()
RequestEnded ==
    /\ At("requestEnded")
    /\ h' = [h EXCEPT !.canDo = TRUE, !.parser = "start",
                      !.ended = @ \/ ~(h.redirect /\ h.err = "none")]
    /\ IF h.redirect /\ h.err = "none"
       THEN Rest(<<Call("clearState"), Call("request")>>)
       ELSE IF h.ended THEN Return
       ELSE Rest((IF h.err = "none" THEN <<Call("onRequest")>> ELSE <<>>)
                 \o <<Call("clearState")>>
                 \o (IF h.close THEN <<Call("doclose")>> ELSE <<>>))
    /\ UNCHANGED <<env, net, timers, req, fault>>
\* The server does not keep the connection: neither does the client.
Close ==
    /\ At("doclose")
    /\ IF h.cur = NoSock
       THEN fault' = TRUE /\ Return /\ UNCHANGED sock
       ELSE /\ sock' = [sock EXCEPT ![h.cur] = "closing"]
            /\ Rest(<<CallOn("disconnect", h.cur)>>)
            /\ UNCHANGED fault
    /\ UNCHANGED <<env, h, ctx, asked, timers, req>>

\* What a delegate may know more about: how long messages are.
Reading == \E s \in Sock : ReadStart(s) \/ ReadMore(s)

HTTPNext ==
    \/ ClearState \/ ClearHeaders
    \/ Deleted \/ ShutdownNow \/ Disconnect \/ Forget \/ Forgotten \/ Eof
    \/ RequestAgain \/ CreateConnection \/ CreateConnectionFails \/ Begin
    \/ Reuse \/ Stopped \/ CanDo
    \/ ReadEnd \/ Junk \/ MessageBegin \/ MessageBegan \/ Body \/ RequestEnded
    \/ Close
    \/ \E s \in Sock : Disconnected(s) \/ Connects(s) \/ ReadJunk(s)
    \/ \E t \in Timer : TimerFires(t)
    \/ \E how \in {"stop", "timeout"} : Stop(how)
    \/ \E m \in Message : HeaderEnded(m)
=============================================================================
