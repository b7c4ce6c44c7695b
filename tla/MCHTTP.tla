------------------------------- MODULE MCHTTP -------------------------------
(* Instances of HTTP for TLC, with a script (JSHTTP) or a stream (HTTPStream) *)
(* as the delegate: env.user says which, the other's state stays as it is.    *)
EXTENDS HTTPStream, TLC

VARIABLES alive, held, rooted, answers, jsStopped, again

J == INSTANCE JSHTTP WITH stopped <- jsStopped

jsVars == <<alive, held, rooted, answers, jsStopped, again>>

NetInit ==
    /\ Init
    /\ alive = TRUE /\ held = TRUE /\ rooted = FALSE
    /\ answers = [r \in Request |-> 0] /\ jsStopped = {} /\ again = {}

NetNext ==
    \/ env.user = "script" /\ J!Next /\ UNCHANGED streamVars
    \/ env.user = "stream" /\ Next /\ UNCHANGED jsVars

NetSpec == NetInit /\ [][NetNext]_<<vars, jsVars>>

Symmetry == Permutations(Sock)

NeverStuck == J!NeverStuck
NothingOutlives == J!NothingOutlives
-----------------------------------------------------------------------------
\* What the documentation and the tests of HTTP do in the handlers, and a stop
\* when there is an error.
Calls == {<<"response", "request">>, <<"error", "request">>,
          <<"headers", "stop">>, <<"error", "stop">>}

Script(answering, count) ==
    [user |-> "script", answers |-> answering, calls |-> Calls,
     requests |-> count, connectFails |-> TRUE, ranges |-> {FALSE},
     patient |-> TRUE]
Streaming(answering, count, calling, waiting) ==
    [user |-> "stream", answers |-> answering, calls |-> calling,
     requests |-> count, connectFails |-> FALSE, ranges |-> BOOLEAN,
     patient |-> waiting]
Packets == {<<"available", "packet">>}

\* A script, and a stream whose user takes packets from the handler, and seeks
\* and stops elsewhere at any time: with servers that say where their messages
\* end, with servers that end them by closing the connection, and, for fewer
\* requests, with servers whose redirections end that way.
EveryEnvironment ==
    {Script({"keep", "close", "redirect"}, 3),
     Script({"keep", "close", "until_eof"}, 3),
     Script({"keep", "redirect_eof"}, 2),
     Streaming({"keep", "redirect"}, 3, Packets, FALSE),
     Streaming({"close", "until_eof"}, 3, Packets, FALSE),
     Streaming({"keep", "redirect_eof"}, 1, Packets, FALSE)}

\* A script that waits for a seek to end before the next one, and seeks from the
\* handler, as the documentation's example does.
SeekingEnvironment ==
    {[Streaming({"keep"}, 3, {<<"available", "seek">>}, TRUE)
      EXCEPT !.ranges = {TRUE}]}
=============================================================================
