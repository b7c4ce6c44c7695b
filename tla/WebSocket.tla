------------------------------ MODULE WebSocket ------------------------------
(***************************************************************************)
(* The WebSocket server (Net/WebSocket.cpp) and its script objects         *)
(* (Binding/JSWebSocket.cpp): a connection of HTTPServer that is upgraded. *)
(* The script has an object per client from onopen on, rooted until        *)
(* onclose, with the address of the connection, which it may keep.         *)
(*                                                                         *)
(* External: ape_ws_close() says goodbye and shuts the socket down;        *)
(* APE_socket_shutdown_now() calls on_disconnect before it returns.        *)
(***************************************************************************)
EXTENDS HTTPServer

VARIABLES
    ws      \* per connection: m_Handshaked, m_PingTimer, and its object:
            \* whether it is rooted and what the script has heard of it

vars == <<serverVars, ws>>

NoObject == [handshaked |-> FALSE, ping |-> FALSE, rooted |-> FALSE,
             heard |-> "nothing"]

Init == ServerInit /\ ws = [c \in Con |-> NoObject]

TypeOK ==
    /\ ServerTypeOK
    /\ ws \in [Con -> [handshaked : BOOLEAN, ping : BOOLEAN, rooted : BOOLEAN,
                       heard : {"nothing", "open", "closed", "nonsense"}]]
-----------------------------------------------------------------------------
\* What the script has heard after one more event.
Hears(heard, event) ==
    CASE heard = "nothing" /\ event = "open" -> "open"
      [] heard = "open" /\ event = "message" -> "open"
      [] heard = "open" /\ event = "close" -> "closed"
      [] OTHER -> "nonsense"

\* onRead() of a request that is complete and asks for an upgrade.
Upgrading(c) ==
    Readable(c) /\ kind[c] = "websocket" /\ con[c].parser = "headers"

\* onUpgrade(), createClient(): the handshake, the ping timer, onopen.
Upgrade(c) ==
    /\ Upgrading(c)
    /\ con' = [con EXCEPT ![c] = [Completed(@, FALSE) EXCEPT !.parser = "upgraded"]]
    /\ ws' = [ws EXCEPT ![c] = [handshaked |-> TRUE, ping |-> TRUE,
                                rooted |-> TRUE,
                                heard |-> Hears(@.heard, "open")]]
    /\ UNCHANGED <<kind, sock, client, used>>

\* onUpgrade() to something else, or without a key: close() disconnects at
\* once, which deletes the connection that onRead() goes on with.
Refuse(c) ==
    /\ Upgrading(c)
    /\ sock' = [sock EXCEPT ![c] = "closed"]
    /\ con' = [con EXCEPT ![c] = Deleted(Completed(@, FALSE))]
    /\ used' = [used EXCEPT ![c] = @ \cup {"refusal"}]
    /\ UNCHANGED <<kind, client, ws>>

\* onContent(), onFrame(): a message
Content(c) ==
    /\ Readable(c) /\ ws[c].handshaked
    /\ ws' = [ws EXCEPT ![c].heard = Hears(@, "message")]
    /\ UNCHANGED serverVars

\* PingTimer()
Ping(c) ==
    /\ ws[c].ping
    /\ used' = [used EXCEPT ![c] =
                    IF con[c].life = "live" THEN @ ELSE @ \cup {"ping"}]
    /\ UNCHANGED <<kind, sock, con, client, ws>>

\* nidium_socket_client_disconnect(), onDisconnect(): nobody hears of the end
\* of a connection that was never opened.
DisconnectedWrongly(w) ==
    [w EXCEPT !.ping = FALSE, !.rooted = FALSE,
              !.heard = Hears(@, "close")]
Disconnected(w) ==
    IF ~w.handshaked THEN w
    ELSE [w EXCEPT !.ping = FALSE, !.rooted = FALSE,
                   !.heard = Hears(@, "close")]

WSDisconnect(c) ==
    /\ sock[c] \in {"open", "closing"} /\ kind[c] = "websocket"
    /\ sock' = [sock EXCEPT ![c] = "closed"]
    /\ con' = [con EXCEPT ![c] = Deleted(@)]
    /\ ws' = [ws EXCEPT ![c] = Disconnected(@)]
    /\ UNCHANGED <<kind, client, used>>

\* send() and close() of the object, which a script may keep after onclose.
Called(c) ==
    used' = [used EXCEPT ![c] =
                IF con[c].life = "live" THEN @ ELSE @ \cup {"script"}]
Send(c) ==
    /\ ws[c].heard # "nothing" /\ Called(c)
    /\ UNCHANGED <<kind, sock, con, client, ws>>
Close(c) ==
    /\ ws[c].heard # "nothing" /\ Called(c)
    /\ sock' = [sock EXCEPT ![c] = IF @ = "open" THEN "closing" ELSE @]
    /\ UNCHANGED <<kind, con, client, ws>>

WSNext ==
    \E c \in Con :
        \/ Upgrade(c) \/ Refuse(c) \/ Content(c) \/ Ping(c)
        \/ WSDisconnect(c) \/ Send(c) \/ Close(c)

Next == (ServerNext /\ UNCHANGED ws) \/ WSNext

Spec == Init /\ [][Next]_vars
-----------------------------------------------------------------------------
\* Scripts hear of a connection that it is open, then its messages, then once
\* that it is closed: never of one whose handshake was not done, and of each
\* that was, however it ends.  Its object is safe from the collector exactly
\* in between, while the connection has its address.
OpenThenClosed ==
    \A c \in Con :
        /\ ws[c].heard # "nonsense"
        /\ ws[c].rooted <=> ws[c].heard = "open"
        /\ con[c].life = "deleted" /\ ws[c].handshaked =>
                ws[c].heard = "closed"

\* Nobody uses a connection that is deleted: its timers are stopped with it,
\* and the response that a script still holds is emptied.  But onRead() does,
\* of one that was refused, and a script may, that has heard of the end.
DeletedIsLeftAlone ==
    \A c \in Con :
        used[c] \subseteq
            {"refusal"} \cup IF ws[c].heard = "closed" THEN {"script"} ELSE {}
=============================================================================
