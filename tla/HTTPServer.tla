----------------------------- MODULE HTTPServer -----------------------------
(***************************************************************************)
(* The HTTP server of Net/HTTPServer.cpp as scripts have it                *)
(* (Binding/JSHTTPServer.cpp): the connections of its clients, what their  *)
(* parsers make of the requests, and the responses that scripts fill in,   *)
(* in the handler of the request or at any time later.  WebSocket has the  *)
(* connections that are upgraded.                                          *)
(*                                                                         *)
(* A client is what it makes of the bytes that come: it tells whether they *)
(* are whole answers, each to the next of its requests.  External: the     *)
(* parser calls back once per part of a message; APE_socket_shutdown()     *)
(* calls on_disconnect later, and nothing written after it arrives.        *)
(***************************************************************************)
EXTENDS Naturals, Sequences

CONSTANTS
    Con,            \* the connections, and their sockets
    MaxRequests     \* the requests of a client: a bound

ASSUME HTTPServerAssumption == MaxRequests \in Nat

VARIABLES
    kind,       \* per connection: the server it is to, "http" or "websocket"
    sock,       \* per socket: "none", "open", "closing" or "closed"
    con,        \* per connection: its HTTPClientConnection
    client,     \* per connection: what its client has sent and received
    used        \* per connection: who has used it after it was deleted

serverVars == <<kind, sock, con, client, used>>

\* A HTTPResponse: the request it answers, 0 for NULL, m_HeaderSent, m_Chunked,
\* m_Statuscode, and whether it has m_Content.  The code does not keep whether
\* the request is a HEAD, nor whether the script has called end().
Response(n, head) ==
    [of |-> n, head |-> head, sent |-> FALSE, chunked |-> FALSE,
     status |-> 200, content |-> FALSE, ended |-> FALSE]
NULL == Response(0, FALSE)

\* 304 stands for itself and for the informational ones.
Statuses == {200, 204, 304}

\* ahead: it sent a request before the script was done with the one before.
\* misled: it was sent what no answer has, see Misleads.
NewClient == [sent |-> 0, got |-> 0, mode |-> "idle", asksClose |-> FALSE,
              ahead |-> FALSE, timedOut |-> FALSE, misled |-> FALSE]

NoCon == [life |-> "none", timer |-> FALSE, parser |-> "idle",
          headers |-> "none", count |-> 0, response |-> NULL]

ServerInit ==
    /\ kind \in [Con -> {"http", "websocket"}]
    /\ sock = [c \in Con |-> "none"]
    /\ con = [c \in Con |-> NoCon]
    /\ client = [c \in Con |-> NewClient]
    /\ used = [c \in Con |-> {}]

Responses == [of : 0..MaxRequests, head : BOOLEAN, sent : BOOLEAN,
              chunked : BOOLEAN, status : Statuses, content : BOOLEAN,
              ended : BOOLEAN]

Connections == [life : {"none", "live", "deleted"}, timer : BOOLEAN,
                parser : {"idle", "begun", "headers", "upgraded"},
                headers : {"none", "keep", "close"},
                count : 0..MaxRequests, response : Responses]

Clients == [sent : 0..MaxRequests, got : 0..MaxRequests,
            mode : {"idle", "body", "chunks", "garbled"},
            asksClose : BOOLEAN, ahead : BOOLEAN, timedOut : BOOLEAN,
            misled : BOOLEAN]

ServerTypeOK ==
    /\ kind \in [Con -> {"http", "websocket"}]
    /\ sock \in [Con -> {"none", "open", "closing", "closed"}]
    /\ con \in [Con -> Connections]
    /\ client \in [Con -> Clients]
    /\ used \in [Con -> SUBSET {"timer", "answer", "ping", "script",
                                "refusal"}]
-----------------------------------------------------------------------------
(* The client *)

\* The parts of an answer: a head that says that there is no body, a body of
\* known length or chunks, and what follows it.
Understood == {<<"idle", "empty", "idle">>, <<"idle", "length", "body">>,
               <<"idle", "chunked", "chunks">>, <<"body", "body", "idle">>,
               <<"chunks", "chunk", "chunks">>, <<"chunks", "last", "idle">>}

\* The client cl receives a part of the answer to its n-th request.
Receives(cl, n, part) ==
    LET next == {m \in {"idle", "body", "chunks"} :
                    n = cl.got + 1 /\ <<cl.mode, part, m>> \in Understood}
    IN  IF next = {} THEN [cl EXCEPT !.mode = "garbled"]
        ELSE LET m == CHOOSE m \in next : TRUE
             IN  [cl EXCEPT !.mode = m,
                            !.got = IF m = "idle" THEN @ + 1 ELSE @]

\* It receives several, one after the other.
ReceivesAll(cl, n, parts) ==
    LET after[i \in 0..Len(parts)] ==
            IF i = 0 THEN cl ELSE Receives(after[i - 1], n, parts[i])
    IN  after[Len(parts)]

Written(c, n, parts, misleads) ==
    IF sock[c] # "open" THEN client[c]
    ELSE [ReceivesAll(client[c], n, parts) EXCEPT !.misled = @ \/ misleads]
-----------------------------------------------------------------------------
(* A connection and its requests *)

Pending(r) == r.of # 0 /\ ~r.ended
Readable(c) == con[c].life = "live" /\ sock[c] \in {"open", "closing"}

\* nidium_socket_onaccept(), the constructors, root()
Accept(c) ==
    /\ sock[c] = "none"
    /\ sock' = [sock EXCEPT ![c] = "open"]
    /\ con' = [con EXCEPT ![c] = [NoCon EXCEPT !.life = "live", !.timer = TRUE]]
    /\ UNCHANGED <<kind, client, used>>

\* message_begin_cb(): the headers of the request before are forgotten.
MessageBegin(c) ==
    /\ Readable(c) /\ con[c].parser = "idle"
    /\ client[c].sent < MaxRequests /\ ~client[c].asksClose
    /\ con' = [con EXCEPT ![c].parser = "begun", ![c].headers = "none"]
    /\ client' = [client EXCEPT
                    ![c].sent = @ + 1,
                    ![c].ahead = @ \/ Pending(con[c].response)]
    /\ UNCHANGED <<kind, sock, used>>

\* header_field_cb(), header_value_cb(), headers_complete_cb()
Headers(c, connection) ==
    /\ Readable(c) /\ con[c].parser = "begun"
    /\ con' = [con EXCEPT ![c].parser = "headers", ![c].headers = connection]
    /\ client' = [client EXCEPT ![c].asksClose = (connection = "close")]
    /\ UNCHANGED <<kind, sock, used>>

\* message_complete_cb(): the last response is deleted, the script gets another
\* from its onrequest handler, and the parser is ready for the next request,
\* whatever the method of this one: a HEAD or not.
CompletedWrongly(k, head) ==
    [k EXCEPT !.parser = "idle", !.count = @ + 1,
              !.response = [@ EXCEPT !.of = k.count + 1, !.head = head,
                                     !.ended = FALSE]]
Completed(k, head) ==
    [k EXCEPT !.parser = "idle", !.count = @ + 1,
              !.response = Response(k.count + 1, head)]

MessageComplete(c, head) ==
    /\ Readable(c) /\ con[c].parser = "headers"
    /\ con' = [con EXCEPT ![c] = Completed(@, head)]
    /\ UNCHANGED <<kind, sock, client, used>>

\* The same for a request to be upgraded, to a server that does nothing with
\* it: what comes next is given to onContent(), which does nothing either.
MessageUpgraded(c, head) ==
    /\ Readable(c) /\ con[c].parser = "headers" /\ kind[c] = "http"
    /\ con' = [con EXCEPT
                 ![c] = [Completed(@, head) EXCEPT !.parser = "upgraded"]]
    /\ UNCHANGED <<kind, sock, client, used>>

\* HTTPClientConnection_checktimeout(), when nothing has been read for the ten
\* seconds of m_ClientTimeoutMs, answered or not.  WebSocket sets it to zero.
CheckTimeout(c) ==
    /\ con[c].timer /\ kind[c] = "http"
    /\ IF con[c].life # "live"
       THEN /\ used' = [used EXCEPT ![c] = @ \cup {"timer"}]
            /\ UNCHANGED <<sock, client>>
       ELSE /\ sock[c] = "open"
            /\ sock' = [sock EXCEPT ![c] = "closing"]
            /\ client' = [client EXCEPT ![c].timedOut = TRUE]
            /\ UNCHANGED used
    /\ UNCHANGED <<kind, con>>

\* ~HTTPClientConnection(): the timer and the response go with it, and script
\* objects of theirs are empty from then on.
DeletedWrongly(k) == [k EXCEPT !.life = "deleted", !.timer = FALSE]
Deleted(k) ==
    [k EXCEPT !.life = "deleted", !.timer = FALSE, !.response = NULL]

\* nidium_socket_client_disconnect()
Disconnect(c) ==
    /\ sock[c] \in {"open", "closing"} /\ kind[c] = "http"
    /\ sock' = [sock EXCEPT ![c] = "closed"]
    /\ con' = [con EXCEPT ![c] = Deleted(@)]
    /\ UNCHANGED <<kind, client, used>>
-----------------------------------------------------------------------------
(* The response, in the hands of the script *)

\* shouldCloseConnection(): what the headers of the request being read say.
ShouldCloseWrongly(c) == con[c].headers = "close" /\ con[c].count > 1
ShouldClose(c) == con[c].headers = "close"

\* sendHeaders(): only a 204 is never chunked.
SendHeaders(r, chunked) ==
    IF r.sent THEN r
    ELSE [r EXCEPT !.sent = TRUE,
                   !.chunked = r.status # 204 /\ (@ \/ chunked)]

\* An answer without a body, whatever its head says.
Bodiless(r) == r.head \/ r.status \in {204, 304}

\* The head that is written if none was, when the response is left as new with
\* a body that is announced so.
HeadPart(r, new, body) ==
    IF r.sent THEN <<>> ELSE <<IF Bodiless(new) THEN "empty" ELSE body>>
Announced(new) == IF new.chunked THEN "chunked" ELSE "empty"

\* More than its head is written of an answer without a body; or something is,
\* or the connection closed, by a call after the answer has ended.
Misleads(r, new, parts, closes) ==
    \/ Bodiless(new) /\ parts \notin {<<>>, <<"empty">>}
    \/ r.ended /\ (parts # <<>> \/ closes)

\* A call of the script on the response it has, which leaves it as new, writes
\* the parts, and if it is end() closes the connection that should be.
Calls(c, new, parts, ends) ==
    LET r == con[c].response
        closes == ends /\ ShouldClose(c)
        misleads == Misleads(r, new, parts, closes)
    IN  /\ con' = [con EXCEPT ![c].response = new]
        /\ IF con[c].life # "live"
           THEN /\ used' = [used EXCEPT ![c] = @ \cup {"answer"}]
                /\ UNCHANGED <<sock, client>>
           ELSE /\ client' = [client EXCEPT
                        ![c] = Written(c, new.of, parts, misleads)]
                /\ sock' = [sock EXCEPT
                        ![c] = IF closes /\ @ = "open" THEN "closing" ELSE @]
                /\ UNCHANGED used
        /\ UNCHANGED kind

\* The script has the response, ended or not.
Answering(c) == kind[c] = "http" /\ con[c].response.of # 0

\* writeHead(), ignored once the headers are sent
WriteHead(c, status) ==
    LET r == con[c].response
        new == SendHeaders([r EXCEPT !.status = status], TRUE)
    IN  /\ Answering(c)
        /\ IF r.sent THEN UNCHANGED serverVars
           ELSE Calls(c, new, HeadPart(r, new, Announced(new)), FALSE)

\* write(), sendChunk(): whatever the status, and whatever was announced.
Write(c) ==
    LET r == con[c].response
        new == SendHeaders([r EXCEPT !.chunked = TRUE], FALSE)
    IN  /\ Answering(c)
        /\ Calls(c, new, Append(HeadPart(r, new, Announced(new)), "chunk"),
                 FALSE)

\* end(), without data
End(c) ==
    LET r == con[c].response
        new == SendHeaders(r, FALSE)
    IN  /\ Answering(c)
        /\ Calls(c, [new EXCEPT !.ended = TRUE],
                 HeadPart(r, new, Announced(new))
                    \o (IF new.chunked THEN <<"last">> ELSE <<>>), TRUE)

\* end() with data: chunked if it has begun so, in one piece otherwise.  Then
\* m_Content stays, with a NULL for its data, which is all that the next call
\* has to write.
EndWith(c) ==
    LET r == con[c].response
        last == [r EXCEPT !.sent = TRUE, !.ended = TRUE]
    IN  /\ Answering(c)
        /\ IF r.chunked THEN Calls(c, last, <<"chunk", "last">>, TRUE)
           ELSE \E body \in {<<"body">>} \cup IF r.content THEN {<<>>} ELSE {} :
                    Calls(c, [last EXCEPT !.content = TRUE],
                          HeadPart(r, last, "length") \o body, TRUE)

ServerNext ==
    \E c \in Con :
        \/ Accept(c) \/ MessageBegin(c)
        \/ \E connection \in {"keep", "close"} : Headers(c, connection)
        \/ \E head \in BOOLEAN : MessageComplete(c, head)
        \/ \E head \in BOOLEAN : MessageUpgraded(c, head)
        \/ CheckTimeout(c) \/ Disconnect(c)
        \/ \E status \in Statuses : WriteHead(c, status)
        \/ Write(c) \/ End(c) \/ EndWith(c)
-----------------------------------------------------------------------------
\* A client gets whole answers, in the order of its requests: whatever calls of
\* writeHead(), write() and end() a script answers with, and when, the framing
\* that the head announced is the one that follows, over the requests that one
\* connection carries.  Three kinds of use break it, and no other does.  A
\* client sends its next request before the script has ended the response:
\* MessageComplete deletes the response, and the next answer takes its place.
\* The answer has no body, being to a HEAD or a 204 or a 304, and the script
\* writes one, or just ends what writeHead() announced as chunked: then
\* sendChunk() and end(), which look at neither, write on.  And the script
\* calls write() or end() after end(): what they write follows a whole answer.
AnswersInOrder ==
    \A c \in Con :
        ~client[c].ahead /\ ~client[c].misled => client[c].mode # "garbled"

\* A connection closes when the client asked for it and has its last answer,
\* and before that only for the timeout: the headers that decide are those
\* read last, and the answer may come long after them.  It excepts the same
\* uses: a second end() closes as the first does, so it may close before the
\* next request, whose headers have been read by then, has its answer.
ClosesWhenDone ==
    \A c \in Con :
        kind[c] = "http" /\ ~client[c].ahead /\ ~client[c].misled
            /\ ~client[c].timedOut =>
            /\ sock[c] = "closing" =>
                    client[c].asksClose /\ client[c].got = client[c].sent
            /\ con[c].response.of = client[c].sent /\ con[c].response.ended =>
                    sock[c] = "open" <=> ~client[c].asksClose
=============================================================================
