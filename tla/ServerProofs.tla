---------------------------- MODULE ServerProofs ----------------------------
(***************************************************************************)
(* What a worker of a server program is made of: the HTTP and WebSocket    *)
(* servers, for every set of connections and every number of requests; the *)
(* Socket of scripts, for every set of clients and every size of the line  *)
(* buffer; and the Thread of scripts, for every number of starts.  They    *)
(* share nothing, so each has an inductive invariant of its own.           *)
(***************************************************************************)
EXTENDS WebSocket, JSSocket, JSThread, TLAPS
-----------------------------------------------------------------------------
(* The servers keep to the protocol with every client.  A connection shares *)
(* nothing with another, so the inductive invariant is one of each, of its  *)
(* values: its kind kd, its socket s, its HTTPClientConnection k, its       *)
(* client cl, its WebSocket w, and who has used it after its end, u.        *)

WebSockets == [handshaked : BOOLEAN, ping : BOOLEAN, rooted : BOOLEAN,
               heard : {"nothing", "open", "closed", "nonsense"}]

Users == {"timer", "answer", "ping", "script", "refusal"}

Typed(kd, s, k, cl, w, u) ==
    /\ kd \in {"http", "websocket"}
    /\ s \in {"none", "open", "closing", "closed"}
    /\ k \in Connections /\ cl \in Clients /\ w \in WebSockets
    /\ u \in SUBSET Users

\* The connection lives as long as its socket, its timer with it, and there is
\* a response only then: the one to the last request that is complete.
Lives(s, k) ==
    /\ k.life = "none" <=> s = "none"
    /\ k.life = "live" <=> s \in {"open", "closing"}
    /\ k.timer <=> k.life = "live"
    /\ k.life = "live" => k.response.of = k.count
    /\ k.life = "none" => k = NoCon
    /\ k.life = "deleted" => k.response = NULL

\* What the parser has read is what the client has sent.
Parsed(k, cl) ==
    /\ cl.sent = k.count + IF k.parser \in {"begun", "headers"} THEN 1 ELSE 0
    /\ cl.asksClose <=> k.headers = "close"
    /\ k.parser = "begun" => k.headers = "none"

\* A response as the calls of a script leave it: one that has begun and has a
\* body is chunked.
Answered(r) ==
    /\ ~r.sent => r = Response(r.of, r.head)
    /\ r.ended => r.sent /\ r.of # 0
    /\ r.content => r.ended
    /\ r.sent /\ ~r.ended => r.chunked \/ Bodiless(r)

\* What the client has of the answer that the response r writes.
InChunks(r) == r.chunked /\ ~Bodiless(r)

HasOf(r, cl) ==
    IF Pending(r)
    THEN /\ cl.mode = IF InChunks(r) THEN "chunks" ELSE "idle"
         /\ cl.got = IF r.sent /\ ~InChunks(r) THEN r.of ELSE r.of - 1
    ELSE cl.mode = "idle" /\ cl.got = r.of

\* What the client has received so far is what the response has written so
\* far, as long as the socket takes it.
InStep(s, k, cl) ==
    /\ cl.mode # "garbled"
    /\ Pending(k.response) => k.parser \in {"idle", "upgraded"}
    /\ s = "open" => HasOf(k.response, cl)

\* Why the server closes a connection, and that it does.
Closes(s, k, cl) ==
    /\ s = "closing" => cl.asksClose /\ cl.got = cl.sent
    /\ k.response.ended /\ k.response.of = cl.sent /\ cl.asksClose =>
            s # "open"

\* A WebSocket is handshaked once, when its request is complete, and heard of
\* as long as it lives.
Heard(kd, k, w) ==
    /\ w.handshaked => kd = "websocket" /\ k.parser = "upgraded"
    /\ w.handshaked => k.life # "none"
    /\ w.heard = IF ~w.handshaked THEN "nothing"
                 ELSE IF k.life = "live" THEN "open" ELSE "closed"
    /\ w.rooted <=> w.heard = "open"
    /\ w.ping <=> w.heard = "open"

Whole(kd, s, k, cl, w, u) ==
    /\ Typed(kd, s, k, cl, w, u)
    /\ Lives(s, k)
    /\ k.life = "none" => cl = NewClient /\ u = {}
    /\ Parsed(k, cl)
    /\ Answered(k.response)
    /\ ~cl.ahead /\ ~cl.misled => InStep(s, k, cl)
    /\ kd = "http" /\ ~cl.ahead /\ ~cl.misled /\ ~cl.timedOut =>
            Closes(s, k, cl)
    /\ Heard(kd, k, w)
    /\ u \subseteq {"refusal"} \cup IF w.heard = "closed" THEN {"script"} ELSE {}

WholeAt(c) == Whole(kind[c], sock[c], con[c], client[c], ws[c], used[c])

Functions ==
    /\ kind = [c \in Con |-> kind[c]]
    /\ sock = [c \in Con |-> sock[c]]
    /\ con = [c \in Con |-> con[c]]
    /\ client = [c \in Con |-> client[c]]
    /\ ws = [c \in Con |-> ws[c]]
    /\ used = [c \in Con |-> used[c]]

IInv == Functions /\ \A c \in Con : WholeAt(c)
-----------------------------------------------------------------------------
(* The records that a step leaves, field by field. *)

LEMMA ExceptTwo ==
    ASSUME NEW f, NEW a, NEW b, NEW x, NEW y
    PROVE  [f EXCEPT ![a] = x, ![b] = y]
                = [z \in DOMAIN f |->
                        IF z = b THEN y ELSE IF z = a THEN x ELSE f[z]]
  BY Zenon

LEMMA ExceptThree ==
    ASSUME NEW f, NEW a, NEW b, NEW c, NEW x, NEW y, NEW v
    PROVE  [f EXCEPT ![a] = x, ![b] = y, ![c] = v]
                = [z \in DOMAIN f |->
                        IF z = c THEN v ELSE IF z = b THEN y
                        ELSE IF z = a THEN x ELSE f[z]]
  BY Zenon

LEMMA ParserRecord ==
    ASSUME NEW k \in Connections, NEW p, NEW h
    PROVE  [k EXCEPT !.parser = p, !.headers = h]
               = [life |-> k.life, timer |-> k.timer, parser |-> p,
                  headers |-> h, count |-> k.count, response |-> k.response]
<1>1. [z \in DOMAIN k |->
            IF z = "headers" THEN h
            ELSE IF z = "parser" THEN p ELSE k[z]]
          = [life |-> k.life, timer |-> k.timer, parser |-> p, headers |-> h,
             count |-> k.count, response |-> k.response]
  BY DEF Connections
<1> QED BY <1>1, ExceptTwo, Zenon

LEMMA RequestRecord ==
    ASSUME NEW k \in Connections, NEW p, NEW n, NEW r
    PROVE  [k EXCEPT !.parser = p, !.count = n, !.response = r]
               = [life |-> k.life, timer |-> k.timer, parser |-> p,
                  headers |-> k.headers, count |-> n, response |-> r]
<1>1. [z \in DOMAIN k |->
            IF z = "response" THEN r
            ELSE IF z = "count" THEN n
            ELSE IF z = "parser" THEN p ELSE k[z]]
          = [life |-> k.life, timer |-> k.timer, parser |-> p,
             headers |-> k.headers, count |-> n, response |-> r]
  BY DEF Connections
<1> QED BY <1>1, ExceptThree, Zenon

LEMMA EndRecord ==
    ASSUME NEW k \in Connections, NEW t
    PROVE  [k EXCEPT !.life = "deleted", !.timer = t, !.response = NULL]
               = [life |-> "deleted", timer |-> t, parser |-> k.parser,
                  headers |-> k.headers, count |-> k.count, response |-> NULL]
<1>1. [z \in DOMAIN k |->
            IF z = "response" THEN NULL
            ELSE IF z = "timer" THEN t
            ELSE IF z = "life" THEN "deleted" ELSE k[z]]
          = [life |-> "deleted", timer |-> t, parser |-> k.parser,
             headers |-> k.headers, count |-> k.count, response |-> NULL]
  BY DEF Connections
<1> QED BY <1>1, ExceptThree, Zenon

LEMMA ClientRecord ==
    ASSUME NEW cl \in Clients, NEW n, NEW a
    PROVE  [cl EXCEPT !.sent = n, !.ahead = a]
               = [sent |-> n, got |-> cl.got, mode |-> cl.mode,
                  asksClose |-> cl.asksClose, ahead |-> a,
                  timedOut |-> cl.timedOut, misled |-> cl.misled]
<1>1. [z \in DOMAIN cl |->
            IF z = "ahead" THEN a
            ELSE IF z = "sent" THEN n ELSE cl[z]]
          = [sent |-> n, got |-> cl.got, mode |-> cl.mode,
             asksClose |-> cl.asksClose, ahead |-> a,
             timedOut |-> cl.timedOut, misled |-> cl.misled]
  BY DEF Clients
<1> QED BY <1>1, ExceptTwo, Zenon

LEMMA AnswerRecord ==
    ASSUME NEW cl \in Clients, NEW m, NEW n
    PROVE  [cl EXCEPT !.mode = m, !.got = n]
               = [sent |-> cl.sent, got |-> n, mode |-> m,
                  asksClose |-> cl.asksClose, ahead |-> cl.ahead,
                  timedOut |-> cl.timedOut, misled |-> cl.misled]
<1>1. [z \in DOMAIN cl |->
            IF z = "got" THEN n
            ELSE IF z = "mode" THEN m ELSE cl[z]]
          = [sent |-> cl.sent, got |-> n, mode |-> m,
             asksClose |-> cl.asksClose, ahead |-> cl.ahead,
             timedOut |-> cl.timedOut, misled |-> cl.misled]
  BY DEF Clients
<1> QED BY <1>1, ExceptTwo, Zenon

LEMMA HeadRecord ==
    ASSUME NEW r \in Responses, NEW b, NEW ch
    PROVE  [r EXCEPT !.sent = b, !.chunked = ch]
               = [of |-> r.of, head |-> r.head, sent |-> b, chunked |-> ch,
                  status |-> r.status, content |-> r.content,
                  ended |-> r.ended]
<1>1. [z \in DOMAIN r |->
            IF z = "chunked" THEN ch
            ELSE IF z = "sent" THEN b ELSE r[z]]
          = [of |-> r.of, head |-> r.head, sent |-> b, chunked |-> ch,
             status |-> r.status, content |-> r.content, ended |-> r.ended]
  BY DEF Responses
<1> QED BY <1>1, ExceptTwo, Zenon

LEMMA LastRecord ==
    ASSUME NEW r \in Responses, NEW b, NEW e
    PROVE  [r EXCEPT !.sent = b, !.ended = e]
               = [of |-> r.of, head |-> r.head, sent |-> b,
                  chunked |-> r.chunked, status |-> r.status,
                  content |-> r.content, ended |-> e]
<1>1. [z \in DOMAIN r |->
            IF z = "ended" THEN e
            ELSE IF z = "sent" THEN b ELSE r[z]]
          = [of |-> r.of, head |-> r.head, sent |-> b, chunked |-> r.chunked,
             status |-> r.status, content |-> r.content, ended |-> e]
  BY DEF Responses
<1> QED BY <1>1, ExceptTwo, Zenon

LEMMA ContentRecord ==
    ASSUME NEW r \in Responses, NEW b
    PROVE  [r EXCEPT !.content = b]
               = [of |-> r.of, head |-> r.head, sent |-> r.sent,
                  chunked |-> r.chunked, status |-> r.status, content |-> b,
                  ended |-> r.ended]
  BY DEF Responses

LEMMA ObjectRecord ==
    ASSUME NEW w \in WebSockets, NEW p, NEW r, NEW h
    PROVE  [w EXCEPT !.ping = p, !.rooted = r, !.heard = h]
               = [handshaked |-> w.handshaked, ping |-> p, rooted |-> r,
                  heard |-> h]
<1>1. [z \in DOMAIN w |->
            IF z = "heard" THEN h
            ELSE IF z = "rooted" THEN r
            ELSE IF z = "ping" THEN p ELSE w[z]]
          = [handshaked |-> w.handshaked, ping |-> p, rooted |-> r,
             heard |-> h]
  BY DEF WebSockets
<1> QED BY <1>1, ExceptThree, Zenon
-----------------------------------------------------------------------------
(* What each operation leaves of a connection that is whole. *)

LEMMA NewResponse ==
    ASSUME NEW n \in 0..MaxRequests, NEW head \in BOOLEAN
    PROVE  Response(n, head) \in Responses
  BY DEF Response, Responses, Statuses

LEMMA NoResponse == NULL \in Responses
  BY HTTPServerAssumption DEF NULL, Response, Responses, Statuses

LEMMA CompletedRecord ==
    ASSUME NEW k \in Connections, NEW head
    PROVE  Completed(k, head)
             = [life |-> k.life, timer |-> k.timer, parser |-> "idle",
                headers |-> k.headers, count |-> k.count + 1,
                response |-> Response(k.count + 1, head)]
<1>1. \A n, r : [k EXCEPT !.parser = "idle", !.count = n, !.response = r]
                   = [life |-> k.life, timer |-> k.timer, parser |-> "idle",
                      headers |-> k.headers, count |-> n, response |-> r]
  BY RequestRecord, Zenon
<1> QED BY <1>1, Zenon DEF Completed

LEMMA AcceptIsWhole ==
    ASSUME NEW kd, NEW k, NEW cl, NEW w, NEW u, Whole(kd, "none", k, cl, w, u)
    PROVE  Whole(kd, "open", [NoCon EXCEPT !.life = "live", !.timer = TRUE],
                 cl, w, u)
<1> DEFINE new == [NoCon EXCEPT !.life = "live", !.timer = TRUE]
<1>1. new = [life |-> "live", timer |-> TRUE, parser |-> "idle",
             headers |-> "none", count |-> 0, response |-> NULL]
  <2>1. ASSUME NEW t
        PROVE  [NoCon EXCEPT !.life = "live", !.timer = t]
                 = [life |-> "live", timer |-> t, parser |-> "idle",
                    headers |-> "none", count |-> 0, response |-> NULL]
    <3>1. [z \in DOMAIN NoCon |-> IF z = "timer" THEN t
                ELSE IF z = "life" THEN "live" ELSE NoCon[z]]
            = [life |-> "live", timer |-> t, parser |-> "idle",
               headers |-> "none", count |-> 0, response |-> NULL]
      BY DEF NoCon
    <3> QED BY <3>1, ExceptTwo, Zenon
  <2> QED BY <2>1, Zenon
<1>2. /\ NULL = [of |-> 0, head |-> FALSE, sent |-> FALSE, chunked |-> FALSE,
                 status |-> 200, content |-> FALSE, ended |-> FALSE]
      /\ ~Pending(NULL)
  BY DEF NULL, Response, Pending
<1>3. /\ cl = NewClient /\ u = {} /\ w.heard = "nothing" /\ ~w.handshaked
      /\ ~w.rooted /\ ~w.ping
  BY DEF Whole, Lives, Heard, Typed, WebSockets
<1> HIDE DEF new
<1>4. Typed(kd, "open", new, cl, w, u)
  <2>1. new \in Connections
    BY <1>1, <1>2, HTTPServerAssumption DEF Connections, Responses, Statuses
  <2> QED BY <2>1 DEF Typed, Whole
<1>5. Lives("open", new) /\ Answered(new.response)
  BY <1>1, <1>2 DEF Lives, Answered, Response, Pending
<1>6. Parsed(new, cl) /\ InStep("open", new, cl) /\ Closes("open", new, cl)
  BY <1>1, <1>2, <1>3 DEF Parsed, InStep, HasOf, Closes, NewClient
<1>7. Heard(kd, new, w)
  BY <1>1, <1>3 DEF Heard
<1> QED BY <1>1, <1>3, <1>4, <1>5, <1>6, <1>7 DEF Whole, new

LEMMA MessageBeginIsWhole ==
    ASSUME NEW kd, NEW s, NEW k, NEW cl, NEW w, NEW u,
           Whole(kd, s, k, cl, w, u), k.life = "live", k.parser = "idle",
           cl.sent < MaxRequests, ~cl.asksClose
    PROVE  Whole(kd, s, [k EXCEPT !.parser = "begun", !.headers = "none"],
                 [cl EXCEPT !.sent = @ + 1, !.ahead = @ \/ Pending(k.response)],
                 w, u)
<1> DEFINE r == k.response
           new == [k EXCEPT !.parser = "begun", !.headers = "none"]
           cl2 == [cl EXCEPT !.sent = @ + 1, !.ahead = @ \/ Pending(r)]
<1>1. /\ new = [life |-> k.life, timer |-> k.timer, parser |-> "begun",
                headers |-> "none", count |-> k.count, response |-> r]
      /\ cl2 = [sent |-> cl.sent + 1, got |-> cl.got, mode |-> cl.mode,
                asksClose |-> cl.asksClose, ahead |-> cl.ahead \/ Pending(r),
                timedOut |-> cl.timedOut, misled |-> cl.misled]
  <2>1. k \in Connections /\ cl \in Clients
    BY DEF Whole, Typed
  <2>2. new = [life |-> k.life, timer |-> k.timer, parser |-> "begun",
               headers |-> "none", count |-> k.count, response |-> r]
    BY <2>1, ParserRecord, Zenon
  <2> HIDE DEF r
  <2>3. cl2 = [sent |-> cl.sent + 1, got |-> cl.got, mode |-> cl.mode,
               asksClose |-> cl.asksClose, ahead |-> cl.ahead \/ Pending(r),
               timedOut |-> cl.timedOut, misled |-> cl.misled]
    BY <2>1, ClientRecord, Zenon
  <2> QED BY <2>2, <2>3
<1>2. /\ Typed(kd, s, k, cl, w, u) /\ Lives(s, k) /\ Parsed(k, cl)
      /\ Answered(r) /\ Heard(kd, k, w)
      /\ ~cl.ahead /\ ~cl.misled => InStep(s, k, cl)
      /\ kd = "http" /\ ~cl.ahead /\ ~cl.misled /\ ~cl.timedOut =>
            Closes(s, k, cl)
  BY DEF Whole
<1> HIDE DEF new, cl2
<1>3. Typed(kd, s, new, cl2, w, u)
  <2>1. new \in Connections
    BY <1>1, <1>2, HTTPServerAssumption DEF Typed, Connections
  <2>2. cl2 \in Clients
    BY <1>1, <1>2, HTTPServerAssumption DEF Typed, Clients, Pending
  <2> QED BY <1>2, <2>1, <2>2 DEF Typed
<1>4. Lives(s, new)
  BY <1>1, <1>2 DEF Lives
<1>5. Parsed(new, cl2)
  BY <1>1, <1>2 DEF Parsed, Typed, Connections, Clients
<1>6. ~cl2.ahead /\ ~cl2.misled => InStep(s, new, cl2)
  BY <1>1, <1>2 DEF InStep, HasOf
<1>7. kd = "http" /\ ~cl2.ahead /\ ~cl2.misled /\ ~cl2.timedOut =>
            Closes(s, new, cl2)
  BY <1>1, <1>2 DEF Closes, Lives, Parsed, Typed, Connections, Clients
<1>8. Heard(kd, new, w)
  BY <1>1, <1>2 DEF Heard
<1> QED
  <2>1. new.response = r /\ new.life = "live"
    BY <1>1
  <2> QED BY <1>2, <1>3, <1>4, <1>5, <1>6, <1>7, <1>8, <2>1 DEF Whole, new, cl2

LEMMA HeadersAreWhole ==
    ASSUME NEW kd, NEW s, NEW k, NEW cl, NEW w, NEW u,
           NEW connection \in {"keep", "close"},
           Whole(kd, s, k, cl, w, u), k.life = "live", k.parser = "begun"
    PROVE  Whole(kd, s, [k EXCEPT !.parser = "headers", !.headers = connection],
                 [cl EXCEPT !.asksClose = (connection = "close")], w, u)
<1> DEFINE new == [k EXCEPT !.parser = "headers", !.headers = connection]
           cl2 == [cl EXCEPT !.asksClose = (connection = "close")]
<1>0. k \in Connections /\ cl \in Clients
  BY DEF Whole, Typed
<1>1. /\ new = [life |-> k.life, timer |-> k.timer, parser |-> "headers",
                headers |-> connection, count |-> k.count,
                response |-> k.response]
      /\ cl2 = [sent |-> cl.sent, got |-> cl.got, mode |-> cl.mode,
                asksClose |-> (connection = "close"), ahead |-> cl.ahead,
                timedOut |-> cl.timedOut, misled |-> cl.misled]
  <2>1. ASSUME NEW a
        PROVE  [cl EXCEPT !.asksClose = a]
                 = [sent |-> cl.sent, got |-> cl.got, mode |-> cl.mode,
                    asksClose |-> a, ahead |-> cl.ahead,
                    timedOut |-> cl.timedOut, misled |-> cl.misled]
    BY <1>0 DEF Clients
  <2> QED BY <1>0, <2>1, ParserRecord, Zenon
<1>2. /\ Typed(kd, s, k, cl, w, u) /\ Lives(s, k) /\ Parsed(k, cl)
      /\ Answered(k.response) /\ Heard(kd, k, w)
      /\ ~cl.ahead /\ ~cl.misled => InStep(s, k, cl)
      /\ kd = "http" /\ ~cl.ahead /\ ~cl.misled /\ ~cl.timedOut =>
            Closes(s, k, cl)
  BY DEF Whole
<1> HIDE DEF new, cl2
<1>3. Typed(kd, s, new, cl2, w, u)
  <2>1. new \in Connections
    BY <1>1, <1>2 DEF Typed, Connections
  <2>2. cl2 \in Clients
    BY <1>1, <1>2 DEF Typed, Clients
  <2> QED BY <1>2, <2>1, <2>2 DEF Typed
<1>4. Lives(s, new)
  BY <1>1, <1>2 DEF Lives
<1>5. Parsed(new, cl2)
  BY <1>1, <1>2 DEF Parsed, Typed, Connections, Clients
<1>6. ~cl2.ahead /\ ~cl2.misled => InStep(s, new, cl2)
  BY <1>1, <1>2 DEF InStep, HasOf
<1>7. kd = "http" /\ ~cl2.ahead /\ ~cl2.misled /\ ~cl2.timedOut =>
            Closes(s, new, cl2)
  BY <1>1, <1>2 DEF Closes, Lives, Parsed, Typed, Connections, Clients
<1>8. Heard(kd, new, w)
  BY <1>1, <1>2 DEF Heard
<1> QED
  <2>1. new.response = k.response /\ new.life = "live"
    BY <1>1
  <2> QED BY <1>2, <1>3, <1>4, <1>5, <1>6, <1>7, <1>8, <2>1 DEF Whole, new, cl2

LEMMA CompletedIsWhole ==
    ASSUME NEW kd, NEW s, NEW k, NEW cl, NEW w, NEW u,
           NEW p \in {"idle", "upgraded"}, NEW head \in BOOLEAN,
           Whole(kd, s, k, cl, w, u), k.life = "live", k.parser = "headers"
    PROVE  /\ [Completed(k, head) EXCEPT !.parser = p]
                = [life |-> "live", timer |-> k.timer, parser |-> p,
                   headers |-> k.headers, count |-> k.count + 1,
                   response |-> Response(k.count + 1, head)]
           /\ Whole(kd, s, [Completed(k, head) EXCEPT !.parser = p], cl, w, u)
<1> DEFINE new == [Completed(k, head) EXCEPT !.parser = p]
<1>1. new = [life |-> "live", timer |-> k.timer, parser |-> p,
             headers |-> k.headers, count |-> k.count + 1,
             response |-> Response(k.count + 1, head)]
  <2>1. k \in Connections
    BY DEF Whole, Typed
  <2>2. Completed(k, head)
          = [life |-> k.life, timer |-> k.timer, parser |-> "idle",
             headers |-> k.headers, count |-> k.count + 1,
             response |-> Response(k.count + 1, head)]
    BY <2>1, CompletedRecord
  <2> HIDE DEF Completed
  <2> QED BY <2>2
<1>2. /\ Response(k.count + 1, head)
            = [of |-> k.count + 1, head |-> head, sent |-> FALSE,
               chunked |-> FALSE, status |-> 200, content |-> FALSE,
               ended |-> FALSE]
      /\ ~w.handshaked
  BY DEF Response, Whole, Heard
<1>3. /\ Typed(kd, s, k, cl, w, u) /\ Lives(s, k) /\ Parsed(k, cl)
      /\ Answered(k.response) /\ Heard(kd, k, w)
      /\ ~cl.ahead /\ ~cl.misled => InStep(s, k, cl)
      /\ kd = "http" /\ ~cl.ahead /\ ~cl.misled /\ ~cl.timedOut =>
            Closes(s, k, cl)
  BY DEF Whole
<1> HIDE DEF new
<1>4. k.count + 1 \in 1..MaxRequests
  BY <1>3, HTTPServerAssumption DEF Parsed, Typed, Connections, Clients
<1>5. Typed(kd, s, new, cl, w, u)
  <2>1. Response(k.count + 1, head) \in Responses
    <3>1. k.count + 1 \in 0..MaxRequests
      BY <1>4
    <3> QED BY <3>1, NewResponse
  <2>2. new \in Connections
    BY <1>1, <1>3, <1>4, <2>1, HTTPServerAssumption DEF Typed, Connections
  <2> QED BY <1>3, <2>2 DEF Typed
<1>6. Lives(s, new) /\ Answered(new.response)
  BY <1>1, <1>2, <1>3 DEF Lives, Answered
<1>7. Parsed(new, cl)
  BY <1>1, <1>3 DEF Parsed, Typed, Connections, Clients
<1>8. ~cl.ahead /\ ~cl.misled => InStep(s, new, cl)
  <2> SUFFICES ASSUME ~cl.ahead, ~cl.misled PROVE InStep(s, new, cl)
    OBVIOUS
  <2>1. InStep(s, k, cl) /\ ~Pending(k.response) /\ k.response.of = k.count
    BY <1>3 DEF InStep, Lives
  <2>2. s = "open" => cl.mode = "idle" /\ cl.got = k.count
    BY <2>1 DEF InStep, HasOf
  <2>3. /\ Pending(new.response) /\ new.response.of - 1 = k.count
        /\ ~new.response.sent /\ ~InChunks(new.response)
        /\ new.parser = p
    BY <1>1, <1>2, <1>3 DEF Pending, InChunks, Typed, Connections
  <2> QED BY <2>1, <2>2, <2>3 DEF InStep, HasOf
<1>9. kd = "http" /\ ~cl.ahead /\ ~cl.misled /\ ~cl.timedOut =>
            Closes(s, new, cl)
  BY <1>1, <1>2, <1>3 DEF Closes
<1>10. Heard(kd, new, w)
  BY <1>1, <1>2, <1>3 DEF Heard
<1> QED
  <2>1. new.life = "live"
    BY <1>1
  <2>2. u \subseteq {"refusal"} \cup IF w.heard = "closed" THEN {"script"} ELSE {}
    BY DEF Whole
  <2> QED BY <1>1, <1>5, <1>6, <1>7, <1>8, <1>9, <1>10, <2>1, <2>2
          DEF Whole, new
-----------------------------------------------------------------------------
(* What a client makes of the parts that a call writes. *)

\* Only what it has received is different.
Same(cl, cl2) ==
    /\ cl2 \in Clients
    /\ cl2.sent = cl.sent /\ cl2.asksClose = cl.asksClose
    /\ cl2.ahead = cl.ahead /\ cl2.timedOut = cl.timedOut
    /\ cl.misled => cl2.misled

LEMMA ReceivesIsSame ==
    ASSUME NEW cl \in Clients, NEW n \in 0..MaxRequests, NEW part
    PROVE  Same(cl, Receives(cl, n, part))
<1> DEFINE next == {m \in {"idle", "body", "chunks"} :
                        n = cl.got + 1 /\ <<cl.mode, part, m>> \in Understood}
           some == CHOOSE m \in next : TRUE
           got2 == IF some = "idle" THEN cl.got + 1 ELSE cl.got
<1>1. CASE next = {}
  <2>1. Receives(cl, n, part) = [cl EXCEPT !.mode = "garbled"]
    BY <1>1, Zenon DEF Receives
  <2>2. [cl EXCEPT !.mode = "garbled"]
            = [sent |-> cl.sent, got |-> cl.got, mode |-> "garbled",
               asksClose |-> cl.asksClose, ahead |-> cl.ahead,
               timedOut |-> cl.timedOut, misled |-> cl.misled]
    BY DEF Clients
  <2> HIDE DEF next
  <2> QED BY <2>1, <2>2 DEF Same, Clients
<1>2. CASE next # {}
  <2>1. some \in next
    BY <1>2, Zenon
  <2>2. some \in {"idle", "body", "chunks"} /\ n = cl.got + 1
    BY <2>1, Zenon
  <2>3. Receives(cl, n, part) = [cl EXCEPT !.mode = some, !.got = got2]
    BY <1>2, Zenon DEF Receives
  <2> HIDE DEF some, next
  <2>4. got2 \in 0..MaxRequests
    BY <2>2 DEF Clients
  <2> HIDE DEF got2
  <2>5. Receives(cl, n, part)
            = [sent |-> cl.sent, got |-> got2, mode |-> some,
               asksClose |-> cl.asksClose, ahead |-> cl.ahead,
               timedOut |-> cl.timedOut, misled |-> cl.misled]
    BY <2>3, AnswerRecord, Zenon
  <2> QED BY <2>2, <2>4, <2>5 DEF Same, Clients
<1> QED BY <1>1, <1>2

LEMMA ReceivesPart ==
    ASSUME NEW cl \in Clients, NEW part, NEW m,
           <<cl.mode, part, m>> \in Understood
    PROVE  /\ Receives(cl, cl.got + 1, part).mode = m
           /\ Receives(cl, cl.got + 1, part).got
                = IF m = "idle" THEN cl.got + 1 ELSE cl.got
<1> DEFINE next == {v \in {"idle", "body", "chunks"} :
                        /\ cl.got + 1 = cl.got + 1
                        /\ <<cl.mode, part, v>> \in Understood}
           some == CHOOSE v \in next : TRUE
           got2 == IF some = "idle" THEN cl.got + 1 ELSE cl.got
<1>1. next = {m}
  BY DEF Understood
<1>2. next # {} /\ some = m
  BY <1>1
<1>3. Receives(cl, cl.got + 1, part) = [cl EXCEPT !.mode = some, !.got = got2]
  BY <1>2, Zenon DEF Receives
<1> HIDE DEF some, next, got2
<1>4. Receives(cl, cl.got + 1, part)
        = [sent |-> cl.sent, got |-> got2, mode |-> some,
           asksClose |-> cl.asksClose, ahead |-> cl.ahead,
           timedOut |-> cl.timedOut, misled |-> cl.misled]
  BY <1>3, AnswerRecord, Zenon
<1> QED BY <1>2, <1>4 DEF got2

\* Nothing, one part, or one part and then another.
LEMMA ReceivesAllParts ==
    ASSUME NEW cl, NEW n, NEW parts
    PROVE  /\ Len(parts) = 0 => ReceivesAll(cl, n, parts) = cl
           /\ Len(parts) = 1 => ReceivesAll(cl, n, parts)
                                    = Receives(cl, n, parts[1])
           /\ Len(parts) = 2 => ReceivesAll(cl, n, parts)
                                    = Receives(Receives(cl, n, parts[1]), n,
                                               parts[2])
<1> DEFINE After(f) ==
                f = [i \in 0..Len(parts) |->
                        IF i = 0 THEN cl ELSE Receives(f[i - 1], n, parts[i])]
           Some == CHOOSE f : After(f)
           one == Receives(cl, n, parts[1])
           two == Receives(one, n, parts[2])
<1>1. ReceivesAll(cl, n, parts) = Some[Len(parts)]
  BY Zenon DEF ReceivesAll
<1>2. ASSUME NEW f, After(f)
      PROVE  After(Some)
  BY <1>2, Zenon
<1> HIDE DEF Some, After, one, two
<1>3. CASE Len(parts) = 0
  <2>1. After([i \in 0..0 |-> cl])
    BY <1>3 DEF After
  <2>2. After(Some)
    BY <2>1, <1>2, Zenon
  <2>3. Some[0] = cl
    BY <2>2, <1>3 DEF After
  <2> QED BY <1>1, <1>3, <2>3
<1>4. CASE Len(parts) = 1
  <2>1. After([i \in 0..1 |-> IF i = 0 THEN cl ELSE one])
    BY <1>4 DEF After, one
  <2>2. After(Some)
    BY <2>1, <1>2, Zenon
  <2>3. Some[0] = cl
    BY <2>2, <1>4 DEF After
  <2>4. Some[1] = one
    BY <2>2, <2>3, <1>4 DEF After, one
  <2> QED BY <1>1, <1>4, <2>4 DEF one
<1>5. CASE Len(parts) = 2
  <2>1. After([i \in 0..2 |-> IF i = 0 THEN cl ELSE IF i = 1 THEN one ELSE two])
    BY <1>5 DEF After, one, two
  <2>2. After(Some)
    BY <2>1, <1>2, Zenon
  <2>3. Some[0] = cl
    BY <2>2, <1>5 DEF After
  <2>4. Some[1] = one
    BY <2>2, <2>3, <1>5 DEF After, one
  <2>5. Some[2] = two
    BY <2>2, <2>4, <1>5 DEF After, two
  <2> QED BY <1>1, <1>5, <2>5 DEF one, two
<1> QED BY <1>3, <1>4, <1>5

-----------------------------------------------------------------------------
(* What the calls of a script leave. *)

LEMMA CallIsWhole ==
    ASSUME NEW s, NEW k, NEW cl, NEW w, NEW u, NEW r2 \in Responses, NEW cl2,
           NEW closes \in BOOLEAN, closes => k.headers = "close",
           Whole("http", s, k, cl, w, u), k.response.of # 0,
           r2.of = k.response.of, k.response.ended => r2.ended,
           r2.ended => \/ k.response.ended
                       \/ closes <=> k.headers = "close",
           closes => r2.ended, Answered(r2), Same(cl, cl2),
           s # "open" => cl2 = cl,
           s = "open" /\ ~cl.ahead /\ ~cl2.misled =>
                HasOf(r2, cl2) /\ ~(k.response.ended /\ closes)
    PROVE  Whole("http", IF closes /\ s = "open" THEN "closing" ELSE s,
                 [k EXCEPT !.response = r2], cl2, w, u)
<1> DEFINE r == k.response
           s2 == IF closes /\ s = "open" THEN "closing" ELSE s
           new == [k EXCEPT !.response = r2]
<1>1. new = [life |-> k.life, timer |-> k.timer, parser |-> k.parser,
             headers |-> k.headers, count |-> k.count, response |-> r2]
  <2>1. k \in Connections
    BY DEF Whole, Typed
  <2> QED BY <2>1 DEF Connections
<1>2. /\ Typed("http", s, k, cl, w, u) /\ Lives(s, k) /\ Parsed(k, cl)
      /\ Heard("http", k, w)
      /\ ~cl.ahead /\ ~cl.misled => InStep(s, k, cl)
      /\ ~cl.ahead /\ ~cl.misled /\ ~cl.timedOut => Closes(s, k, cl)
  BY DEF Whole
<1>3. k.life = "live" /\ s \in {"open", "closing"} /\ r2.of = k.count
  <2>1. k.life \in {"none", "live", "deleted"}
    BY <1>2 DEF Typed, Connections
  <2>2. k.life # "none" /\ k.life # "deleted"
    BY <1>2 DEF Lives, NoCon, NULL, Response
  <2> QED BY <1>2, <2>1, <2>2 DEF Lives
<1> HIDE DEF new
<1>4. s2 \in {"open", "closing"} /\ (s2 = "open" => s = "open")
  BY <1>3
<1>5. Typed("http", s2, new, cl2, w, u)
  <2>1. new \in Connections
    BY <1>1, <1>2 DEF Typed, Connections
  <2> HIDE DEF s2
  <2> QED BY <1>2, <1>4, <2>1 DEF Typed, Same
<1>6. Lives(s2, new) /\ Parsed(new, cl2) /\ Heard("http", new, w)
  <2> HIDE DEF s2
  <2> QED BY <1>1, <1>2, <1>3, <1>4 DEF Lives, Parsed, Heard, Same
<1>7. ~cl2.ahead /\ ~cl2.misled => InStep(s2, new, cl2)
  <2> SUFFICES ASSUME ~cl.ahead, ~cl2.misled PROVE InStep(s2, new, cl2)
    BY DEF Same
  <2>1. InStep(s, k, cl)
    BY <1>2 DEF Same
  <2>2. /\ Pending(r2) => k.parser \in {"idle", "upgraded"}
        /\ cl.mode # "garbled"
    BY <2>1 DEF InStep, Pending
  <2>3. cl2.mode # "garbled"
    <3>1. CASE s = "open"
      BY <3>1 DEF HasOf
    <3>2. CASE s # "open"
      BY <2>2, <3>2
    <3> QED BY <3>1, <3>2
  <2>4. s2 = "open" => HasOf(r2, cl2)
    BY <1>4
  <2> HIDE DEF s2
  <2> QED BY <1>1, <2>2, <2>3, <2>4 DEF InStep
<1>8. ~cl2.ahead /\ ~cl2.misled /\ ~cl2.timedOut => Closes(s2, new, cl2)
  <2> SUFFICES ASSUME ~cl.ahead, ~cl2.misled, ~cl.timedOut
               PROVE  Closes(s2, new, cl2)
    BY DEF Same
  <2>1. InStep(s, k, cl) /\ Closes(s, k, cl)
    BY <1>2 DEF Same
  <2>2. /\ cl2.asksClose <=> k.headers = "close"
        /\ cl2.sent = cl.sent /\ cl2.asksClose = cl.asksClose
    BY <1>2 DEF Parsed, Same
  <2>3. ~r.ended => cl2.sent = k.count
    <3>1. ~r.ended => k.parser \in {"idle", "upgraded"}
      BY <2>1 DEF InStep, Pending
    <3> QED BY <1>2, <2>2, <3>1 DEF Parsed, Typed, Connections
  <2>4. s2 = "closing" => cl2.asksClose /\ cl2.got = cl2.sent
    <3>1. CASE s = "open"
      <4>1. s2 = "closing" => closes /\ r2.ended /\ ~r.ended /\ cl2.asksClose
        BY <3>1, <2>2
      <4>2. r2.ended => cl2.got = k.count
        BY <1>3, <3>1 DEF HasOf, Pending
      <4> QED BY <4>1, <4>2, <2>3
    <3>2. CASE s = "closing"
      BY <3>2, <2>1 DEF Closes
    <3> QED BY <1>3, <3>1, <3>2
  <2>5. r2.ended /\ r2.of = cl2.sent /\ cl2.asksClose => s2 # "open"
    <3>1. CASE r.ended
      <4>1. r.of = cl.sent /\ cl.asksClose => s # "open"
        BY <2>1, <3>1 DEF Closes
      <4> QED BY <4>1, <2>2, <1>4
    <3>2. CASE ~r.ended
      BY <3>2, <2>2
    <3> QED BY <3>1, <3>2
  <2> HIDE DEF s2
  <2> QED BY <1>1, <2>4, <2>5 DEF Closes
<1>9. /\ u \subseteq {"refusal"} \cup
                    IF w.heard = "closed" THEN {"script"} ELSE {}
      /\ new.response = r2 /\ new.life = "live"
  BY <1>1, <1>3 DEF Whole
<1> QED BY <1>5, <1>6, <1>7, <1>8, <1>9 DEF Whole, new
-----------------------------------------------------------------------------
(* What the timeout, the handshake and the end leave. *)

LEMMA TimeoutIsWhole ==
    ASSUME NEW k, NEW cl, NEW w, NEW u, Whole("http", "open", k, cl, w, u)
    PROVE  Whole("http", "closing", k, [cl EXCEPT !.timedOut = TRUE], w, u)
<1> DEFINE cl2 == [cl EXCEPT !.timedOut = TRUE]
<1>1. cl2 = [sent |-> cl.sent, got |-> cl.got, mode |-> cl.mode,
             asksClose |-> cl.asksClose, ahead |-> cl.ahead,
             timedOut |-> TRUE, misled |-> cl.misled]
  <2>1. cl \in Clients
    BY DEF Whole, Typed
  <2>2. \A t : [cl EXCEPT !.timedOut = t]
            = [sent |-> cl.sent, got |-> cl.got, mode |-> cl.mode,
               asksClose |-> cl.asksClose, ahead |-> cl.ahead,
               timedOut |-> t, misled |-> cl.misled]
    BY <2>1 DEF Clients
  <2> QED BY <2>2, Zenon
<1> HIDE DEF cl2
<1>2. Typed("http", "closing", k, cl2, w, u)
  <2>1. Typed("http", "open", k, cl, w, u)
    BY DEF Whole
  <2>2. cl2 \in Clients
    BY <1>1, <2>1 DEF Typed, Clients
  <2> QED BY <2>1, <2>2 DEF Typed
<1>3. Lives("closing", k) /\ k.life = "live"
  BY DEF Whole, Lives
<1>4. /\ Parsed(k, cl2)
      /\ ~cl2.ahead /\ ~cl2.misled => InStep("closing", k, cl2)
  BY <1>1 DEF Whole, Parsed, InStep
<1> QED BY <1>1, <1>2, <1>3, <1>4 DEF Whole, cl2

LEMMA HandshakeIsWhole ==
    ASSUME NEW s, NEW k, NEW cl, NEW w, NEW u,
           Whole("websocket", s, k, cl, w, u), k.life = "live",
           k.parser = "upgraded", ~w.handshaked
    PROVE  Whole("websocket", s, k, cl,
                 [handshaked |-> TRUE, ping |-> TRUE, rooted |-> TRUE,
                  heard |-> Hears(w.heard, "open")], u)
<1> DEFINE w2 == [handshaked |-> TRUE, ping |-> TRUE, rooted |-> TRUE,
                  heard |-> Hears(w.heard, "open")]
<1>1. w.heard = "nothing"
  BY DEF Whole, Heard
<1>2. Hears(w.heard, "open") = "open"
  BY <1>1 DEF Hears
<1>3. w2 \in WebSockets /\ Heard("websocket", k, w2)
  BY <1>2 DEF WebSockets, Heard
<1>4. w2.heard = "open"
  BY <1>2
<1> HIDE DEF w2
<1>5. Typed("websocket", s, k, cl, w2, u)
  BY <1>3 DEF Whole, Typed
<1> QED BY <1>1, <1>3, <1>4, <1>5 DEF Whole, w2

LEMMA DeletedRecord ==
    ASSUME NEW k \in Connections
    PROVE  Deleted(k)
             = [life |-> "deleted", timer |-> FALSE, parser |-> k.parser,
                headers |-> k.headers, count |-> k.count, response |-> NULL]
  BY EndRecord, Zenon DEF Deleted

LEMMA DeletedIsWhole ==
    ASSUME NEW kd, NEW s, NEW k, NEW cl, NEW w, NEW u,
           Whole(kd, s, k, cl, w, u), k.life = "live"
    PROVE  Whole(kd, "closed", Deleted(k), cl, Disconnected(w), u)
<1> DEFINE new == Deleted(k)
           w2 == Disconnected(w)
<1>1. new = [life |-> "deleted", timer |-> FALSE, parser |-> k.parser,
             headers |-> k.headers, count |-> k.count, response |-> NULL]
  <2>1. k \in Connections
    BY DEF Whole, Typed
  <2> QED BY <2>1, DeletedRecord
<1>2. /\ NULL = [of |-> 0, head |-> FALSE, sent |-> FALSE, chunked |-> FALSE,
                 status |-> 200, content |-> FALSE, ended |-> FALSE]
      /\ ~Pending(NULL)
  BY DEF NULL, Response, Pending
<1>3. /\ Typed(kd, s, k, cl, w, u) /\ Lives(s, k) /\ Parsed(k, cl)
      /\ Heard(kd, k, w)
      /\ ~cl.ahead /\ ~cl.misled => InStep(s, k, cl)
  BY DEF Whole
<1>4. w.handshaked => w.heard = "open"
  BY <1>3 DEF Heard
<1>5. /\ w2 \in WebSockets /\ w2.handshaked = w.handshaked
      /\ w2.heard = IF w.handshaked THEN "closed" ELSE "nothing"
      /\ ~w2.rooted /\ ~w2.ping
  <2>1. CASE ~w.handshaked
    <3>1. w2 = w
      BY <2>1 DEF Disconnected
    <3> HIDE DEF w2
    <3> QED BY <2>1, <3>1, <1>3 DEF Heard, Typed
  <2>2. CASE w.handshaked
    <3>1. Hears(w.heard, "close") = "closed"
      BY <1>4, <2>2 DEF Hears
    <3>2. \A p, r, h : [w EXCEPT !.ping = p, !.rooted = r, !.heard = h]
            = [handshaked |-> w.handshaked, ping |-> p, rooted |-> r,
               heard |-> h]
      <4>1. w \in WebSockets
        BY <1>3 DEF Typed
      <4> QED BY <4>1, ObjectRecord, Zenon
    <3>3. w2 = [handshaked |-> w.handshaked, ping |-> FALSE, rooted |-> FALSE,
                heard |-> Hears(w.heard, "close")]
      BY <2>2, <3>2, Zenon DEF Disconnected
    <3> HIDE DEF w2
    <3> QED BY <2>2, <3>1, <3>3, <1>3 DEF Typed, WebSockets
  <2>3. w.handshaked \in BOOLEAN
    BY <1>3 DEF Typed, WebSockets
  <2> HIDE DEF w2
  <2> QED BY <2>1, <2>2, <2>3
<1> HIDE DEF new, w2
<1>6. Typed(kd, "closed", new, cl, w2, u)
  <2>1. NULL \in Responses
    BY NoResponse
  <2>2. new \in Connections
    BY <1>1, <1>3, <2>1 DEF Typed, Connections
  <2> QED BY <1>3, <1>5, <2>2 DEF Typed
<1>7. Lives("closed", new) /\ Answered(new.response)
  BY <1>1, <1>2 DEF Lives, Answered, Response, Pending
<1>8. Parsed(new, cl) /\ Closes("closed", new, cl)
  BY <1>1, <1>2, <1>3 DEF Parsed, Closes
<1>9. ~cl.ahead /\ ~cl.misled => InStep("closed", new, cl)
  BY <1>1, <1>2, <1>3 DEF InStep
<1>10. Heard(kd, new, w2)
  BY <1>1, <1>3, <1>5 DEF Heard
<1>11. u \subseteq {"refusal"} \cup IF w2.heard = "closed" THEN {"script"} ELSE {}
  <2>1. u \subseteq {"refusal"}
    BY <1>3, <1>4 DEF Whole, Heard
  <2> QED BY <2>1
<1>12. new.life = "deleted"
  BY <1>1
<1> QED BY <1>6, <1>7, <1>8, <1>9, <1>10, <1>11, <1>12 DEF Whole, new, w2

\* A connection that is refused, or used by a script after its end.
LEMMA UsedIsWhole ==
    ASSUME NEW kd, NEW s, NEW k, NEW cl, NEW w, NEW u, NEW user,
           Whole(kd, s, k, cl, w, u), k.life # "none",
           \/ user = "refusal"
           \/ user = "script" /\ w.heard = "closed"
    PROVE  Whole(kd, s, k, cl, w, u \cup {user})
<1>1. Typed(kd, s, k, cl, w, u \cup {user})
  BY DEF Whole, Typed, Users
<1> QED BY <1>1 DEF Whole

LEMMA CloseIsWhole ==
    ASSUME NEW k, NEW cl, NEW w, NEW u,
           Whole("websocket", "open", k, cl, w, u)
    PROVE  Whole("websocket", "closing", k, cl, w, u)
  BY DEF Whole, Typed, Lives, InStep
-----------------------------------------------------------------------------
(* The steps *)

\* A step that leaves every connection but c as it is.
OnlyAt(c) ==
    /\ kind' = kind /\ Functions'
    /\ \A d \in Con \ {c} :
            /\ sock'[d] = sock[d] /\ con'[d] = con[d]
            /\ client'[d] = client[d] /\ ws'[d] = ws[d] /\ used'[d] = used[d]

LEMMA AtOne ==
    ASSUME IInv, NEW c \in Con, OnlyAt(c),
           Whole(kind[c], sock'[c], con'[c], client'[c], ws'[c], used'[c])
    PROVE  IInv'
<1>1. ASSUME NEW d \in Con, d # c
      PROVE  WholeAt(d)'
  <2>1. WholeAt(d)
    BY DEF IInv
  <2>2. /\ kind'[d] = kind[d] /\ sock'[d] = sock[d] /\ con'[d] = con[d]
        /\ client'[d] = client[d] /\ ws'[d] = ws[d] /\ used'[d] = used[d]
    BY <1>1 DEF OnlyAt
  <2> QED BY <2>1, <2>2 DEF WholeAt
<1>2. WholeAt(c)'
  BY DEF WholeAt, OnlyAt
<1> QED BY <1>1, <1>2 DEF IInv, OnlyAt

LEMMA TypedAt ==
    ASSUME IInv, NEW c \in Con
    PROVE  /\ Whole(kind[c], sock[c], con[c], client[c], ws[c], used[c])
           /\ Typed(kind[c], sock[c], con[c], client[c], ws[c], used[c])
           /\ Lives(sock[c], con[c]) /\ Heard(kind[c], con[c], ws[c])
  BY DEF IInv, WholeAt, Whole

LEMMA AcceptKeeps ==
    ASSUME IInv, NEW c \in Con, Accept(c), UNCHANGED ws PROVE IInv'
<1>1. OnlyAt(c)
  BY DEF IInv, Functions, Accept, OnlyAt
<1>2. /\ sock[c] = "none" /\ sock'[c] = "open"
      /\ con'[c] = [NoCon EXCEPT !.life = "live", !.timer = TRUE]
      /\ client'[c] = client[c] /\ ws'[c] = ws[c] /\ used'[c] = used[c]
  BY DEF IInv, Functions, Accept
<1>3. Whole(kind[c], "open", con'[c], client[c], ws[c], used[c])
  BY <1>2, TypedAt, AcceptIsWhole
<1> QED BY <1>1, <1>2, <1>3, AtOne

LEMMA MessageBeginKeeps ==
    ASSUME IInv, NEW c \in Con, MessageBegin(c), UNCHANGED ws PROVE IInv'
<1> DEFINE k == con[c]
           cl == client[c]
           k2 == [k EXCEPT !.parser = "begun", !.headers = "none"]
           cl2 == [cl EXCEPT !.sent = @ + 1, !.ahead = @ \/ Pending(k.response)]
<1>1. con' = [con EXCEPT ![c] = k2] /\ client' = [client EXCEPT ![c] = cl2]
  BY Zenon DEF MessageBegin
<1>2. Whole(kind[c], sock[c], k2, cl2, ws[c], used[c])
  <2>1. /\ k.life = "live" /\ k.parser = "idle" /\ cl.sent < MaxRequests
        /\ ~cl.asksClose
    BY DEF MessageBegin, Readable
  <2> QED BY <2>1, TypedAt, MessageBeginIsWhole
<1> HIDE DEF k2, cl2
<1>3. OnlyAt(c)
  BY <1>1 DEF IInv, Functions, MessageBegin, OnlyAt
<1>4. /\ sock'[c] = sock[c] /\ con'[c] = k2 /\ client'[c] = cl2
      /\ ws'[c] = ws[c] /\ used'[c] = used[c]
  BY <1>1 DEF IInv, Functions, MessageBegin
<1> QED BY <1>2, <1>3, <1>4, AtOne

LEMMA HeadersKeep ==
    ASSUME IInv, NEW c \in Con, NEW connection \in {"keep", "close"},
           Headers(c, connection), UNCHANGED ws
    PROVE  IInv'
<1> DEFINE k == con[c]
           cl == client[c]
           k2 == [k EXCEPT !.parser = "headers", !.headers = connection]
           cl2 == [cl EXCEPT !.asksClose = (connection = "close")]
<1>1. con' = [con EXCEPT ![c] = k2] /\ client' = [client EXCEPT ![c] = cl2]
  BY Zenon DEF Headers
<1>2. Whole(kind[c], sock[c], k2, cl2, ws[c], used[c])
  <2>1. k.life = "live" /\ k.parser = "begun"
    BY DEF Headers, Readable
  <2>2. Whole(kind[c], sock[c], k, cl, ws[c], used[c])
    BY TypedAt
  <2> HIDE DEF k, cl
  <2> QED BY <2>1, <2>2, HeadersAreWhole, Zenon
<1> HIDE DEF k2, cl2
<1>3. OnlyAt(c)
  BY <1>1 DEF IInv, Functions, Headers, OnlyAt
<1>4. /\ sock'[c] = sock[c] /\ con'[c] = k2 /\ client'[c] = cl2
      /\ ws'[c] = ws[c] /\ used'[c] = used[c]
  BY <1>1 DEF IInv, Functions, Headers
<1> QED BY <1>2, <1>3, <1>4, AtOne

LEMMA MessageCompleteKeeps ==
    ASSUME IInv, NEW c \in Con, NEW head \in BOOLEAN,
           MessageComplete(c, head) \/ MessageUpgraded(c, head), UNCHANGED ws
    PROVE  IInv'
<1>1. PICK p \in {"idle", "upgraded"} :
            con' = [con EXCEPT
                     ![c] = [Completed(con[c], head) EXCEPT !.parser = p]]
  <2>1. CASE MessageComplete(c, head)
    <3>1. con[c] \in Connections
      BY TypedAt DEF Typed
    <3>2. Completed(con[c], head)
            = [life |-> con[c].life, timer |-> con[c].timer, parser |-> "idle",
               headers |-> con[c].headers, count |-> con[c].count + 1,
               response |-> Response(con[c].count + 1, head)]
      BY <3>1, CompletedRecord
    <3> HIDE DEF Completed
    <3>3. [Completed(con[c], head) EXCEPT !.parser = "idle"]
            = Completed(con[c], head)
      BY <3>2
    <3> QED BY <2>1, <3>3, Zenon DEF MessageComplete
  <2>2. CASE MessageUpgraded(c, head)
    BY <2>2, Zenon DEF MessageUpgraded
  <2> QED BY <2>1, <2>2
<1> DEFINE k2 == [Completed(con[c], head) EXCEPT !.parser = p]
<1>2. Whole(kind[c], sock[c], k2, client[c], ws[c], used[c])
  <2>1. con[c].life = "live" /\ con[c].parser = "headers"
    BY DEF MessageComplete, MessageUpgraded, Readable
  <2> QED BY <2>1, TypedAt, CompletedIsWhole
<1>3. con' = [con EXCEPT ![c] = k2]
  BY <1>1
<1>4. UNCHANGED <<kind, sock, client, used>>
  BY DEF MessageComplete, MessageUpgraded
<1> HIDE DEF k2
<1>5. OnlyAt(c)
  BY <1>3, <1>4 DEF IInv, Functions, OnlyAt
<1>6. /\ sock'[c] = sock[c] /\ con'[c] = k2 /\ client'[c] = client[c]
      /\ ws'[c] = ws[c] /\ used'[c] = used[c]
  BY <1>3, <1>4 DEF IInv, Functions
<1> QED BY <1>2, <1>5, <1>6, AtOne

LEMMA CheckTimeoutKeeps ==
    ASSUME IInv, NEW c \in Con, CheckTimeout(c), UNCHANGED ws PROVE IInv'
<1> DEFINE cl2 == [client[c] EXCEPT !.timedOut = TRUE]
<1>1. con[c].life = "live" /\ kind[c] = "http"
  BY TypedAt DEF CheckTimeout, Lives
<1>2. /\ sock[c] = "open" /\ sock' = [sock EXCEPT ![c] = "closing"]
      /\ client' = [client EXCEPT ![c] = cl2]
      /\ UNCHANGED <<kind, con, used>>
  BY <1>1, Zenon DEF CheckTimeout
<1>3. Whole(kind[c], "closing", con[c], cl2, ws[c], used[c])
  BY <1>1, <1>2, TypedAt, TimeoutIsWhole
<1> HIDE DEF cl2
<1>4. OnlyAt(c)
  BY <1>2 DEF IInv, Functions, OnlyAt
<1>5. /\ sock'[c] = "closing" /\ con'[c] = con[c] /\ client'[c] = cl2
      /\ ws'[c] = ws[c] /\ used'[c] = used[c]
  BY <1>2 DEF IInv, Functions
<1> QED BY <1>3, <1>4, <1>5, AtOne

LEMMA DisconnectKeeps ==
    ASSUME IInv, NEW c \in Con,
           (Disconnect(c) /\ UNCHANGED ws) \/ WSDisconnect(c)
    PROVE  IInv'
<1> DEFINE k2 == Deleted(con[c])
           w2 == Disconnected(ws[c])
<1>1. con[c].life = "live"
  BY TypedAt DEF Disconnect, WSDisconnect, Lives
<1>2. /\ sock' = [sock EXCEPT ![c] = "closed"]
      /\ con' = [con EXCEPT ![c] = k2]
      /\ UNCHANGED <<kind, client, used>>
  BY Zenon DEF Disconnect, WSDisconnect
<1>3. ws' = [ws EXCEPT ![c] = w2]
  <2>1. CASE Disconnect(c) /\ UNCHANGED ws
    <3>1. ~ws[c].handshaked
      BY <2>1, TypedAt DEF Disconnect, Heard
    <3>2. w2 = ws[c]
      BY <3>1 DEF Disconnected
    <3> HIDE DEF w2
    <3> QED BY <2>1, <3>2 DEF IInv, Functions
  <2>2. CASE WSDisconnect(c)
    BY <2>2, Zenon DEF WSDisconnect
  <2> QED BY <2>1, <2>2
<1>4. Whole(kind[c], "closed", k2, client[c], w2, used[c])
  BY <1>1, TypedAt, DeletedIsWhole
<1> HIDE DEF k2, w2
<1>5. OnlyAt(c)
  BY <1>2, <1>3 DEF IInv, Functions, OnlyAt
<1>6. /\ sock'[c] = "closed" /\ con'[c] = k2 /\ client'[c] = client[c]
      /\ ws'[c] = w2 /\ used'[c] = used[c]
  BY <1>2, <1>3 DEF IInv, Functions
<1> QED BY <1>4, <1>5, <1>6, AtOne

LEMMA AnsweringIsInStep ==
    ASSUME IInv, NEW c \in Con, Answering(c)
    PROVE  /\ kind[c] = "http" /\ con[c].life = "live"
           /\ con[c].response \in Responses
           /\ con[c].response.of \in 1..MaxRequests
           /\ Answered(con[c].response) /\ client[c] \in Clients
           /\ ~client[c].ahead /\ ~client[c].misled /\ sock[c] = "open" =>
                    HasOf(con[c].response, client[c])
<1>1. kind[c] = "http" /\ con[c].response.of # 0
  BY DEF Answering
<1>2. con[c] \in Connections /\ client[c] \in Clients
  BY TypedAt DEF Typed
<1>3. con[c].life \in {"none", "live", "deleted"} /\ con[c].response \in Responses
  BY <1>2 DEF Connections
<1>4. con[c].life # "none" /\ con[c].life # "deleted"
  BY <1>1, TypedAt DEF Lives, NoCon, NULL, Response
<1>5. con[c].response.of \in 1..MaxRequests
  BY <1>1, <1>3, HTTPServerAssumption DEF Responses
<1>6. /\ Answered(con[c].response)
      /\ ~client[c].ahead /\ ~client[c].misled =>
            InStep(sock[c], con[c], client[c])
  BY TypedAt DEF Whole
<1> QED BY <1>1, <1>2, <1>3, <1>4, <1>5, <1>6 DEF InStep

LEMMA PartsAreSame ==
    ASSUME NEW cl \in Clients, NEW n \in 0..MaxRequests, NEW parts,
           Len(parts) \in 0..2
    PROVE  Same(cl, ReceivesAll(cl, n, parts))
<1>1. Same(cl, cl)
  BY DEF Same
<1>2. Same(cl, Receives(cl, n, parts[1]))
  BY ReceivesIsSame
<1>3. Same(cl, Receives(Receives(cl, n, parts[1]), n, parts[2]))
  <2>1. Receives(cl, n, parts[1]) \in Clients
    BY <1>2 DEF Same
  <2>2. Same(Receives(cl, n, parts[1]),
             Receives(Receives(cl, n, parts[1]), n, parts[2]))
    BY <2>1, ReceivesIsSame
  <2> QED BY <1>2, <2>2 DEF Same
<1> QED BY <1>1, <1>2, <1>3, ReceivesAllParts

\* Nothing but a head is written of an answer that has no body.
Clean(r, parts) == Bodiless(r) => parts = <<>> \/ parts = <<"empty">>

\* What a call leaves fits: the client has of the answer what the response has
\* come to, if the answer had not ended before.
Fits(c, r2, parts, ends) ==
    /\ r2 \in Responses /\ Answered(r2) /\ r2.of = con[c].response.of
    /\ r2.ended <=> con[c].response.ended \/ ends
    /\ Len(parts) \in 0..2
    /\ (/\ ~client[c].ahead /\ ~client[c].misled /\ sock[c] = "open"
        /\ ~con[c].response.ended /\ Clean(r2, parts))
            => HasOf(r2, ReceivesAll(client[c], r2.of, parts))

LEMMA CallsKeep ==
    ASSUME IInv, NEW c \in Con, NEW r2, NEW parts, NEW ends \in BOOLEAN,
           Answering(c), Calls(c, r2, parts, ends), UNCHANGED ws,
           Fits(c, r2, parts, ends)
    PROVE  IInv'
<1> DEFINE r == con[c].response
           cl == client[c]
           closes == ends /\ ShouldClose(c)
           wrong == Misleads(r, r2, parts, closes)
           all == ReceivesAll(cl, r2.of, parts)
           k2 == [con[c] EXCEPT !.response = r2]
           cl2 == Written(c, r2.of, parts, wrong)
           s2 == IF closes /\ sock[c] = "open" THEN "closing" ELSE sock[c]
<1>1. /\ kind[c] = "http" /\ con[c].life = "live" /\ r.of # 0 /\ r \in Responses
      /\ cl \in Clients
      /\ ~cl.ahead /\ ~cl.misled /\ sock[c] = "open" => HasOf(r, cl)
  BY AnsweringIsInStep
<1>2. /\ con' = [con EXCEPT ![c] = k2]
      /\ client' = [client EXCEPT ![c] = cl2]
      /\ sock' = [sock EXCEPT ![c] = s2]
      /\ UNCHANGED <<kind, used>>
  BY <1>1, Zenon DEF Calls
<1>3. /\ closes \in BOOLEAN /\ wrong \in BOOLEAN
      /\ closes => con[c].headers = "close"
      /\ ends => (closes <=> con[c].headers = "close")
  BY DEF ShouldClose, Misleads
<1>0. /\ r2 \in Responses /\ Answered(r2) /\ r2.of = r.of
      /\ r2.ended <=> r.ended \/ ends
      /\ Len(parts) \in 0..2
      /\ (/\ ~cl.ahead /\ ~cl.misled /\ sock[c] = "open"
          /\ ~r.ended /\ Clean(r2, parts))
              => HasOf(r2, all)
  BY DEF Fits
<1>4. Same(cl, all)
  BY <1>0, <1>1, PartsAreSame DEF Responses
<1>5. /\ ~wrong => Clean(r2, parts)
      /\ ~wrong /\ r.ended => parts = <<>> /\ ~closes
  BY DEF Misleads, Clean
<1>6. sock[c] # "open" => cl2 = cl
  BY DEF Written
<1> HIDE DEF wrong, closes
<1>7. /\ Same(cl, cl2)
      /\ sock[c] = "open" /\ ~cl2.misled =>
            ~wrong /\ cl2.mode = all.mode /\ cl2.got = all.got
  <2>1. CASE sock[c] # "open"
    <3>1. Same(cl, cl)
      BY <1>1 DEF Same
    <3> HIDE DEF cl2
    <3> QED BY <1>6, <2>1, <3>1
  <2>2. CASE sock[c] = "open"
    <3> DEFINE both == all.misled \/ wrong
    <3>1. both \in BOOLEAN
      BY <1>3, <1>4 DEF Same, Clients
    <3>2. cl2 = [all EXCEPT !.misled = both]
      BY <2>2, Zenon DEF Written
    <3>3. (cl.misled => both) /\ (wrong => both)
      BY <1>4 DEF Same
    <3> HIDE DEF cl2, all, both
    <3>4. cl2 = [sent |-> all.sent, got |-> all.got, mode |-> all.mode,
                 asksClose |-> all.asksClose, ahead |-> all.ahead,
                 timedOut |-> all.timedOut, misled |-> both]
      BY <1>4, <3>2 DEF Same, Clients
    <3> QED BY <1>4, <2>2, <3>1, <3>3, <3>4 DEF Same, Clients
  <2> QED BY <2>1, <2>2
<1>8. sock[c] = "open" /\ ~cl.ahead /\ ~cl2.misled =>
            HasOf(r2, cl2) /\ ~(r.ended /\ closes)
  <2> SUFFICES ASSUME sock[c] = "open", ~cl.ahead, ~cl2.misled
               PROVE  HasOf(r2, cl2) /\ ~(r.ended /\ closes)
    OBVIOUS
  <2>1. ~cl.misled /\ ~wrong
    BY <1>7 DEF Same
  <2>2. HasOf(r2, all)
    <3>1. CASE ~r.ended
      BY <1>0, <1>5, <2>1, <3>1
    <3>2. CASE r.ended
      <4>1. all = cl
        BY <1>5, <2>1, <3>2, ReceivesAllParts
      <4>2. HasOf(r, cl) /\ ~Pending(r) /\ ~Pending(r2)
        BY <1>0, <1>1, <2>1, <3>2 DEF Pending
      <4> HIDE DEF all
      <4> QED BY <1>0, <4>1, <4>2 DEF HasOf
    <3> QED BY <3>1, <3>2
  <2>3. HasOf(r2, cl2)
    <3> HIDE DEF cl2, all
    <3> QED BY <1>7, <2>2 DEF HasOf
  <2> QED BY <1>5, <2>1, <2>3
<1> HIDE DEF cl2
<1>9. Whole("http", s2, k2, cl2, ws[c], used[c])
  <2>1. Whole("http", sock[c], con[c], client[c], ws[c], used[c])
    BY <1>1, TypedAt
  <2>2. /\ r.ended => r2.ended
        /\ closes => r2.ended
        /\ r2.ended => r.ended \/ (closes <=> con[c].headers = "close")
    BY <1>0, <1>3 DEF closes
  <2> QED BY <1>0, <1>1, <1>3, <1>6, <1>7, <1>8, <2>1, <2>2, CallIsWhole
<1> HIDE DEF k2, s2
<1>10. OnlyAt(c)
  BY <1>2 DEF IInv, Functions, OnlyAt
<1>11. /\ sock'[c] = s2 /\ con'[c] = k2 /\ client'[c] = cl2
       /\ ws'[c] = ws[c] /\ used'[c] = used[c]
  BY <1>2 DEF IInv, Functions
<1> QED BY <1>1, <1>9, <1>10, <1>11, AtOne

\* A response by its fields.
Is(r, of, head, sent, chunked, status, content, done) ==
    /\ r \in Responses
    /\ r.of = of /\ (r.head <=> head) /\ (r.sent <=> sent)
    /\ (r.chunked <=> chunked) /\ r.status = status
    /\ (r.content <=> content) /\ (r.ended <=> done)

LEMMA SendHeadersIs ==
    ASSUME NEW r \in Responses, NEW b \in BOOLEAN
    PROVE  Is(SendHeaders(r, b), r.of, r.head, TRUE,
              IF r.sent THEN r.chunked ELSE r.status # 204 /\ (r.chunked \/ b),
              r.status, r.content, r.ended)
<1> DEFINE ch == r.status # 204 /\ (r.chunked \/ b)
<1>1. CASE r.sent
  <2>1. SendHeaders(r, b) = r
    BY <1>1 DEF SendHeaders
  <2> QED BY <1>1, <2>1 DEF Is
<1>2. CASE ~r.sent
  <2>1. SendHeaders(r, b) = [r EXCEPT !.sent = TRUE, !.chunked = ch]
    BY <1>2, Zenon DEF SendHeaders
  <2>2. ch \in BOOLEAN
    OBVIOUS
  <2> HIDE DEF ch
  <2>3. SendHeaders(r, b)
          = [of |-> r.of, head |-> r.head, sent |-> TRUE, chunked |-> ch,
             status |-> r.status, content |-> r.content, ended |-> r.ended]
    BY <2>1, HeadRecord, Zenon
  <2>4. Is(SendHeaders(r, b), r.of, r.head, TRUE, ch, r.status, r.content,
           r.ended)
    BY <2>2, <2>3 DEF Is, Responses
  <2> QED BY <1>2, <2>4 DEF ch, Is
<1> QED BY <1>1, <1>2

\* What the client has of an answer after its head: all of it, or the chunks are
\* to come.
LEMMA HeadIsReceived ==
    ASSUME NEW cl \in Clients, NEW r, cl.mode = "idle", cl.got + 1 = r.of,
           r.sent, NEW head,
           head = IF InChunks(r) THEN "chunked" ELSE "empty"
    PROVE  /\ Receives(cl, cl.got + 1, head).mode
                = IF InChunks(r) THEN "chunks" ELSE "idle"
           /\ Receives(cl, cl.got + 1, head).got
                = IF InChunks(r) THEN r.of - 1 ELSE r.of
<1> DEFINE m == IF InChunks(r) THEN "chunks" ELSE "idle"
<1>1. <<cl.mode, head, m>> \in Understood
  BY DEF Understood
<1> HIDE DEF m
<1>2. /\ Receives(cl, cl.got + 1, head).mode = m
      /\ Receives(cl, cl.got + 1, head).got
            = IF m = "idle" THEN cl.got + 1 ELSE cl.got
  BY <1>1, ReceivesPart
<1>3. cl.got = r.of - 1
  BY DEF Clients
<1> QED BY <1>2, <1>3 DEF m

LEMMA WriteHeadKeeps ==
    ASSUME IInv, NEW c \in Con, NEW status \in Statuses,
           WriteHead(c, status), UNCHANGED ws
    PROVE  IInv'
<1> DEFINE r == con[c].response
           cl == client[c]
           r1 == [r EXCEPT !.status = status]
           r2 == SendHeaders(r1, TRUE)
           parts == HeadPart(r, r2, Announced(r2))
           got2 == ReceivesAll(cl, r2.of, parts)
<1>1. /\ r \in Responses /\ Answered(r) /\ r.of \in 1..MaxRequests
      /\ cl \in Clients
      /\ ~cl.ahead /\ ~cl.misled /\ sock[c] = "open" => HasOf(r, cl)
  BY AnsweringIsInStep DEF WriteHead
<1>2. CASE r.sent
  <2>1. UNCHANGED <<serverVars, ws>>
    BY <1>2 DEF WriteHead
  <2> QED BY <2>1 DEF IInv, Functions, WholeAt, serverVars
<1>3. CASE ~r.sent
  <2>1. ~r.chunked /\ ~r.content /\ ~r.ended
    BY <1>1, <1>3 DEF Answered, Response
  <2>2. Is(r2, r.of, r.head, TRUE, status # 204, status, FALSE, FALSE)
    <3>1. r1 = [of |-> r.of, head |-> r.head, sent |-> r.sent,
                chunked |-> r.chunked, status |-> status,
                content |-> r.content, ended |-> r.ended]
      BY <1>1 DEF Responses
    <3> HIDE DEF r1
    <3>2. r1 \in Responses
      BY <1>1, <3>1 DEF Responses
    <3>3. Is(r2, r1.of, r1.head, TRUE,
             IF r1.sent THEN r1.chunked ELSE r1.status # 204 /\ (r1.chunked \/ TRUE),
             r1.status, r1.content, r1.ended)
      BY <3>2, SendHeadersIs
    <3> HIDE DEF r2
    <3> QED BY <1>3, <2>1, <3>1, <3>3 DEF Is
  <2>3. Calls(c, r2, parts, FALSE) /\ Answering(c)
    BY <1>3, Zenon DEF WriteHead
  <2> HIDE DEF r2
  <2>4. /\ r2 \in Responses /\ Answered(r2) /\ r2.of = r.of /\ r2.sent
        /\ ~r2.ended /\ Pending(r2)
    BY <1>1, <2>2 DEF Is, Answered, Pending, Bodiless, Statuses
  <2>5. /\ Len(parts) = 1
        /\ parts[1] = IF InChunks(r2) THEN "chunked" ELSE "empty"
    BY <1>3, <2>2 DEF HeadPart, Announced, InChunks
  <2> HIDE DEF parts
  <2>6. ASSUME ~cl.ahead, ~cl.misled, sock[c] = "open" PROVE HasOf(r2, got2)
    <3> HIDE DEF r, cl
    <3>1. cl.mode = "idle" /\ cl.got + 1 = r.of
      BY <1>1, <1>3, <2>1, <2>6 DEF HasOf, Pending, InChunks, Clients
    <3>2. got2 = Receives(cl, cl.got + 1, parts[1])
      BY <2>4, <2>5, <3>1, ReceivesAllParts
    <3> HIDE DEF got2
    <3>3. /\ got2.mode = IF InChunks(r2) THEN "chunks" ELSE "idle"
          /\ got2.got = IF InChunks(r2) THEN r2.of - 1 ELSE r2.of
      BY <1>1, <2>4, <2>5, <3>1, <3>2, HeadIsReceived
    <3> QED BY <2>4, <3>3 DEF HasOf
  <2>7. (r2.ended <=> r.ended \/ FALSE) /\ Len(parts) \in 0..2
    BY <2>1, <2>4, <2>5
  <2>8. Fits(c, r2, parts, FALSE)
    BY <2>4, <2>6, <2>7 DEF Fits
  <2> QED BY <2>3, <2>8, CallsKeep
<1> QED BY <1>2, <1>3

LEMMA WriteKeeps ==
    ASSUME IInv, NEW c \in Con, Write(c), UNCHANGED ws
    PROVE  IInv'
<1> DEFINE r == con[c].response
           cl == client[c]
           r1 == [r EXCEPT !.chunked = TRUE]
           r2 == SendHeaders(r1, FALSE)
           parts == Append(HeadPart(r, r2, Announced(r2)), "chunk")
           got2 == ReceivesAll(cl, r2.of, parts)
<1>1. /\ r \in Responses /\ Answered(r) /\ r.of \in 1..MaxRequests
      /\ cl \in Clients
      /\ ~cl.ahead /\ ~cl.misled /\ sock[c] = "open" => HasOf(r, cl)
  BY AnsweringIsInStep DEF Write
<1>2. ~r.sent => r.status = 200 /\ ~r.chunked /\ ~r.ended
  BY <1>1 DEF Answered, Response
<1>3. Is(r2, r.of, r.head, TRUE, TRUE, r.status, r.content, r.ended)
  <2>1. \A b : [r EXCEPT !.chunked = b]
                 = [of |-> r.of, head |-> r.head, sent |-> r.sent,
                    chunked |-> b, status |-> r.status,
                    content |-> r.content, ended |-> r.ended]
    BY <1>1 DEF Responses
  <2>2. r1 = [of |-> r.of, head |-> r.head, sent |-> r.sent, chunked |-> TRUE,
              status |-> r.status, content |-> r.content, ended |-> r.ended]
    BY <2>1, Zenon
  <2> HIDE DEF r1
  <2>3. r1 \in Responses
    BY <1>1, <2>2 DEF Responses
  <2>4. Is(r2, r1.of, r1.head, TRUE,
           IF r1.sent THEN r1.chunked ELSE r1.status # 204 /\ (r1.chunked \/ FALSE),
           r1.status, r1.content, r1.ended)
    BY <2>3, SendHeadersIs
  <2> HIDE DEF r2
  <2> QED BY <1>2, <2>2, <2>4 DEF Is
<1>4. Calls(c, r2, parts, FALSE) /\ Answering(c)
  BY Zenon DEF Write
<1> HIDE DEF r2
<1>5. /\ r.sent => Len(parts) = 1 /\ parts[1] = "chunk"
      /\ ~r.sent => Len(parts) = 2 /\ parts[2] = "chunk"
                     /\ parts[1] = IF Bodiless(r2) THEN "empty" ELSE "chunked"
  BY <1>3 DEF HeadPart, Announced, Is
<1> HIDE DEF parts
<1>6. /\ r2 \in Responses /\ Answered(r2) /\ r2.of = r.of
      /\ r2.ended <=> r.ended \/ FALSE
      /\ Len(parts) \in 0..2
  <2>1. Len(parts) \in 0..2
    BY <1>1, <1>5 DEF Responses
  <2> QED BY <1>1, <1>2, <1>3, <2>1 DEF Is, Answered
<1>7. ASSUME ~cl.ahead, ~cl.misled, sock[c] = "open", ~r.ended,
             Clean(r2, parts)
      PROVE  HasOf(r2, got2)
  <2> HIDE DEF r, cl
  <2>1. ~Bodiless(r2)
    <3>1. Len(<<>>) = 0 /\ Len(<<"empty">>) = 1 /\ <<"empty">>[1] = "empty"
      OBVIOUS
    <3> QED BY <1>1, <1>5, <1>7, <3>1 DEF Clean, Responses
  <2>2. HasOf(r, cl) /\ Pending(r2) /\ InChunks(r2)
    BY <1>1, <1>3, <1>7, <2>1 DEF Is, Pending, InChunks
  <2>3. CASE r.sent
    <3>1. InChunks(r) /\ Pending(r)
      <4>1. ~Bodiless(r)
        BY <1>3, <2>1 DEF Is, Bodiless
      <4> QED BY <1>1, <1>7, <2>3, <4>1 DEF Answered, InChunks, Pending
    <3>2. cl.mode = "chunks" /\ cl.got = r.of - 1 /\ cl.got + 1 = r.of
      BY <1>1, <2>2, <3>1 DEF HasOf, Clients
    <3>3. got2 = Receives(cl, cl.got + 1, "chunk")
      BY <1>5, <1>6, <2>3, <3>2, ReceivesAllParts
    <3>4. <<cl.mode, "chunk", "chunks">> \in Understood
      BY <3>2 DEF Understood
    <3> HIDE DEF got2
    <3>5. got2.mode = "chunks" /\ got2.got = cl.got
      BY <1>1, <3>3, <3>4, ReceivesPart
    <3> QED BY <1>6, <2>2, <3>2, <3>5 DEF HasOf
  <2>4. CASE ~r.sent
    <3> DEFINE head == Receives(cl, cl.got + 1, "chunked")
    <3>1. cl.mode = "idle" /\ cl.got = r.of - 1 /\ cl.got + 1 = r.of
      BY <1>1, <1>2, <1>7, <2>2, <2>4 DEF HasOf, Pending, InChunks, Clients
    <3>2. got2 = Receives(head, cl.got + 1, "chunk")
      BY <1>5, <1>6, <2>1, <2>4, <3>1, ReceivesAllParts
    <3>3. <<cl.mode, "chunked", "chunks">> \in Understood
      BY <3>1 DEF Understood
    <3>4. head.mode = "chunks" /\ head.got = cl.got
      BY <1>1, <3>3, ReceivesPart
    <3>5. head \in Clients
      BY <1>1, <3>1, ReceivesIsSame DEF Same
    <3> HIDE DEF got2, head
    <3>6. <<head.mode, "chunk", "chunks">> \in Understood
      BY <3>4 DEF Understood
    <3>7. got2.mode = "chunks" /\ got2.got = cl.got
      BY <3>2, <3>4, <3>5, <3>6, ReceivesPart
    <3> QED BY <1>6, <2>2, <3>1, <3>7 DEF HasOf
  <2> QED BY <2>3, <2>4
<1>8. Fits(c, r2, parts, FALSE)
  BY <1>6, <1>7 DEF Fits
<1> QED BY <1>4, <1>8, CallsKeep

LEMMA EndKeeps ==
    ASSUME IInv, NEW c \in Con, End(c), UNCHANGED ws
    PROVE  IInv'
<1> DEFINE r == con[c].response
           cl == client[c]
           r1 == SendHeaders(r, FALSE)
           r2 == [r1 EXCEPT !.ended = TRUE]
           parts == HeadPart(r, r1, Announced(r1))
                        \o (IF r1.chunked THEN <<"last">> ELSE <<>>)
           got2 == ReceivesAll(cl, r2.of, parts)
<1>1. /\ r \in Responses /\ Answered(r) /\ r.of \in 1..MaxRequests
      /\ cl \in Clients
      /\ ~cl.ahead /\ ~cl.misled /\ sock[c] = "open" => HasOf(r, cl)
  BY AnsweringIsInStep DEF End
<1>2. ~r.sent => ~r.chunked /\ ~r.ended
  BY <1>1 DEF Answered, Response
<1>3. Is(r1, r.of, r.head, TRUE, r.chunked, r.status, r.content, r.ended)
  <2>1. Is(r1, r.of, r.head, TRUE,
           IF r.sent THEN r.chunked ELSE r.status # 204 /\ (r.chunked \/ FALSE),
           r.status, r.content, r.ended)
    BY <1>1, SendHeadersIs
  <2> HIDE DEF r1
  <2> QED BY <1>2, <2>1 DEF Is
<1>4. Calls(c, r2, parts, TRUE) /\ Answering(c)
  BY Zenon DEF End
<1> HIDE DEF r1
<1>5. Is(r2, r.of, r.head, TRUE, r.chunked, r.status, r.content, TRUE)
  <2>1. \A b : [r1 EXCEPT !.ended = b]
                 = [of |-> r1.of, head |-> r1.head, sent |-> r1.sent,
                    chunked |-> r1.chunked, status |-> r1.status,
                    content |-> r1.content, ended |-> b]
    BY <1>3 DEF Is, Responses
  <2>2. r2 = [of |-> r1.of, head |-> r1.head, sent |-> r1.sent,
              chunked |-> r1.chunked, status |-> r1.status,
              content |-> r1.content, ended |-> TRUE]
    BY <2>1, Zenon
  <2> HIDE DEF r2
  <2> QED BY <1>3, <2>2 DEF Is, Responses
<1>6. /\ r.sent /\ ~r.chunked => Len(parts) = 0
      /\ r.sent /\ r.chunked => Len(parts) = 1 /\ parts[1] = "last"
      /\ ~r.sent => Len(parts) = 1 /\ parts[1] = "empty"
  BY <1>2, <1>3 DEF HeadPart, Announced, Is
<1> HIDE DEF r2, parts
<1>7. /\ r2 \in Responses /\ Answered(r2) /\ r2.of = r.of /\ ~Pending(r2)
      /\ r2.ended <=> r.ended \/ TRUE
      /\ Len(parts) \in 0..2
  <2>1. Len(parts) \in 0..2
    BY <1>1, <1>6 DEF Responses
  <2> QED BY <1>1, <1>5, <2>1 DEF Is, Answered, Pending
<1>8. ASSUME ~cl.ahead, ~cl.misled, sock[c] = "open", ~r.ended,
             Clean(r2, parts)
      PROVE  HasOf(r2, got2)
  <2> HIDE DEF r, cl
  <2>1. HasOf(r, cl) /\ Pending(r)
    BY <1>1, <1>8 DEF Pending
  <2>2. CASE r.sent /\ ~r.chunked
    <3>1. cl.mode = "idle" /\ cl.got = r.of
      BY <1>1, <2>1, <2>2 DEF HasOf, InChunks
    <3>2. got2 = cl
      BY <1>6, <2>2, ReceivesAllParts
    <3> HIDE DEF got2
    <3> QED BY <1>7, <3>1, <3>2 DEF HasOf
  <2>3. CASE r.sent /\ r.chunked
    <3>0. InChunks(r)
      <4>1. Len(<<>>) = 0 /\ <<"empty">>[1] = "empty"
        OBVIOUS
      <4>2. ~Bodiless(r2)
        BY <1>6, <1>8, <2>3, <4>1 DEF Clean
      <4> QED BY <1>5, <2>3, <4>2 DEF Is, InChunks, Bodiless
    <3>1. cl.mode = "chunks" /\ cl.got + 1 = r.of
      BY <1>1, <2>1, <2>3, <3>0 DEF HasOf, Clients
    <3>2. got2 = Receives(cl, cl.got + 1, "last")
      BY <1>6, <1>7, <2>3, <3>1, ReceivesAllParts
    <3>3. <<cl.mode, "last", "idle">> \in Understood
      BY <3>1 DEF Understood
    <3> HIDE DEF got2
    <3>4. got2.mode = "idle" /\ got2.got = r.of
      BY <1>1, <3>1, <3>2, <3>3, ReceivesPart
    <3> QED BY <1>7, <3>4 DEF HasOf
  <2>4. CASE ~r.sent
    <3>1. cl.mode = "idle" /\ cl.got + 1 = r.of
      BY <1>1, <1>2, <2>1, <2>4 DEF HasOf, InChunks, Clients
    <3>2. got2 = Receives(cl, cl.got + 1, "empty")
      BY <1>6, <1>7, <2>4, <3>1, ReceivesAllParts
    <3>3. <<cl.mode, "empty", "idle">> \in Understood
      BY <3>1 DEF Understood
    <3> HIDE DEF got2
    <3>4. got2.mode = "idle" /\ got2.got = r.of
      BY <1>1, <3>1, <3>2, <3>3, ReceivesPart
    <3> QED BY <1>7, <3>4 DEF HasOf
  <2> QED BY <2>2, <2>3, <2>4
<1>9. Fits(c, r2, parts, TRUE)
  BY <1>7, <1>8 DEF Fits
<1> QED BY <1>4, <1>9, CallsKeep

LEMMA EndWithKeeps ==
    ASSUME IInv, NEW c \in Con, EndWith(c), UNCHANGED ws
    PROVE  IInv'
<1> DEFINE r == con[c].response
           cl == client[c]
           last == [r EXCEPT !.sent = TRUE, !.ended = TRUE]
<1>1. /\ r \in Responses /\ Answered(r) /\ r.of \in 1..MaxRequests
      /\ cl \in Clients /\ Answering(c)
      /\ ~cl.ahead /\ ~cl.misled /\ sock[c] = "open" => HasOf(r, cl)
  BY AnsweringIsInStep DEF EndWith
<1>2. ~r.sent => ~r.chunked /\ ~r.ended
  BY <1>1 DEF Answered, Response
<1>3. last = [of |-> r.of, head |-> r.head, sent |-> TRUE,
              chunked |-> r.chunked, status |-> r.status,
              content |-> r.content, ended |-> TRUE]
  BY <1>1, LastRecord, Zenon
<1>4. PICK r2, parts :
        /\ Calls(c, r2, parts, TRUE)
        /\ Is(r2, r.of, r.head, TRUE, r.chunked, r.status,
              ~r.chunked \/ r.content, TRUE)
        /\ r.chunked => parts = <<"chunk", "last">>
        /\ ~r.chunked =>
            \E body \in {<<"body">>} \cup IF r.content THEN {<<>>} ELSE {} :
                parts = HeadPart(r, last, "length") \o body
  <2>1. CASE r.chunked
    <3>1. Calls(c, last, <<"chunk", "last">>, TRUE)
      BY <2>1, Zenon DEF EndWith
    <3> HIDE DEF last
    <3>2. Is(last, r.of, r.head, TRUE, r.chunked, r.status,
             ~r.chunked \/ r.content, TRUE)
      BY <1>1, <1>3, <2>1 DEF Is, Responses
    <3> QED BY <2>1, <3>1, <3>2
  <2>2. CASE ~r.chunked
    <3>1. PICK body \in {<<"body">>} \cup IF r.content THEN {<<>>} ELSE {} :
            Calls(c, [last EXCEPT !.content = TRUE],
                  HeadPart(r, last, "length") \o body, TRUE)
      BY <2>2, Zenon DEF EndWith
    <3> DEFINE r3 == [last EXCEPT !.content = TRUE]
    <3> HIDE DEF last
    <3>2. /\ last \in Responses
          /\ last.of = r.of /\ last.head = r.head /\ last.sent
          /\ last.chunked = r.chunked /\ last.status = r.status /\ last.ended
      BY <1>1, <1>3 DEF Responses
    <3>3. r3 = [of |-> last.of, head |-> last.head, sent |-> last.sent,
                chunked |-> last.chunked, status |-> last.status,
                content |-> TRUE, ended |-> last.ended]
      BY <3>2, ContentRecord, Zenon
    <3> HIDE DEF r3
    <3>4. Is(r3, r.of, r.head, TRUE, r.chunked, r.status,
             ~r.chunked \/ r.content, TRUE)
      BY <2>2, <3>2, <3>3 DEF Is, Responses
    <3>5. Calls(c, r3, HeadPart(r, last, "length") \o body, TRUE)
      BY <3>1 DEF r3
    <3> QED BY <2>2, <3>1, <3>4, <3>5
  <2> QED BY <2>1, <2>2
<1> DEFINE got2 == ReceivesAll(cl, r2.of, parts)
<1>5. /\ r2 \in Responses /\ Answered(r2) /\ r2.of = r.of /\ ~Pending(r2)
      /\ r2.ended <=> r.ended \/ TRUE
  BY <1>1, <1>4 DEF Is, Answered, Pending
<1>6. last.head = r.head /\ last.status = r.status
  <2> HIDE DEF last
  <2> QED BY <1>3
<1> HIDE DEF last
<1>7. /\ r.chunked => Len(parts) = 2 /\ parts[1] = "chunk" /\ parts[2] = "last"
      /\ ~r.chunked /\ ~r.content /\ r.sent =>
            Len(parts) = 1 /\ parts[1] = "body"
      /\ ~r.chunked /\ ~r.sent =>
            /\ Len(parts) = 2 /\ parts[2] = "body"
            /\ parts[1] = IF Bodiless(r) THEN "empty" ELSE "length"
      /\ Len(parts) \in 0..2
  <2>1. CASE r.chunked
    BY <1>4, <2>1
  <2>2. CASE ~r.chunked /\ r.sent
    <3>1. PICK body \in {<<"body">>} \cup IF r.content THEN {<<>>} ELSE {} :
            parts = HeadPart(r, last, "length") \o body
      BY <1>4, <2>2
    <3>2. parts = <<"body">> \/ (r.content /\ parts = <<>>)
      BY <2>2, <3>1 DEF HeadPart
    <3> QED BY <2>2, <3>2
  <2>3. CASE ~r.chunked /\ ~r.sent
    <3>1. ~r.content
      BY <1>1, <1>2, <2>3 DEF Answered
    <3>2. parts = HeadPart(r, last, "length") \o <<"body">>
      BY <1>4, <2>3, <3>1
    <3>3. Bodiless(last) <=> Bodiless(r)
      BY <1>6 DEF Bodiless
    <3>4. parts = IF Bodiless(r) THEN <<"empty", "body">> ELSE <<"length", "body">>
      BY <2>3, <3>2, <3>3 DEF HeadPart
    <3> QED BY <2>3, <3>4
  <2> QED BY <2>1, <2>2, <2>3
<1>8. ASSUME ~cl.ahead, ~cl.misled, sock[c] = "open", ~r.ended,
             Clean(r2, parts)
      PROVE  HasOf(r2, got2)
  <2> DEFINE head == Receives(cl, cl.got + 1, parts[1])
             m == IF r.sent THEN "chunks" ELSE "body"
  <2> HIDE DEF r, cl
  <2>1. HasOf(r, cl) /\ Pending(r) /\ ~r.content
    BY <1>1, <1>8 DEF Pending, Answered
  <2>2. ~Bodiless(r)
    <3>1. /\ Len(<<>>) = 0 /\ Len(<<"empty">>) = 1
          /\ <<"empty">>[1] = "empty"
      OBVIOUS
    <3>2. parts # <<>> /\ parts # <<"empty">>
      BY <1>7, <2>1, <3>1
    <3> QED BY <1>4, <1>8, <3>2 DEF Clean, Is, Bodiless
  <2>3. r.sent <=> r.chunked
    BY <1>1, <1>2, <1>8, <2>2 DEF Answered
  <2>4. cl.got + 1 = r.of /\ cl.mode = IF r.sent THEN "chunks" ELSE "idle"
    BY <1>1, <2>1, <2>2, <2>3 DEF HasOf, InChunks, Clients
  <2>5. got2 = Receives(head, cl.got + 1, parts[2])
    BY <1>5, <1>7, <2>3, <2>4, ReceivesAllParts
  <2>6. <<cl.mode, parts[1], m>> \in Understood
    BY <1>7, <2>2, <2>3, <2>4 DEF Understood
  <2>7. head \in Clients
    BY <1>1, <2>4, ReceivesIsSame DEF Same
  <2> HIDE DEF got2, m
  <2>8. head.mode = m /\ head.got = IF m = "idle" THEN cl.got + 1 ELSE cl.got
    BY <1>1, <2>6, ReceivesPart
  <2> HIDE DEF head
  <2>9. head.mode = m /\ head.got = cl.got
    BY <2>8 DEF m
  <2>10. <<head.mode, parts[2], "idle">> \in Understood
    BY <1>7, <2>3, <2>9 DEF Understood, m
  <2>11. got2.mode = "idle" /\ got2.got = r.of
    BY <2>4, <2>5, <2>7, <2>9, <2>10, ReceivesPart
  <2> QED BY <1>5, <2>11 DEF HasOf
<1>9. Fits(c, r2, parts, TRUE)
  BY <1>5, <1>7, <1>8 DEF Fits
<1> QED BY <1>1, <1>4, <1>9, CallsKeep

LEMMA UpgradeKeeps ==
    ASSUME IInv, NEW c \in Con, Upgrade(c) PROVE IInv'
<1> DEFINE k2 == [Completed(con[c], FALSE) EXCEPT !.parser = "upgraded"]
           w2 == [handshaked |-> TRUE, ping |-> TRUE, rooted |-> TRUE,
                  heard |-> Hears(ws[c].heard, "open")]
<1>1. /\ con[c].life = "live" /\ kind[c] = "websocket"
      /\ con[c].parser = "headers"
  BY DEF Upgrade, Upgrading, Readable
<1>2. /\ con' = [con EXCEPT ![c] = k2] /\ ws' = [ws EXCEPT ![c] = w2]
      /\ UNCHANGED <<kind, sock, client, used>>
  BY Zenon DEF Upgrade
<1>3. /\ Whole(kind[c], sock[c], k2, client[c], ws[c], used[c])
      /\ k2.life = "live" /\ k2.parser = "upgraded"
  <2>1. /\ k2 = [life |-> "live", timer |-> con[c].timer, parser |-> "upgraded",
                 headers |-> con[c].headers, count |-> con[c].count + 1,
                 response |-> Response(con[c].count + 1, FALSE)]
        /\ Whole(kind[c], sock[c], k2, client[c], ws[c], used[c])
    BY <1>1, TypedAt, CompletedIsWhole
  <2> HIDE DEF k2
  <2> QED BY <2>1
<1>4. ~ws[c].handshaked
  BY <1>1, TypedAt DEF Heard
<1> HIDE DEF k2
<1>5. Whole(kind[c], sock[c], k2, client[c], w2, used[c])
  BY <1>1, <1>3, <1>4, HandshakeIsWhole
<1> HIDE DEF w2
<1>6. OnlyAt(c)
  BY <1>2 DEF IInv, Functions, OnlyAt
<1>7. /\ sock'[c] = sock[c] /\ con'[c] = k2 /\ client'[c] = client[c]
      /\ ws'[c] = w2 /\ used'[c] = used[c]
  BY <1>2 DEF IInv, Functions
<1> QED BY <1>5, <1>6, <1>7, AtOne

LEMMA RefuseKeeps ==
    ASSUME IInv, NEW c \in Con, Refuse(c) PROVE IInv'
<1> DEFINE k1 == Completed(con[c], FALSE)
           k2 == Deleted(k1)
           u2 == used[c] \cup {"refusal"}
<1>1. /\ con[c].life = "live" /\ kind[c] = "websocket"
      /\ con[c].parser = "headers"
  BY DEF Refuse, Upgrading, Readable
<1>2. /\ sock' = [sock EXCEPT ![c] = "closed"]
      /\ con' = [con EXCEPT ![c] = k2]
      /\ used' = [used EXCEPT ![c] = u2]
      /\ UNCHANGED <<kind, client, ws>>
  BY Zenon DEF Refuse
<1>3. /\ Whole(kind[c], sock[c], k1, client[c], ws[c], used[c])
      /\ k1.life = "live"
  <2>1. con[c] \in Connections
    BY TypedAt DEF Typed
  <2> DEFINE response == Response(con[c].count + 1, FALSE)
  <2>2. k1 = [life |-> con[c].life, timer |-> con[c].timer, parser |-> "idle",
              headers |-> con[c].headers, count |-> con[c].count + 1,
              response |-> response]
    BY <2>1, CompletedRecord
  <2> HIDE DEF k1, response
  <2>3. [k1 EXCEPT !.parser = "idle"] = k1
    BY <2>2
  <2>4. Whole(kind[c], sock[c], [k1 EXCEPT !.parser = "idle"], client[c], ws[c],
              used[c])
    BY <1>1, TypedAt, CompletedIsWhole DEF k1
  <2>5. k1.life = "live"
    BY <2>2, <1>1
  <2> QED BY <2>3, <2>4, <2>5
<1> HIDE DEF k1
<1>4. ~ws[c].handshaked
  BY <1>1, TypedAt DEF Heard
<1>5. Disconnected(ws[c]) = ws[c]
  BY <1>4 DEF Disconnected
<1>6. Whole(kind[c], "closed", k2, client[c], ws[c], used[c])
  BY <1>3, <1>5, DeletedIsWhole
<1>7. k2.life # "none"
  <2>1. k1 \in Connections
    BY <1>3 DEF Whole, Typed
  <2>2. k2 = [life |-> "deleted", timer |-> FALSE, parser |-> k1.parser,
              headers |-> k1.headers, count |-> k1.count, response |-> NULL]
    BY <2>1, DeletedRecord
  <2> HIDE DEF k2
  <2> QED BY <2>2
<1> HIDE DEF k2
<1>8. Whole(kind[c], "closed", k2, client[c], ws[c], u2)
  BY <1>6, <1>7, UsedIsWhole
<1> HIDE DEF u2
<1>9. OnlyAt(c)
  BY <1>2 DEF IInv, Functions, OnlyAt
<1>10. /\ sock'[c] = "closed" /\ con'[c] = k2 /\ client'[c] = client[c]
       /\ ws'[c] = ws[c] /\ used'[c] = u2
  BY <1>2 DEF IInv, Functions
<1> QED BY <1>8, <1>9, <1>10, AtOne

LEMMA ContentKeeps ==
    ASSUME IInv, NEW c \in Con, Content(c) PROVE IInv'
<1>1. ws[c].heard = "open" /\ ws[c] \in WebSockets
  BY TypedAt DEF Content, Readable, Heard, Typed
<1>2. Hears(ws[c].heard, "message") = "open"
  BY <1>1 DEF Hears
<1>3. ws' = [ws EXCEPT ![c] = [@ EXCEPT !.heard = "open"]]
  BY <1>2 DEF Content
<1>4. [ws[c] EXCEPT !.heard = "open"] = ws[c]
  BY <1>1 DEF WebSockets
<1>5. UNCHANGED <<serverVars, ws>>
  BY <1>3, <1>4 DEF Content, IInv, Functions
<1> QED BY <1>5 DEF IInv, Functions, WholeAt, serverVars

LEMMA PingKeeps ==
    ASSUME IInv, NEW c \in Con, Ping(c) PROVE IInv'
<1>1. con[c].life = "live"
  BY TypedAt DEF Ping, Heard
<1>2. UNCHANGED <<serverVars, ws>>
  BY <1>1 DEF Ping, IInv, Functions, serverVars
<1> QED BY <1>2 DEF IInv, Functions, WholeAt, serverVars

LEMMA ScriptKeeps ==
    ASSUME IInv, NEW c \in Con, Send(c) \/ Close(c) PROVE IInv'
<1> DEFINE u2 == IF con[c].life = "live" THEN used[c]
                 ELSE used[c] \cup {"script"}
           s2 == IF Close(c) /\ sock[c] = "open" THEN "closing" ELSE sock[c]
<1>1. used' = [used EXCEPT ![c] = u2]
  BY DEF Send, Close, Called
<1>2. sock' = [sock EXCEPT ![c] = s2] /\ UNCHANGED <<kind, con, client, ws>>
  BY DEF Send, Close, IInv, Functions
<1>3. /\ ws[c].handshaked /\ kind[c] = "websocket" /\ con[c].life # "none"
      /\ con[c].life # "live" => ws[c].heard = "closed"
  BY TypedAt DEF Send, Close, Heard
<1>4. Whole(kind[c], s2, con[c], client[c], ws[c], used[c])
  BY <1>3, TypedAt, CloseIsWhole
<1>5. Whole(kind[c], s2, con[c], client[c], ws[c], u2)
  BY <1>3, <1>4, UsedIsWhole
<1> HIDE DEF u2, s2
<1>6. OnlyAt(c)
  BY <1>1, <1>2 DEF IInv, Functions, OnlyAt
<1>7. /\ sock'[c] = s2 /\ con'[c] = con[c] /\ client'[c] = client[c]
      /\ ws'[c] = ws[c] /\ used'[c] = u2
  BY <1>1, <1>2 DEF IInv, Functions
<1> QED BY <1>5, <1>6, <1>7, AtOne
-----------------------------------------------------------------------------
(* The theorems *)

LEMMA InitIInv == Init => IInv
<1> SUFFICES ASSUME Init PROVE IInv
  OBVIOUS
<1>1. Functions
  BY DEF Init, ServerInit, Functions
<1>2. ASSUME NEW c \in Con PROVE WholeAt(c)
  <2>1. /\ kind[c] \in {"http", "websocket"} /\ sock[c] = "none"
        /\ con[c] = NoCon /\ client[c] = NewClient /\ ws[c] = NoObject
        /\ used[c] = {}
    BY DEF Init, ServerInit
  <2>2. Typed(kind[c], "none", NoCon, NewClient, NoObject, {})
    <3>1. NULL \in Responses
      BY NoResponse
    <3>2. NoCon \in Connections
      BY <3>1, HTTPServerAssumption DEF Connections, NoCon
    <3>3. NewClient \in Clients
      BY HTTPServerAssumption DEF Clients, NewClient
    <3>4. NoObject \in WebSockets
      BY DEF WebSockets, NoObject
    <3> QED BY <2>1, <3>2, <3>3, <3>4 DEF Typed
  <2>3. /\ NULL.of = 0 /\ ~NULL.sent /\ ~NULL.content /\ ~NULL.ended
        /\ ~Pending(NULL) /\ NULL = Response(0, NULL.head)
    BY DEF NULL, Response, Pending
  <2>4. NoCon.response = NULL
    BY DEF NoCon
  <2>5. Lives("none", NoCon) /\ Parsed(NoCon, NewClient)
    BY DEF Lives, Parsed, NoCon, NewClient
  <2>6. Answered(NULL) /\ Closes("none", NoCon, NewClient)
    BY <2>3, <2>4 DEF Answered, Closes
  <2>7. InStep("none", NoCon, NewClient)
    BY <2>3, <2>4 DEF InStep, HasOf, NewClient
  <2>8. Heard(kind[c], NoCon, NoObject)
    BY DEF Heard, NoObject
  <2>9. Whole(kind[c], "none", NoCon, NewClient, NoObject, {})
    BY <2>2, <2>4, <2>5, <2>6, <2>7, <2>8 DEF Whole
  <2> QED BY <2>1, <2>9 DEF WholeAt
<1> QED BY <1>1, <1>2 DEF IInv

LEMMA NextIInv == IInv /\ [Next]_vars => IInv'
<1> SUFFICES ASSUME IInv, [Next]_vars PROVE IInv'
  OBVIOUS
<1>1. CASE UNCHANGED vars
  BY <1>1 DEF vars, serverVars, IInv, Functions, WholeAt
<1>2. CASE ServerNext /\ UNCHANGED ws
  <2> PICK c \in Con :
        \/ Accept(c) \/ MessageBegin(c)
        \/ \E connection \in {"keep", "close"} : Headers(c, connection)
        \/ \E head \in BOOLEAN : MessageComplete(c, head)
        \/ \E head \in BOOLEAN : MessageUpgraded(c, head)
        \/ CheckTimeout(c) \/ Disconnect(c)
        \/ \E status \in Statuses : WriteHead(c, status)
        \/ Write(c) \/ End(c) \/ EndWith(c)
    BY <1>2, Zenon DEF ServerNext
  <2> UNCHANGED ws
    BY <1>2
  <2>1. CASE Accept(c)
    BY <2>1, AcceptKeeps
  <2>2. CASE MessageBegin(c)
    BY <2>2, MessageBeginKeeps
  <2>3. CASE \E connection \in {"keep", "close"} : Headers(c, connection)
    BY <2>3, HeadersKeep
  <2>4. CASE \E head \in BOOLEAN :
                MessageComplete(c, head) \/ MessageUpgraded(c, head)
    BY <2>4, MessageCompleteKeeps
  <2>5. CASE CheckTimeout(c)
    BY <2>5, CheckTimeoutKeeps
  <2>6. CASE Disconnect(c)
    BY <2>6, DisconnectKeeps
  <2>7. CASE \E status \in Statuses : WriteHead(c, status)
    BY <2>7, WriteHeadKeeps
  <2>8. CASE Write(c)
    BY <2>8, WriteKeeps
  <2>9. CASE End(c)
    BY <2>9, EndKeeps
  <2>10. CASE EndWith(c)
    BY <2>10, EndWithKeeps
  <2> QED BY <2>1, <2>2, <2>3, <2>4, <2>5, <2>6, <2>7, <2>8, <2>9, <2>10
<1>3. CASE WSNext
  <2> PICK c \in Con :
        \/ Upgrade(c) \/ Refuse(c) \/ Content(c) \/ Ping(c)
        \/ WSDisconnect(c) \/ Send(c) \/ Close(c)
    BY <1>3, Zenon DEF WSNext
  <2> QED BY UpgradeKeeps, RefuseKeeps, ContentKeeps, PingKeeps,
             DisconnectKeeps, ScriptKeeps
<1> QED BY <1>1, <1>2, <1>3 DEF Next

\* Every state of the server keeps the invariant of each of its connections.
THEOREM Invariance == Spec => []IInv
  BY InitIInv, NextIInv, PTL DEF Spec

\* Every variable has its type.
THEOREM TypeCorrect == Spec => []TypeOK
<1>1. IInv => TypeOK
  <2> SUFFICES ASSUME IInv PROVE TypeOK
    OBVIOUS
  <2>1. ASSUME NEW c \in Con
        PROVE  /\ kind[c] \in {"http", "websocket"}
               /\ sock[c] \in {"none", "open", "closing", "closed"}
               /\ con[c] \in Connections /\ client[c] \in Clients
               /\ ws[c] \in WebSockets /\ used[c] \in SUBSET Users
    BY TypedAt DEF Typed
  <2> QED BY <2>1 DEF IInv, Functions, TypeOK, ServerTypeOK, WebSockets, Users
<1> QED BY <1>1, Invariance, PTL

\* Whatever calls of writeHead(), write() and end() a script answers with, over
\* the requests of a connection, the client gets whole answers in their order,
\* unless it asks ahead, or something is written after the head of an answer
\* that has no body or after the end of any.
THEOREM Ordered == Spec => []AnswersInOrder
<1>1. IInv => AnswersInOrder
  <2> SUFFICES ASSUME IInv, NEW c \in Con, ~client[c].ahead,
                      ~client[c].misled
               PROVE  client[c].mode # "garbled"
    BY DEF AnswersInOrder
  <2>1. InStep(sock[c], con[c], client[c])
    BY TypedAt DEF Whole
  <2> QED BY <2>1 DEF InStep
<1> QED BY <1>1, Invariance, PTL

\* A connection closes when its client has asked for it and has its answer, and
\* not before, but for the same uses.
THEOREM ClosedInTime == Spec => []ClosesWhenDone
<1>1. IInv => ClosesWhenDone
  <2> SUFFICES ASSUME IInv, NEW c \in Con, kind[c] = "http",
                      ~client[c].ahead, ~client[c].misled,
                      ~client[c].timedOut
               PROVE  /\ sock[c] = "closing" =>
                            client[c].asksClose /\ client[c].got = client[c].sent
                      /\ con[c].response.of = client[c].sent
                         /\ con[c].response.ended =>
                                sock[c] = "open" <=> ~client[c].asksClose
    BY DEF ClosesWhenDone
  <2>1. /\ Closes(sock[c], con[c], client[c]) /\ Answered(con[c].response)
        /\ Lives(sock[c], con[c])
        /\ Typed(kind[c], sock[c], con[c], client[c], ws[c], used[c])
    BY TypedAt DEF Whole
  <2>2. con[c].response.ended => sock[c] \in {"open", "closing"}
    <3> SUFFICES ASSUME con[c].response.ended
                 PROVE  sock[c] \in {"open", "closing"}
      OBVIOUS
    <3>1. con[c].response.of # 0
      BY <2>1 DEF Answered
    <3>2. NULL.of = 0 /\ NoCon.response = NULL
      BY DEF NULL, NoCon, Response
    <3>3. con[c].life \in {"none", "live", "deleted"}
      BY <2>1 DEF Typed, Connections
    <3> QED BY <2>1, <3>1, <3>2, <3>3 DEF Lives
  <2> QED BY <2>1, <2>2 DEF Closes
<1> QED BY <1>1, Invariance, PTL

\* The script hears of every WebSocket that it is open, then of its messages,
\* then once of its end, and its object is rooted exactly in between.
THEOREM HeardInOrder == Spec => []OpenThenClosed
<1>1. IInv => OpenThenClosed
  <2> SUFFICES ASSUME IInv, NEW c \in Con
               PROVE  /\ ws[c].heard # "nonsense"
                      /\ ws[c].rooted <=> ws[c].heard = "open"
                      /\ con[c].life = "deleted" /\ ws[c].handshaked =>
                              ws[c].heard = "closed"
    BY DEF OpenThenClosed
  <2>1. Heard(kind[c], con[c], ws[c])
    BY TypedAt
  <2> QED BY <2>1 DEF Heard
<1> QED BY <1>1, Invariance, PTL

\* A connection that is deleted is used by nothing but the refusal of an
\* upgrade, and the script that has heard of its end.
THEOREM LeftAlone == Spec => []DeletedIsLeftAlone
<1>1. IInv => DeletedIsLeftAlone
  BY DEF IInv, WholeAt, Whole, DeletedIsLeftAlone
<1> QED BY <1>1, Invariance, PTL
-----------------------------------------------------------------------------
(* The Socket of scripts: what the collector may not take, and the line     *)
(* that the next delimiter will deliver.                                    *)


Serving == {"listening", "stopping", "gone"}

\* An object is attached while it lives.  Those that a socket may call are
\* rooted, and so is a server as long as it has a socket, even one that is
\* gone: it will not be attached to another, and its clients find it.
ObjInv ==
    /\ \A o \in Object :
            obj[o].life # "alive" => ~obj[o].held /\ obj[o].sock = "NULL"
    /\ \A c \in Client :
            obj[c].sock \in Callable \cup Serving => obj[c].rooted
    /\ ~reattached =>
            /\ obj[Self].sock \in Callable \cup Serving => obj[Self].rooted
            /\ \A c \in Client :
                    obj[c].life # "none" => obj[Self].sock \in Serving

\* The buffer has the line, unless that is too long for it.
Keeps(b, l) ==
    /\ b.pos <= MaxLine
    /\ IF l.lost THEN l.size > MaxLine ELSE b.pos = l.size

LineInv == \A o \in Object : Keeps(buffer[o], line[o])

ParentInv == "parent" \in misused => reattached

SocketInv == SocketTypeOK /\ ObjInv /\ LineInv /\ ParentInv
-----------------------------------------------------------------------------
(* What a step leaves of an object. *)

LEMMA AttachRecord ==
    ASSUME NEW r \in Objects, NEW s, NEW b
    PROVE  [r EXCEPT !.sock = s, !.rooted = b]
               = [life |-> r.life, held |-> r.held, rooted |-> b, sock |-> s]
<1>1. [z \in DOMAIN r |->
            IF z = "rooted" THEN b
            ELSE IF z = "sock" THEN s ELSE r[z]]
          = [life |-> r.life, held |-> r.held, rooted |-> b, sock |-> s]
  BY DEF Objects
<1> QED BY <1>1, ExceptTwo, Zenon

LEMMA EndObject ==
    ASSUME NEW r \in Objects, NEW l, NEW s
    PROVE  [r EXCEPT !.life = l, !.sock = s]
               = [life |-> l, held |-> r.held, rooted |-> r.rooted,
                  sock |-> s]
<1>1. [z \in DOMAIN r |->
            IF z = "sock" THEN s
            ELSE IF z = "life" THEN l ELSE r[z]]
          = [life |-> l, held |-> r.held, rooted |-> r.rooted, sock |-> s]
  BY DEF Objects
<1> QED BY <1>1, ExceptTwo, Zenon

LEMMA NoneRecord ==
    ASSUME NEW r \in Objects, NEW a, NEW h
    PROVE  [r EXCEPT !.life = a, !.held = h]
               = [life |-> a, held |-> h, rooted |-> r.rooted,
                  sock |-> r.sock]
<1>1. [z \in DOMAIN r |->
            IF z = "held" THEN h
            ELSE IF z = "life" THEN a ELSE r[z]]
          = [life |-> a, held |-> h, rooted |-> r.rooted, sock |-> r.sock]
  BY DEF Objects
<1> QED BY <1>1, ExceptTwo, Zenon

\* An object by its fields.
ObjectIs(r, life, held, rooted, socket) ==
    /\ r \in Objects
    /\ r.life = life /\ (r.held <=> held)
    /\ (r.rooted <=> rooted) /\ r.sock = socket

LEMMA AttachedIs ==
    ASSUME NEW r \in Objects, NEW next \in Attached \cup {"NULL"}
    PROVE  /\ ObjectIs(Connecting(r), r.life, r.held, TRUE, "connecting")
           /\ ObjectIs(Listening(r), r.life, r.held, TRUE, "listening")
           /\ ObjectIs(Failing(r), r.life, r.held, r.rooted, "failed")
           /\ ObjectIs(Detached(r, next), r.life, r.held, FALSE, next)
<1>1. \A s, b : [r EXCEPT !.sock = s, !.rooted = b]
        = [life |-> r.life, held |-> r.held, rooted |-> b, sock |-> s]
  BY AttachRecord, Zenon
<1>2. /\ Connecting(r) = [life |-> r.life, held |-> r.held, rooted |-> TRUE,
                          sock |-> "connecting"]
      /\ Listening(r) = [life |-> r.life, held |-> r.held, rooted |-> TRUE,
                         sock |-> "listening"]
      /\ Detached(r, next) = [life |-> r.life, held |-> r.held,
                              rooted |-> FALSE, sock |-> next]
  BY <1>1, Zenon DEF Connecting, Listening, Detached
<1>3. Failing(r) = [life |-> r.life, held |-> r.held, rooted |-> r.rooted,
                    sock |-> "failed"]
  BY DEF Objects, Failing
<1> QED BY <1>2, <1>3 DEF ObjectIs, Objects, Attached, Callable

LEMMA CollectedIs ==
    ASSUME NEW r \in Objects
    PROVE  ObjectIs([r EXCEPT !.life = "deleted", !.sock = "NULL"], "deleted", r.held,
              r.rooted, "NULL")
<1>1. [r EXCEPT !.life = "deleted", !.sock = "NULL"]
        = [life |-> "deleted", held |-> r.held, rooted |-> r.rooted,
           sock |-> "NULL"]
  BY EndObject, Zenon
<1> QED BY <1>1 DEF ObjectIs, Objects

LEMMA SockIs ==
    ASSUME NEW r \in Objects, NEW s \in Attached \cup {"NULL"}
    PROVE  ObjectIs([r EXCEPT !.sock = s], r.life, r.held, r.rooted, s)
<1>1. [r EXCEPT !.sock = s]
        = [life |-> r.life, held |-> r.held, rooted |-> r.rooted, sock |-> s]
  BY DEF Objects
<1> QED BY <1>1 DEF ObjectIs, Objects

\* A step that makes v of the object x.
LEMMA ObjStep ==
    ASSUME SocketTypeOK, ObjInv, NEW x \in Object, NEW v \in Objects,
           obj' = [obj EXCEPT ![x] = v],
           reattached => reattached',
           v.life # "alive" => ~v.held /\ v.sock = "NULL",
           x # Self /\ v.sock \in Callable \cup Serving => v.rooted,
           x # Self /\ ~reattached' /\ v.life # "none" =>
                obj[x].life # "none" \/ obj[Self].sock \in Serving,
           x = Self /\ ~reattached' =>
                /\ v.sock \in Callable \cup Serving => v.rooted
                /\ obj[Self].sock \in Serving => v.sock \in Serving
    PROVE  obj' \in [Object -> Objects] /\ ObjInv'
<1>1. /\ obj'[x] = v /\ \A o \in Object \ {x} : obj'[o] = obj[o]
      /\ obj' \in [Object -> Objects]
  BY DEF SocketTypeOK
<1>2. Self \in Object /\ Client \subseteq Object /\ Self \notin Client
  BY SocketAssumption DEF Object
<1>3. ASSUME NEW o \in Object
      PROVE  obj'[o].life # "alive" => ~obj'[o].held /\ obj'[o].sock = "NULL"
  BY <1>1 DEF ObjInv
<1>4. ASSUME NEW c \in Client
      PROVE  obj'[c].sock \in Callable \cup Serving => obj'[c].rooted
  BY <1>1, <1>2 DEF ObjInv
<1>5. ASSUME ~reattached'
      PROVE  /\ obj'[Self].sock \in Callable \cup Serving => obj'[Self].rooted
             /\ \A c \in Client :
                    obj'[c].life # "none" => obj'[Self].sock \in Serving
  <2>1. /\ obj[Self].sock \in Callable \cup Serving => obj[Self].rooted
        /\ \A c \in Client : obj[c].life # "none" => obj[Self].sock \in Serving
    BY <1>5 DEF ObjInv
  <2>2. CASE x = Self
    BY <1>1, <1>2, <1>5, <2>1, <2>2
  <2>3. CASE x # Self
    <3>1. obj'[Self] = obj[Self]
      BY <1>1, <1>2, <2>3
    <3>2. ASSUME NEW c \in Client, obj'[c].life # "none"
          PROVE  obj[Self].sock \in Serving
      BY <1>1, <1>2, <1>5, <2>1, <2>3, <3>2
    <3> QED BY <2>1, <3>1, <3>2
  <2> QED BY <2>2, <2>3
<1> QED BY <1>1, <1>3, <1>4, <1>5 DEF ObjInv

LEMMA Fields ==
    ASSUME SocketTypeOK, NEW o \in Object
    PROVE  obj[o] \in Objects /\ buffer[o] \in Buffers /\ line[o] \in Lines
  BY DEF SocketTypeOK
-----------------------------------------------------------------------------
(* The steps *)

\* A step that makes an object of another, and nothing else but reattached.
LEMMA ObjectStepKeeps ==
    ASSUME SocketInv, NEW x \in Object, NEW v \in Objects,
           obj' = [obj EXCEPT ![x] = v], UNCHANGED <<readline, buffer, line>>,
           reattached => reattached', reattached' \in BOOLEAN,
           misused' \subseteq {"socket", "buffer", "parent"},
           "parent" \in misused' => "parent" \in misused \/ reattached',
           v.life # "alive" => ~v.held /\ v.sock = "NULL",
           x # Self /\ v.sock \in Callable \cup Serving => v.rooted,
           x # Self /\ ~reattached' /\ v.life # "none" =>
                obj[x].life # "none" \/ obj[Self].sock \in Serving,
           x = Self /\ ~reattached' =>
                /\ v.sock \in Callable \cup Serving => v.rooted
                /\ obj[Self].sock \in Serving => v.sock \in Serving
    PROVE  SocketInv'
<1>1. obj' \in [Object -> Objects] /\ ObjInv'
  BY ObjStep DEF SocketInv
<1>2. SocketTypeOK'
  BY <1>1 DEF SocketInv, SocketTypeOK
<1>3. LineInv' /\ ParentInv'
  BY DEF SocketInv, LineInv, ParentInv, Keeps
<1> QED BY <1>1, <1>2, <1>3 DEF SocketInv

LEMMA SelfObject ==
    Self \in Object /\ Client \subseteq Object /\ \A c \in Client : c # Self
  BY SocketAssumption DEF Object

LEMMA ConnectKeeps ==
    ASSUME SocketInv, Connect \/ Listen PROVE SocketInv'
<1> DEFINE r == obj[Self]
<1>1. r \in Objects /\ r.held /\ r.sock = "NULL" /\ r.life = "alive"
  BY Fields, SelfObject DEF SocketInv, ObjInv, Connect, Listen
<1>2. PICK v \in {Connecting(r), Listening(r), Failing(r)} :
            obj' = [obj EXCEPT ![Self] = v]
  BY Zenon DEF Connect, Listen
<1>3. UNCHANGED <<readline, buffer, line, reattached, misused>>
  BY DEF Connect, Listen
<1>4. /\ v \in Objects /\ v.life = "alive"
      /\ v.rooted \/ v.sock = "failed"
  BY <1>1, <1>2, AttachedIs DEF ObjectIs
<1>5. v.sock \in Callable \cup Serving => v.rooted
  BY <1>4 DEF Callable, Serving
<1>6. reattached' \in BOOLEAN /\ misused' \subseteq {"socket", "buffer", "parent"}
  BY <1>3 DEF SocketInv, SocketTypeOK
<1>7. obj[Self].sock \notin Serving
  BY <1>1 DEF Serving
<1> HIDE DEF r
<1> QED BY <1>2, <1>3, <1>4, <1>5, <1>6, <1>7, SelfObject, ObjectStepKeeps

LEMMA SelfStepKeeps ==
    ASSUME SocketInv, NEW s \in Attached, obj[Self].sock \in Attached,
           obj' = [obj EXCEPT ![Self].sock = s],
           UNCHANGED <<readline, buffer, line, reattached, misused>>,
           s \in Callable \cup Serving => obj[Self].sock \in Callable \cup Serving,
           obj[Self].sock \in Serving => s \in Serving
    PROVE  SocketInv'
<1> DEFINE r == obj[Self]
           v == [r EXCEPT !.sock = s]
<1>1. r \in Objects /\ r.life = "alive"
  <2>1. "NULL" \notin Attached
    BY DEF Attached, Callable
  <2> QED BY <2>1, Fields, SelfObject DEF SocketInv, ObjInv
<1>2. obj' = [obj EXCEPT ![Self] = v]
  OBVIOUS
<1>3. ObjectIs(v, r.life, r.held, r.rooted, s)
  BY <1>1, SockIs
<1>4. reattached' \in BOOLEAN /\ misused' \subseteq {"socket", "buffer", "parent"}
  BY DEF SocketInv, SocketTypeOK
<1>5. ~reattached' /\ s \in Callable \cup Serving => r.rooted
  BY DEF SocketInv, ObjInv
<1> HIDE DEF v
<1> QED BY <1>1, <1>2, <1>3, <1>4, <1>5, SelfObject, ObjectStepKeeps DEF ObjectIs

LEMMA ConnectedKeeps ==
    ASSUME SocketInv, Connected \/ Stopped PROVE SocketInv'
<1>1. CASE Connected
  BY <1>1, SelfStepKeeps DEF Connected, Attached, Callable, Serving
<1>2. CASE Stopped
  BY <1>2, SelfStepKeeps DEF Stopped, Attached, Callable, Serving
<1> QED BY <1>1, <1>2

LEMMA ClientAcceptedKeeps ==
    ASSUME SocketInv, NEW c \in Client, ClientAccepted(c) PROVE SocketInv'
<1> DEFINE v == [NewObject EXCEPT !.sock = "open", !.rooted = TRUE]
           b == [buffer[c] EXCEPT !.allocated = readline]
<1>1. v = [life |-> "alive", held |-> TRUE, rooted |-> TRUE, sock |-> "open"]
  <2>1. NewObject \in Objects
    BY DEF NewObject, Objects
  <2>2. \A s, f : [NewObject EXCEPT !.sock = s, !.rooted = f]
            = [life |-> NewObject.life, held |-> NewObject.held, rooted |-> f,
               sock |-> s]
    BY <2>1, AttachRecord, Zenon
  <2>3. v = [life |-> NewObject.life, held |-> NewObject.held, rooted |-> TRUE,
             sock |-> "open"]
    BY <2>2, Zenon
  <2> HIDE DEF v
  <2> QED BY <2>3 DEF NewObject
<1>2. /\ obj' = [obj EXCEPT ![c] = v] /\ obj[Self].sock = "listening"
      /\ buffer' = [buffer EXCEPT ![c] = b]
      /\ UNCHANGED <<readline, line, reattached, misused>>
  BY DEF ClientAccepted
<1> HIDE DEF v
<1>3. v \in Objects /\ v.life = "alive" /\ v.rooted
  BY <1>1 DEF Objects, Attached, Callable
<1>4. c \in Object /\ c # Self
  BY SelfObject
<1>5. obj' \in [Object -> Objects] /\ ObjInv'
  BY <1>2, <1>3, <1>4, ObjStep DEF SocketInv, Serving
<1>6. b \in Buffers /\ b.pos = buffer[c].pos
  <2>1. buffer[c] \in Buffers /\ readline \in BOOLEAN
    BY <1>4, Fields DEF SocketInv, SocketTypeOK
  <2>2. b = [allocated |-> readline, pos |-> buffer[c].pos]
    BY <2>1 DEF Buffers
  <2> HIDE DEF b
  <2> QED BY <2>1, <2>2 DEF Buffers
<1> HIDE DEF b
<1>7. SocketTypeOK'
  BY <1>2, <1>5, <1>6 DEF SocketInv, SocketTypeOK
<1>8. LineInv'
  <2> SUFFICES ASSUME NEW o \in Object PROVE Keeps(buffer'[o], line'[o])
    BY DEF LineInv
  <2>1. Keeps(buffer[o], line[o]) /\ line'[o] = line[o]
    BY <1>2 DEF SocketInv, LineInv
  <2>2. buffer'[o].pos = buffer[o].pos
    BY <1>2, <1>4, <1>6 DEF SocketInv, SocketTypeOK
  <2> QED BY <2>1, <2>2 DEF Keeps
<1> QED BY <1>2, <1>5, <1>7, <1>8 DEF SocketInv, ParentInv

LEMMA SelfDisconnectedKeeps ==
    ASSUME SocketInv, SelfDisconnected PROVE SocketInv'
<1> DEFINE r == obj[Self]
<1>1. PICK next \in {"NULL", "connecting", "listening", "failed"} :
            /\ obj' = [obj EXCEPT ![Self] = Detached(r, next)]
            /\ reattached' = (reattached \/ next # "NULL")
  BY Zenon DEF SelfDisconnected
<1>2. /\ UNCHANGED <<readline, buffer, line, misused>>
      /\ r.sock \in Callable /\ r \in Objects /\ r.life = "alive"
  <2>1. "NULL" \notin Callable
    BY DEF Callable
  <2> QED BY <2>1, Fields, SelfObject DEF SelfDisconnected, SocketInv, ObjInv
<1>3. ObjectIs(Detached(r, next), r.life, r.held, FALSE, next)
  <2>1. next \in Attached \cup {"NULL"}
    BY DEF Attached, Callable
  <2> QED BY <1>2, <2>1, AttachedIs
<1> DEFINE v == Detached(r, next)
<1>4. v \in Objects /\ v.life = "alive" /\ v.sock = next
  BY <1>2, <1>3 DEF ObjectIs
<1> HIDE DEF v
<1>5. ~reattached' => v.sock = "NULL"
  BY <1>1, <1>4
<1>6. "NULL" \notin Callable \cup Serving /\ r.sock \notin Serving
  BY <1>2 DEF Callable, Serving
<1>7. reattached' \in BOOLEAN /\ misused' \subseteq {"socket", "buffer", "parent"}
  BY <1>1, <1>2 DEF SocketInv, SocketTypeOK
<1>8. obj' = [obj EXCEPT ![Self] = v] /\ (reattached => reattached')
  BY <1>1 DEF v
<1> HIDE DEF r
<1> QED BY <1>2, <1>4, <1>5, <1>6, <1>7, <1>8, SelfObject, ObjectStepKeeps DEF r

LEMMA ClientDisconnectedKeeps ==
    ASSUME SocketInv, NEW c \in Client, ClientDisconnected(c) PROVE SocketInv'
<1> DEFINE r == obj[c]
           v == Detached(r, "NULL")
<1>1. /\ c \in Object /\ c # Self /\ r \in Objects /\ r.life = "alive"
      /\ UNCHANGED <<readline, buffer, line, reattached>>
  <2>1. "NULL" \notin Callable
    BY DEF Callable
  <2> QED BY <2>1, Fields, SelfObject DEF ClientDisconnected, SocketInv, ObjInv
<1>2. reattached' \in BOOLEAN
  BY <1>1 DEF SocketInv, SocketTypeOK
<1>3. CASE obj[Self].life = "alive"
  <2>1. obj' = [obj EXCEPT ![c] = v] /\ UNCHANGED misused
    BY <1>3, Zenon DEF ClientDisconnected
  <2>2. ObjectIs(v, r.life, r.held, FALSE, "NULL")
    BY <1>1, AttachedIs
  <2>3. "NULL" \notin Callable \cup Serving
    BY DEF Callable, Serving
  <2>4. misused' \subseteq {"socket", "buffer", "parent"}
    BY <2>1 DEF SocketInv, SocketTypeOK
  <2> HIDE DEF v
  <2> QED BY <1>1, <1>2, <2>1, <2>2, <2>3, <2>4, ObjectStepKeeps DEF ObjectIs
<1>4. CASE obj[Self].life # "alive"
  <2>1. misused' = misused \cup {"parent"} /\ UNCHANGED obj
    BY <1>4 DEF ClientDisconnected
  <2>2. obj[Self].sock = "NULL" /\ "NULL" \notin Serving
    BY <1>4, SelfObject DEF SocketInv, ObjInv, Serving
  <2>3. reattached
    BY <1>1, <2>2 DEF SocketInv, ObjInv
  <2> QED BY <1>1, <2>1, <2>3
          DEF SocketInv, SocketTypeOK, ObjInv, LineInv, ParentInv
<1> QED BY <1>3, <1>4

LEMMA ScriptDisconnectsKeeps ==
    ASSUME SocketInv, NEW o \in Object, ScriptDisconnects(o) PROVE SocketInv'
<1> DEFINE r == obj[o]
           s == CASE r.sock \in Callable -> "closing"
                  [] r.sock = "listening" -> "stopping"
                  [] OTHER -> r.sock
           v == [r EXCEPT !.sock = s]
<1>1. /\ r \in Objects /\ r.life = "alive" /\ r.sock # "NULL"
      /\ UNCHANGED <<readline, buffer, line, reattached>>
      /\ obj' = [obj EXCEPT ![o] = v]
  BY Fields DEF ScriptDisconnects, SocketInv
<1>2. /\ s \in Attached
      /\ s \in Callable \cup Serving => r.sock \in Callable \cup Serving
      /\ r.sock \in Serving => s \in Serving
  <2>1. r.sock \in Attached
    BY <1>1 DEF Objects
  <2>2. CASE r.sock \in Callable
    BY <2>2 DEF Attached, Callable, Serving
  <2>3. CASE r.sock = "listening"
    BY <2>3 DEF Attached, Callable, Serving
  <2>4. CASE r.sock \notin Callable /\ r.sock # "listening"
    <3>1. s = r.sock
      BY <2>4
    <3> HIDE DEF s
    <3> QED BY <2>1, <3>1
  <2> HIDE DEF s
  <2> QED BY <2>2, <2>3, <2>4
<1> HIDE DEF s
<1>3. ObjectIs(v, r.life, r.held, r.rooted, s)
  BY <1>1, <1>2, SockIs
<1>4. /\ misused' \subseteq {"socket", "buffer", "parent"}
      /\ reattached' \in BOOLEAN
      /\ "parent" \in misused' => "parent" \in misused
  BY <1>1 DEF ScriptDisconnects, SocketInv, SocketTypeOK
<1>5. o # Self /\ s \in Callable \cup Serving => r.rooted
  <2>1. o # Self => o \in Client
    BY DEF Object
  <2> QED BY <1>2, <2>1 DEF SocketInv, ObjInv
<1>6. o = Self /\ ~reattached' /\ s \in Callable \cup Serving => r.rooted
  BY <1>1, <1>2 DEF SocketInv, ObjInv
<1> HIDE DEF v
<1> QED BY <1>1, <1>2, <1>3, <1>4, <1>5, <1>6, ObjectStepKeeps DEF ObjectIs

LEMMA ScriptWritesKeeps ==
    ASSUME SocketInv, NEW o \in Object, ScriptWrites(o) PROVE SocketInv'
  BY DEF ScriptWrites, SocketInv, SocketTypeOK, ObjInv, LineInv, ParentInv

LEMMA DropKeeps ==
    ASSUME SocketInv, NEW o \in Object, Drop(o) PROVE SocketInv'
<1> DEFINE r == obj[o]
           v == [r EXCEPT !.held = FALSE]
<1>1. /\ r \in Objects /\ r.life = "alive"
      /\ UNCHANGED <<readline, buffer, line, reattached, misused>>
      /\ obj' = [obj EXCEPT ![o] = v]
  BY Fields DEF Drop, SocketInv, ObjInv
<1>2. ObjectIs(v, r.life, FALSE, r.rooted, r.sock)
  <2>1. \A h : [r EXCEPT !.held = h]
            = [life |-> r.life, held |-> h, rooted |-> r.rooted, sock |-> r.sock]
    BY <1>1 DEF Objects
  <2>2. v = [life |-> r.life, held |-> FALSE, rooted |-> r.rooted,
             sock |-> r.sock]
    BY <2>1, Zenon
  <2> HIDE DEF v
  <2> QED BY <1>1, <2>2 DEF ObjectIs, Objects
<1>3. /\ misused' \subseteq {"socket", "buffer", "parent"}
      /\ reattached' \in BOOLEAN
  BY <1>1 DEF SocketInv, SocketTypeOK
<1>4. o # Self /\ r.sock \in Callable \cup Serving => r.rooted
  <2>1. o # Self => o \in Client
    BY DEF Object
  <2> QED BY <2>1 DEF SocketInv, ObjInv
<1>5. o = Self /\ ~reattached' /\ r.sock \in Callable \cup Serving => r.rooted
  BY <1>1 DEF SocketInv, ObjInv
<1> HIDE DEF v
<1> QED BY <1>1, <1>2, <1>3, <1>4, <1>5, ObjectStepKeeps DEF ObjectIs

\* A step that leaves an object with another buffer and another line.
LEMMA LineStep ==
    ASSUME SocketTypeOK, LineInv, NEW x \in Object, NEW b \in Buffers,
           NEW l \in Lines, Keeps(b, l),
           buffer' = [buffer EXCEPT ![x] = b], line' = [line EXCEPT ![x] = l]
    PROVE  /\ buffer' \in [Object -> Buffers] /\ line' \in [Object -> Lines]
           /\ LineInv'
<1>1. /\ buffer' \in [Object -> Buffers] /\ line' \in [Object -> Lines]
      /\ buffer'[x] = b /\ line'[x] = l
      /\ \A o \in Object \ {x} : buffer'[o] = buffer[o] /\ line'[o] = line[o]
  BY DEF SocketTypeOK
<1>2. ASSUME NEW o \in Object PROVE Keeps(buffer'[o], line'[o])
  BY <1>1 DEF LineInv
<1> QED BY <1>1, <1>2 DEF LineInv

LEMMA EmptyKeeps ==
    Empty \in Buffers /\ NewLine \in Lines /\ Keeps(Empty, NewLine)
  BY SocketAssumption DEF Empty, NewLine, Buffers, Lines, Keeps

LEMMA CollectKeeps ==
    ASSUME SocketInv, NEW o \in Object, Collect(o) PROVE SocketInv'
<1> DEFINE r == obj[o]
           v == [r EXCEPT !.life = "deleted", !.sock = "NULL"]
<1>1. /\ r \in Objects /\ r.life = "alive" /\ ~r.held /\ ~r.rooted
      /\ obj' = [obj EXCEPT ![o] = v]
      /\ UNCHANGED <<readline, reattached>>
  BY Fields, Zenon DEF Collect, SocketInv
<1>2. ObjectIs(v, "deleted", FALSE, FALSE, "NULL")
  <2>1. ObjectIs(v, "deleted", r.held, r.rooted, "NULL")
    BY <1>1, CollectedIs
  <2> HIDE DEF v
  <2> QED BY <1>1, <2>1 DEF ObjectIs
<1>3. o = Self /\ ~reattached' => r.sock \notin Serving
  BY <1>1 DEF SocketInv, ObjInv
<1>4. "NULL" \notin Callable \cup Serving
  BY DEF Callable, Serving
<1> HIDE DEF v
<1>5. obj' \in [Object -> Objects] /\ ObjInv'
  BY <1>1, <1>2, <1>3, <1>4, ObjStep DEF SocketInv, ObjectIs
<1>6. /\ buffer' \in [Object -> Buffers] /\ line' \in [Object -> Lines]
      /\ LineInv'
  <2>1. /\ buffer' = [buffer EXCEPT ![o] = Empty]
        /\ line' = [line EXCEPT ![o] = NewLine]
    BY DEF Collect
  <2> QED BY <2>1, EmptyKeeps, LineStep DEF SocketInv
<1>7. /\ misused' \subseteq {"socket", "buffer", "parent"}
      /\ "parent" \in misused' => "parent" \in misused
  BY DEF Collect, SocketInv, SocketTypeOK
<1>8. SocketTypeOK'
  BY <1>1, <1>5, <1>6, <1>7 DEF SocketInv, SocketTypeOK
<1> QED BY <1>1, <1>5, <1>6, <1>7, <1>8 DEF SocketInv, ParentInv

\* The line with the rest of a packet is whole in the buffer, or too long.
LEMMA SavedKeeps ==
    ASSUME NEW b \in Buffers, NEW l \in Lines, Keeps(b, l), NEW rest \in Nat
    PROVE  /\ Saved(b, rest) \in Buffers
           /\ [size |-> Longer(l.size, rest),
               lost |-> l.lost \/ rest + b.pos > MaxLine] \in Lines
           /\ Keeps(Saved(b, rest),
                    [size |-> Longer(l.size, rest),
                     lost |-> l.lost \/ rest + b.pos > MaxLine])
<1> DEFINE pos == IF rest + b.pos <= MaxLine THEN b.pos + rest ELSE 0
           size == Longer(l.size, rest)
           lost == l.lost \/ rest + b.pos > MaxLine
           l2 == [size |-> size, lost |-> lost]
<1>1. /\ MaxLine \in Nat /\ b.pos \in 0..MaxLine /\ l.size \in 0..MaxLine + 1
      /\ l.lost \in BOOLEAN /\ b.allocated \in BOOLEAN
      /\ IF l.lost THEN l.size > MaxLine ELSE b.pos = l.size
  BY SocketAssumption DEF Buffers, Lines, Keeps
<1>2. Saved(b, rest) = [allocated |-> b.allocated, pos |-> pos]
  BY DEF Saved, Buffers
<1>3. pos \in 0..MaxLine
  BY <1>1
<1>4. size \in 0..MaxLine + 1 /\ lost \in BOOLEAN
  BY <1>1 DEF Longer
<1>5. IF lost THEN size > MaxLine ELSE pos = size
  <2>1. CASE l.lost
    BY <1>1, <2>1 DEF Longer
  <2>2. CASE ~l.lost
    BY <1>1, <2>2 DEF Longer
  <2> QED BY <2>1, <2>2
<1> HIDE DEF pos, size, lost
<1>6. Saved(b, rest) \in Buffers /\ Saved(b, rest).pos = pos
  BY <1>1, <1>2, <1>3 DEF Buffers
<1>7. l2 \in Lines /\ l2.size = size /\ (l2.lost <=> lost)
  BY <1>4 DEF Lines
<1> HIDE DEF l2
<1>8. Keeps(Saved(b, rest), l2)
  BY <1>1, <1>3, <1>5, <1>6, <1>7 DEF Keeps
<1> QED BY <1>6, <1>7, <1>8 DEF l2, size, lost

LEMMA ReadKeeps ==
    ASSUME SocketInv, NEW o \in Object, Read(o) PROVE SocketInv'
<1>1. CASE UNCHANGED socketVars
  BY <1>1 DEF socketVars, SocketInv, SocketTypeOK, ObjInv, LineInv, ParentInv
<1>2. ASSUME NEW ends \in BOOLEAN, NEW on \in BOOLEAN, NEW rest \in 0..MaxBytes,
             ReadLines(o, ends, rest, on)
      PROVE  SocketInv'
  <2> DEFINE b == IF ends THEN [buffer[o] EXCEPT !.pos = 0] ELSE buffer[o]
             now == IF ends THEN NewLine ELSE line[o]
  <2>1. UNCHANGED <<obj, reattached>> /\ readline' \in BOOLEAN
    BY <1>2 DEF ReadLines, SocketInv, SocketTypeOK
  <2>2. b \in Buffers /\ now \in Lines /\ Keeps(b, now)
    <3>1. CASE ends
      <4>1. buffer[o] \in Buffers
        BY Fields DEF SocketInv
      <4>2. [buffer[o] EXCEPT !.pos = 0]
              = [allocated |-> buffer[o].allocated, pos |-> 0]
        BY <4>1 DEF Buffers
      <4>3. b = [allocated |-> buffer[o].allocated, pos |-> 0]
        BY <3>1, <4>2
      <4> HIDE DEF b
      <4>4. b \in Buffers /\ Keeps(b, NewLine)
        BY <4>1, <4>3, SocketAssumption DEF Buffers, Keeps, NewLine
      <4> QED BY <3>1, <4>4, EmptyKeeps
    <3>2. CASE ~ends
      BY <3>2, Fields DEF SocketInv, LineInv
    <3> QED BY <3>1, <3>2
  <2>3. CASE rest > 0 /\ ~b.allocated
    <3>1. misused' = misused \cup {"buffer"} /\ UNCHANGED <<buffer, line>>
      BY <1>2, <2>3, Zenon DEF ReadLines
    <3> QED BY <2>1, <3>1
            DEF SocketInv, SocketTypeOK, ObjInv, LineInv, ParentInv
  <2>4. CASE ~(rest > 0 /\ ~b.allocated)
    <3> DEFINE l == [size |-> Longer(now.size, rest),
                     lost |-> now.lost \/ rest + b.pos > MaxLine]
    <3>1. /\ buffer' = [buffer EXCEPT ![o] = Saved(b, rest)]
          /\ line' = [line EXCEPT ![o] = l] /\ UNCHANGED misused
      BY <1>2, <2>4, Zenon DEF ReadLines
    <3>2. Saved(b, rest) \in Buffers /\ l \in Lines /\ Keeps(Saved(b, rest), l)
      <4>1. rest \in Nat
        BY SocketAssumption
      <4> HIDE DEF b, now
      <4> QED BY <2>2, <4>1, SavedKeeps
    <3> HIDE DEF b, l
    <3>3. /\ buffer' \in [Object -> Buffers] /\ line' \in [Object -> Lines]
          /\ LineInv'
      BY <3>1, <3>2, LineStep DEF SocketInv
    <3> QED BY <2>1, <3>1, <3>3 DEF SocketInv, SocketTypeOK, ObjInv, ParentInv
  <2> QED BY <2>3, <2>4
<1>3. CASE obj[Self].life # "alive"
  <2>1. /\ misused' = misused \cup {"parent"}
        /\ UNCHANGED <<obj, readline, buffer, line, reattached>>
        /\ obj[o].sock \in Callable
    BY <1>3 DEF Read, Callable
  <2>2. /\ obj[Self].sock = "NULL" /\ "NULL" \notin Serving
        /\ "NULL" \notin Callable
    BY <1>3, SelfObject DEF SocketInv, ObjInv, Serving, Callable
  <2>3. o \in Client /\ obj[o].life = "alive"
    BY <2>1, <2>2 DEF Object, SocketInv, ObjInv
  <2>4. reattached
    BY <2>2, <2>3 DEF SocketInv, ObjInv
  <2> QED BY <2>1, <2>4
          DEF SocketInv, SocketTypeOK, ObjInv, LineInv, ParentInv
<1> QED BY <1>1, <1>2, <1>3 DEF Read

LEMMA SetReadlineKeeps ==
    ASSUME SocketInv, NEW on \in BOOLEAN, SetReadline(on) PROVE SocketInv'
<1> DEFINE b == [buffer[Self] EXCEPT !.allocated = TRUE]
<1>1. UNCHANGED <<obj, line, reattached, misused>> /\ readline' = on
  BY DEF SetReadline
<1>2. CASE on
  <2>1. b = [allocated |-> TRUE, pos |-> buffer[Self].pos]
        /\ buffer[Self] \in Buffers
    <3>1. buffer[Self] \in Buffers
      BY Fields, SelfObject DEF SocketInv
    <3>2. \A a : [buffer[Self] EXCEPT !.allocated = a]
                    = [allocated |-> a, pos |-> buffer[Self].pos]
      BY <3>1 DEF Buffers
    <3> QED BY <3>1, <3>2, Zenon
  <2>2. /\ buffer' = [buffer EXCEPT ![Self] = b]
        /\ line' = [line EXCEPT ![Self] = line[Self]]
    BY <1>1, <1>2 DEF SetReadline, SocketInv, SocketTypeOK
  <2> HIDE DEF b
  <2>3. b \in Buffers /\ line[Self] \in Lines /\ Keeps(b, line[Self])
    <3>1. Keeps(buffer[Self], line[Self]) /\ line[Self] \in Lines
      BY Fields, SelfObject DEF SocketInv, LineInv
    <3> QED BY <2>1, <3>1 DEF Buffers, Keeps
  <2>4. /\ buffer' \in [Object -> Buffers] /\ line' \in [Object -> Lines]
        /\ LineInv'
    BY <2>2, <2>3, SelfObject, LineStep DEF SocketInv
  <2> QED BY <1>1, <2>4 DEF SocketInv, SocketTypeOK, ObjInv, ParentInv
<1>3. CASE ~on
  BY <1>1, <1>3 DEF SetReadline, SocketInv, SocketTypeOK, ObjInv, LineInv, ParentInv
<1> QED BY <1>2, <1>3
-----------------------------------------------------------------------------
(* The theorems *)

LEMMA InitSocketInv == SocketInit => SocketInv
<1> SUFFICES ASSUME SocketInit PROVE SocketInv
  OBVIOUS
<1> DEFINE none == [NewObject EXCEPT !.life = "none", !.held = FALSE]
<1>1. /\ NewObject \in Objects /\ NewObject.life = "alive"
      /\ NewObject.sock = "NULL"
  BY DEF NewObject, Objects
<1>2. none = [life |-> "none", held |-> FALSE, rooted |-> FALSE, sock |-> "NULL"]
  <2>1. \A a, h : [NewObject EXCEPT !.life = a, !.held = h]
            = [life |-> a, held |-> h, rooted |-> NewObject.rooted,
               sock |-> NewObject.sock]
    BY <1>1, NoneRecord, Zenon
  <2>2. none = [life |-> "none", held |-> FALSE, rooted |-> NewObject.rooted,
                sock |-> NewObject.sock]
    BY <2>1, Zenon
  <2> HIDE DEF none
  <2> QED BY <2>2 DEF NewObject
<1> HIDE DEF none
<1>3. none \in Objects /\ none.life = "none" /\ ~none.held /\ none.sock = "NULL"
  BY <1>2 DEF Objects
<1>4. /\ obj = [o \in Object |-> IF o = Self THEN NewObject ELSE none]
      /\ buffer = [o \in Object |-> Empty] /\ line = [o \in Object |-> NewLine]
      /\ readline = FALSE /\ reattached = FALSE /\ misused = {}
  BY Zenon DEF SocketInit, none
<1>5. SocketTypeOK
  BY <1>1, <1>3, <1>4, EmptyKeeps DEF SocketTypeOK
<1>6. ObjInv
  <2>1. "NULL" \notin Callable \cup Serving
    BY DEF Callable, Serving
  <2>2. obj[Self] = NewObject /\ \A c \in Client : obj[c] = none
    BY <1>4, SelfObject
  <2>3. \A o \in Object : obj[o] = NewObject \/ obj[o] = none
    BY <1>4
  <2> QED BY <1>1, <1>3, <2>1, <2>2, <2>3 DEF ObjInv
<1>7. LineInv /\ ParentInv
  BY <1>4, EmptyKeeps DEF LineInv, ParentInv
<1> QED BY <1>5, <1>6, <1>7 DEF SocketInv

LEMMA NextSocketInv == SocketInv /\ [SocketNext]_socketVars => SocketInv'
<1> SUFFICES ASSUME SocketInv, [SocketNext]_socketVars PROVE SocketInv'
  OBVIOUS
<1>1. CASE UNCHANGED socketVars
  BY <1>1 DEF socketVars, SocketInv, SocketTypeOK, ObjInv, LineInv, ParentInv
<1>2. CASE Connect \/ Listen
  BY <1>2, ConnectKeeps
<1>3. CASE Connected \/ Stopped
  BY <1>3, ConnectedKeeps
<1>4. CASE SelfDisconnected
  BY <1>4, SelfDisconnectedKeeps
<1>5. ASSUME NEW c \in Client, ClientAccepted(c) \/ ClientDisconnected(c)
      PROVE  SocketInv'
  BY <1>5, ClientAcceptedKeeps, ClientDisconnectedKeeps
<1>6. ASSUME NEW o \in Object,
             \/ ScriptDisconnects(o) \/ ScriptWrites(o)
             \/ Drop(o) \/ Collect(o) \/ Read(o)
      PROVE  SocketInv'
  BY <1>6, ScriptDisconnectsKeeps, ScriptWritesKeeps, DropKeeps, CollectKeeps,
     ReadKeeps
<1>7. ASSUME NEW on \in BOOLEAN, SetReadline(on) PROVE SocketInv'
  BY <1>7, SetReadlineKeeps
<1> QED BY <1>1, <1>2, <1>3, <1>4, <1>5, <1>6, <1>7, Zenon DEF SocketNext

\* Every state of the Socket of scripts and its clients keeps the invariant.
THEOREM SocketInvariance == SocketSpec => []SocketInv
  BY InitSocketInv, NextSocketInv, PTL DEF SocketSpec

\* Every variable has its type, the position in the line buffer too.
THEOREM SocketTypeCorrect == SocketSpec => []SocketTypeOK
<1>1. SocketInv => SocketTypeOK
  BY DEF SocketInv
<1> QED BY <1>1, SocketInvariance, PTL

\* What a socket may call is not collected, and a client finds its server.
THEOREM Attachment == SocketSpec => []AttachedIsSafe
<1>1. SocketInv => AttachedIsSafe
  <2> SUFFICES ASSUME SocketInv PROVE AttachedIsSafe
    OBVIOUS
  <2>1. ASSUME NEW o \in Object, obj[o].sock \in Callable \cup {"listening"}
        PROVE  obj[o].rooted \/ (o = Self /\ reattached)
    BY <2>1 DEF SocketInv, ObjInv, Object, Serving
  <2> QED BY <2>1 DEF AttachedIsSafe, SocketInv, ParentInv
<1> QED BY <1>1, SocketInvariance, PTL

\* The line buffer has the line that the next delimiter delivers, unless that
\* is too long for it.
THEOREM Buffered == SocketSpec => []LineBufferHasTheLine
<1>1. SocketInv => LineBufferHasTheLine
  BY DEF SocketInv, LineInv, Keeps, LineBufferHasTheLine
<1> QED BY <1>1, SocketInvariance, PTL
-----------------------------------------------------------------------------
(* The Thread of scripts: what its thread uses is there.                    *)

Started(t) == thread[t].pc # "none"
Runs(t) == thread[t].pc \notin {"none", "over"}
HasRuntime(t) ==
    thread[t].pc \in {"ready", "running", "returned", "posted", "unrooted",
                      "destroyed"}

\* Threads are started in their order, and with parameters.
StartInv ==
    /\ \A t \in Starts : Started(t) => \A s \in 1..t - 1 : Started(s)
    /\ \A t \in Starts : Started(t) => params # 0
    /\ runtime # 0 => Started(runtime)

\* What was rooted for a thread stays so until the program ends: before that
\* the object is deleted only if it was never started.
RootInv ==
    /\ object.rooted => ended \/ "instance" \in roots
    /\ \A t \in Starts :
            Started(t) => ended \/ "instance" \in roots \/ main = "rooting"
    /\ main = "rooting" => ~ended
    /\ main \in {"interrupting", "joining"} => ended
    /\ "runtime" \in stale => ended
    /\ object.life = "deleted" /\ ~ended =>
            ~object.held /\ \A t \in Starts : ~Started(t)

\* One thread runs at a time, unless start() is called again too early.  The
\* parameters are its own, and m_JsRuntime, from when it has one.
OneInv ==
    "again" \notin hasty =>
        /\ \A t \in Starts :
                Started(t) => \A s \in 1..t - 1 : thread[s].pc = "over"
        /\ \A t \in Starts : Runs(t) => params = t
        /\ \A t \in Starts : HasRuntime(t) => runtime = t
        /\ \A t \in freed : HasRuntime(t) \/ thread[t].pc = "over"
        /\ \A t \in freed : thread[t].pc \notin {"ready", "running"}
        /\ "params" \notin stale
        /\ "early" \notin hasty =>
            /\ "object" \notin stale
            /\ object.life = "deleted" => \A t \in Starts : ~Runs(t)

ThreadInv == ThreadTypeOK /\ StartInv /\ RootInv /\ OneInv

\* What is posted in a queue or taken from it.
LEMMA QueueOf ==
    ASSUME NEW T, NEW q \in Seq(T)
    PROVE  /\ <<>> \in Seq(T)
           /\ q # <<>> => Head(q) \in T /\ Tail(q) \in Seq(T)
           /\ \A x \in T : Append(q, x) \in Seq(T)
  OBVIOUS

Posts == [from : Starts, event : {"message", "complete"}]
Threads == [pc : {"none", "created", "ready", "running", "returned", "posted",
                  "unrooted", "destroyed", "over"},
            sent : 0..MaxSends, failed : BOOLEAN]

LEMMA InitThreadInv == ThreadInit => ThreadInv
<1> SUFFICES ASSUME ThreadInit PROVE ThreadInv
  OBVIOUS
<1>1. ThreadTypeOK
  <2>1. inbox \in Seq([from : Starts, event : {"message", "complete"}])
    BY DEF ThreadInit
  <2>2. thread \in [Starts -> Threads]
    BY ThreadAssumption DEF ThreadInit, Threads
  <2>3. heard \in [Starts -> {"nothing", "complete"}]
    BY DEF ThreadInit
  <2>4. /\ runtime \in 0..MaxStarts /\ params \in 0..MaxStarts
        /\ object \in [life : {"alive", "deleted"}, held : BOOLEAN,
                       rooted : BOOLEAN, marked : BOOLEAN]
    BY ThreadAssumption DEF ThreadInit
  <2>5. /\ roots \subseteq {"instance", "function"} /\ ended \in BOOLEAN
        /\ main \in {"idle", "rooting", "interrupting", "joining"}
        /\ freed = {} /\ stale = {} /\ hasty = {}
    BY DEF ThreadInit
  <2> QED BY <2>1, <2>2, <2>3, <2>4, <2>5 DEF ThreadTypeOK, Threads
<1>2. \A t \in Starts : ~Started(t) /\ ~Runs(t) /\ ~HasRuntime(t)
  BY DEF ThreadInit, Started, Runs, HasRuntime
<1>3. StartInv /\ RootInv /\ OneInv
  BY <1>2 DEF ThreadInit, StartInv, RootInv, OneInv
<1> QED BY <1>1, <1>3 DEF ThreadInv

\* What an action makes of the thread t: it goes on, or fails.
LEMMA GoesOn ==
    ASSUME ThreadTypeOK, NEW t \in Starts,
           NEW pc \in {"created", "ready", "running", "returned", "posted",
                       "unrooted", "destroyed", "over"},
           \/ thread' = [thread EXCEPT ![t].pc = pc]
           \/ thread' = [thread EXCEPT ![t].pc = pc, ![t].failed = TRUE]
    PROVE  /\ thread'[t].pc = pc
           /\ \A s \in Starts \ {t} : thread'[s] = thread[s]
           /\ thread' \in [Starts -> Threads]
<1>1. thread \in [Starts -> Threads]
  BY DEF ThreadTypeOK, Threads
<1>2. CASE thread' = [thread EXCEPT ![t].pc = pc]
  <2>1. [thread[t] EXCEPT !.pc = pc] \in Threads
    BY <1>1 DEF Threads
  <2> QED BY <1>1, <1>2, <2>1 DEF Threads
<1>3. CASE thread' = [thread EXCEPT ![t].pc = pc, ![t].failed = TRUE]
  <2>1. \A r \in Threads :
            /\ [r EXCEPT !.pc = pc] \in Threads
            /\ [r EXCEPT !.failed = TRUE] \in Threads
            /\ [r EXCEPT !.failed = TRUE].pc = r.pc
    BY DEF Threads
  <2>2. \A f \in [Starts -> Threads] :
            /\ [f EXCEPT ![t].failed = TRUE] \in [Starts -> Threads]
            /\ [f EXCEPT ![t].failed = TRUE][t].pc = f[t].pc
            /\ \A s \in Starts \ {t} : [f EXCEPT ![t].failed = TRUE][s] = f[s]
    BY <2>1
  <2> DEFINE g == [thread EXCEPT ![t].pc = pc]
  <2>3. /\ g \in [Starts -> Threads] /\ g[t].pc = pc
        /\ \A s \in Starts \ {t} : g[s] = thread[s]
    BY <1>1, <2>1 DEF Threads
  <2>4. thread' = [g EXCEPT ![t].failed = TRUE]
    BY <1>3
  <2> HIDE DEF g
  <2> QED BY <2>2, <2>3, <2>4
<1> QED BY <1>2, <1>3

LEMMA ThreadTypes ==
    ThreadTypeOK => thread \in [Starts -> Threads] /\ inbox \in Seq(Posts)
  BY DEF ThreadTypeOK, Threads, Posts

LEMMA GoneIs ==
    ASSUME ThreadTypeOK
    PROVE  /\ Gone \in [life : {"alive", "deleted"}, held : BOOLEAN,
                         rooted : BOOLEAN, marked : BOOLEAN]
           /\ Gone.life = "deleted" /\ Gone.held = object.held
           /\ ~Gone.rooted
<1> DEFINE g == [life |-> "deleted", held |-> object.held, rooted |-> FALSE,
                 marked |-> TRUE]
<1>1. g \in [life : {"alive", "deleted"}, held : BOOLEAN,
             rooted : BOOLEAN, marked : BOOLEAN]
  BY DEF ThreadTypeOK
<1>2. Gone = g
  <2>1. Gone = [z \in DOMAIN object |->
                    IF z = "marked" THEN TRUE
                    ELSE IF z = "rooted" THEN FALSE
                    ELSE IF z = "life" THEN "deleted" ELSE object[z]]
    BY ExceptThree, Zenon DEF Gone
  <2> QED BY <2>1 DEF ThreadTypeOK
<1> QED BY <1>1, <1>2

\* ~JSThread() deletes the object, or waits for its thread to do so.
LEMMA DeleteTypes ==
    ASSUME ThreadTypeOK, Delete
    PROVE  /\ object' \in [life : {"alive", "deleted"}, held : BOOLEAN,
                           rooted : BOOLEAN, marked : BOOLEAN]
           /\ main' \in {main, "interrupting"} /\ inbox' \in {inbox, <<>>}
           /\ hasty' \subseteq {"again", "early"}
<1>1. object' \in [life : {"alive", "deleted"}, held : BOOLEAN,
                   rooted : BOOLEAN, marked : BOOLEAN]
  <2>1. CASE runtime # 0
    <3>1. object' = [object EXCEPT !.marked = TRUE]
      BY <2>1 DEF Delete
    <3> QED BY <3>1 DEF ThreadTypeOK
  <2>2. CASE runtime = 0
    <3>1. object' = Gone
      BY <2>2 DEF Delete
    <3> QED BY <3>1, GoneIs
  <2> QED BY <2>1, <2>2
<1>2. main' \in {main, "interrupting"} /\ inbox' \in {inbox, <<>>}
  BY DEF Delete
<1>3. hasty' \subseteq {"again", "early"}
  BY DEF Delete, ThreadTypeOK
<1> QED BY <1>1, <1>2, <1>3

LEMMA ThreadTypeStep ==
    ASSUME ThreadInv, [ThreadNext]_threadVars PROVE ThreadTypeOK'
<1> USE ThreadAssumption
<1>0. ThreadTypeOK /\ \A t \in Starts : t \in 0..MaxStarts
  BY DEF ThreadInv, Starts
<1>a. inbox \in Seq(Posts) /\ <<>> \in Seq(Posts)
  BY <1>0, ThreadTypes
<1>1. CASE UNCHANGED threadVars
  BY <1>0, <1>1 DEF threadVars, ThreadTypeOK
<1>2. CASE Start
  <2>1. PICK t \in Starts :
           /\ thread' = [thread EXCEPT ![t].pc = "created"] /\ params' = t
           /\ hasty' = IF \A s \in 1..t - 1 : thread[s].pc = "over" THEN hasty
                       ELSE hasty \cup {"again"}
    BY <1>2 DEF Start
  <2>2. hasty' \subseteq {"again", "early"}
    BY <1>0, <2>1 DEF ThreadTypeOK
  <2> QED BY <1>0, <1>2, <2>1, <2>2, GoesOn DEF Start, ThreadTypeOK, Threads
<1>3. CASE Root
  BY <1>0, <1>3 DEF Root, ThreadTypeOK
<1>4. CASE Hear
  <2>1. inbox' \in Seq(Posts) /\ Head(inbox) \in Posts
    BY <1>a, <1>4, QueueOf DEF Hear
  <2>2. Head(inbox).from \in Starts
    BY <2>1 DEF Posts
  <2>3. heard' \in [Starts -> {"nothing", "complete"}]
    BY <1>0, <1>4, <2>2 DEF Hear, ThreadTypeOK
  <2> QED BY <1>0, <1>4, <2>1, <2>3 DEF Hear, ThreadTypeOK, Posts
<1>5. CASE DropThread
  BY <1>0, <1>5 DEF DropThread, ThreadTypeOK
<1>6. CASE CollectThread
  BY <1>0, <1>a, <1>6, DeleteTypes DEF CollectThread, ThreadTypeOK, Posts
<1>7. CASE EndProgram
  BY <1>0, <1>a, <1>7, DeleteTypes DEF EndProgram, ThreadTypeOK, Posts
<1>8. CASE Interrupt
  BY <1>0, <1>8 DEF Interrupt, ThreadTypeOK
<1>9. CASE Join
  BY <1>0, <1>a, <1>9, GoneIs DEF Join, ThreadTypeOK, Posts
<1>10. ASSUME NEW t \in Starts, Stray(t) \/ Ready(t) \/ Compile(t)
       PROVE  ThreadTypeOK'
  <2>1. thread' \in [Starts -> Threads]
    BY <1>0, <1>10, GoesOn, Zenon DEF Stray, Ready, Compile, Goes, Fails
  <2> QED BY <1>0, <1>10, <2>1
          DEF Stray, Ready, Compile, Threads, ThreadTypeOK
<1>11. ASSUME NEW t \in Starts, PostMessage(t) PROVE ThreadTypeOK'
  <2>1. thread' \in [Starts -> Threads]
    <3>1. /\ thread[t] \in Threads /\ thread[t].sent + 1 \in 0..MaxSends
          /\ thread' = [thread EXCEPT ![t].sent = @ + 1]
      BY <1>0, <1>11, ThreadTypes DEF PostMessage, Threads
    <3>2. [thread[t] EXCEPT !.sent = @ + 1] \in Threads
      BY <3>1 DEF Threads
    <3> QED BY <1>0, <3>1, <3>2, ThreadTypes
  <2>2. inbox' \in Seq(Posts)
    <3>1. [from |-> t, event |-> "message"] \in Posts
      BY DEF Posts
    <3> QED BY <1>a, <1>11, <3>1, QueueOf DEF PostMessage
  <2> QED BY <1>0, <1>11, <2>1, <2>2 DEF PostMessage, ThreadTypeOK, Posts, Threads
<1>12. ASSUME NEW t \in Starts, Return(t) PROVE ThreadTypeOK'
  <2>1. params \in Starts
    BY <1>0, <1>12 DEF Return, At, ThreadInv, StartInv, Started, Starts,
                       ThreadTypeOK
  <2>2. thread' \in [Starts -> Threads]
    BY <1>0, <1>12, GoesOn DEF Return, Goes
  <2>3. freed' \subseteq Starts /\ stale' \subseteq {"object", "runtime",
                                                   "params", "function"}
    BY <1>0, <1>12, <2>1 DEF Return, ThreadTypeOK
  <2> QED BY <1>0, <1>12, <2>2, <2>3 DEF Return, ThreadTypeOK, Threads
<1>13. ASSUME NEW t \in Starts, Complete(t) PROVE ThreadTypeOK'
  <2>1. inbox' \in Seq(Posts)
    <3>1. [from |-> t, event |-> "complete"] \in Posts
      BY DEF Posts
    <3> QED BY <1>a, <1>13, <3>1, QueueOf DEF Complete
  <2> QED BY <1>0, <1>13, <2>1, GoesOn
      DEF Complete, Goes, ThreadTypeOK, Posts, Threads
<1>14. ASSUME NEW t \in Starts, Unroot(t) \/ DestroyRuntime(t) \/ Forget(t)
       PROVE  ThreadTypeOK'
  <2>1. thread' \in [Starts -> Threads]
    BY <1>0, <1>14, GoesOn, Zenon DEF Unroot, DestroyRuntime, Forget, Goes
  <2>2. runtime' \in 0..MaxStarts
    BY <1>0, <1>14 DEF Unroot, DestroyRuntime, Forget, ThreadTypeOK
  <2>3. object' \in [life : {"alive", "deleted"}, held : BOOLEAN,
                     rooted : BOOLEAN, marked : BOOLEAN]
    BY <1>0, <1>14 DEF Unroot, DestroyRuntime, Forget, ThreadTypeOK
  <2>4. roots' = roots /\ UNCHANGED <<main, ended, params, freed, inbox, heard,
                                     stale, hasty>>
    BY <1>14 DEF Unroot, DestroyRuntime, Forget
  <2> QED BY <1>0, <2>1, <2>2, <2>3, <2>4 DEF Threads, ThreadTypeOK
<1> QED
  BY <1>1, <1>2, <1>3, <1>4, <1>5, <1>6, <1>7, <1>8, <1>9, <1>10, <1>11,
     <1>12, <1>13, <1>14
  DEF ThreadNext

\* A step of the thread of t.
StepOf(t) ==
    \/ Stray(t) \/ Ready(t) \/ Compile(t) \/ PostMessage(t) \/ Return(t)
    \/ Complete(t) \/ Unroot(t) \/ DestroyRuntime(t) \/ Forget(t)

LEMMA StepLeaves ==
    ASSUME ThreadInv, NEW t \in Starts, StepOf(t)
    PROVE  /\ Runs(t) /\ thread'[t].pc # "none"
           /\ \A s \in Starts \ {t} : thread'[s] = thread[s]
           /\ UNCHANGED <<main, ended, roots, hasty, params>>
           /\ object'.life = object.life /\ object'.held = object.held
           /\ object'.rooted => object.rooted
           /\ HasRuntime(t)' =>
                \/ HasRuntime(t) /\ runtime' = runtime
                \/ thread[t].pc = "created" /\ runtime' = t
           /\ runtime' \in {runtime, t, 0}
<1>1. ThreadTypeOK
  BY DEF ThreadInv
<1>2. Runs(t)
  BY DEF StepOf, Stray, Ready, Compile, PostMessage, Return, Complete, Unroot,
         DestroyRuntime, Forget, At, Runs
<1>3. CASE PostMessage(t)
  <2>1. /\ thread[t] \in Threads
        /\ thread' = [thread EXCEPT ![t].sent = thread[t].sent + 1]
    BY <1>1, <1>3, ThreadTypes DEF PostMessage
  <2>2. /\ thread'[t].pc = thread[t].pc
        /\ \A s \in Starts \ {t} : thread'[s] = thread[s]
    BY <1>1, <2>1, ThreadTypes DEF Threads
  <2> QED BY <1>2, <1>3, <2>2 DEF PostMessage, At, Runs, HasRuntime
<1>4. CASE Stray(t) \/ Ready(t) \/ Compile(t)
  <2>1. /\ thread'[t].pc # "none"
        /\ \A s \in Starts \ {t} : thread'[s] = thread[s]
    BY <1>1, <1>4, GoesOn, Zenon DEF Stray, Ready, Compile, Goes, Fails
  <2>2. HasRuntime(t)' => \/ HasRuntime(t) /\ runtime' = runtime
                          \/ thread[t].pc = "created" /\ runtime' = t
    <3>1. CASE Goes(t, "over") \/ Fails(t)
      <4>1. thread'[t].pc = "over"
        BY <1>1, <3>1, GoesOn, Zenon DEF Goes, Fails
      <4> QED BY <4>1 DEF HasRuntime
    <3>2. CASE Ready(t) /\ ~Fails(t)
      BY <3>2 DEF Ready, At
    <3>3. CASE Compile(t) /\ ~Fails(t)
      BY <3>3 DEF Compile, At, HasRuntime
    <3> QED BY <1>4, <3>1, <3>2, <3>3 DEF Stray
  <2> QED BY <1>2, <1>4, <2>1, <2>2 DEF Stray, Ready, Compile
<1>5. CASE \/ Return(t) \/ Complete(t) \/ Unroot(t) \/ DestroyRuntime(t)
           \/ Forget(t)
  <2>1. /\ thread'[t].pc # "none"
        /\ \A s \in Starts \ {t} : thread'[s] = thread[s]
    BY <1>1, <1>5, GoesOn, Zenon
    DEF Return, Complete, Unroot, DestroyRuntime, Forget, Goes
  <2>2. HasRuntime(t)' => HasRuntime(t) /\ runtime' = runtime
    <3>1. CASE Forget(t)
      <4>1. thread'[t].pc = "over"
        BY <1>1, <3>1, GoesOn, Zenon DEF Forget, Goes
      <4> QED BY <4>1 DEF HasRuntime
    <3> QED BY <1>5, <3>1
            DEF Return, Complete, Unroot, DestroyRuntime, At, HasRuntime
  <2>3. /\ object'.life = object.life /\ object'.held = object.held
        /\ object'.rooted => object.rooted
    BY <1>1, <1>5
    DEF Return, Complete, Unroot, DestroyRuntime, Forget, ThreadTypeOK
  <2> QED BY <1>2, <1>5, <2>1, <2>2, <2>3
          DEF Return, Complete, Unroot, DestroyRuntime, Forget
<1> QED BY <1>3, <1>4, <1>5 DEF StepOf

\* What start() does to the threads.
LEMMA StartLeaves ==
    ASSUME ThreadInv, Start
    PROVE  \E t \in Starts :
                /\ thread[t].pc = "none" /\ thread'[t].pc = "created"
                /\ \A s \in Starts \ {t} : thread'[s] = thread[s]
                /\ \A s \in 1..t - 1 : thread[s].pc # "none"
                /\ params' = t
                /\ "again" \notin hasty' =>
                        \A s \in 1..t - 1 : thread[s].pc = "over"
                /\ hasty \subseteq hasty'
                /\ "early" \in hasty' => "early" \in hasty
<1>1. ThreadTypeOK
  BY DEF ThreadInv
<1>2. PICK t \in Starts :
          /\ thread[t].pc = "none" /\ \A s \in 1..t - 1 : thread[s].pc # "none"
          /\ thread' = [thread EXCEPT ![t].pc = "created"]
          /\ params' = t
          /\ hasty' = IF \A s \in 1..t - 1 : thread[s].pc = "over" THEN hasty
                      ELSE hasty \cup {"again"}
  BY DEF Start
<1>3. thread'[t].pc = "created" /\ \A s \in Starts \ {t} : thread'[s] = thread[s]
  BY <1>1, <1>2, GoesOn
<1>4. /\ "again" \notin hasty' => \A s \in 1..t - 1 : thread[s].pc = "over"
      /\ hasty \subseteq hasty' /\ "early" \in hasty' => "early" \in hasty
  BY <1>2
<1> QED BY <1>2, <1>3, <1>4

\* What the main thread does otherwise leaves the threads alone.
LEMMA MainLeaves ==
    ASSUME ThreadInv,
           \/ Root \/ Hear \/ DropThread \/ CollectThread \/ EndProgram
           \/ Interrupt \/ Join
    PROVE  UNCHANGED <<thread, params, runtime, freed>>
  BY DEF Root, Hear, DropThread, CollectThread, EndProgram, Interrupt, Join

LEMMA StartStep == ThreadInv /\ [ThreadNext]_threadVars => StartInv'
<1> SUFFICES ASSUME ThreadInv, [ThreadNext]_threadVars PROVE StartInv'
  OBVIOUS
<1>1. StartInv /\ ThreadTypeOK /\ 0 \notin Starts
  BY DEF ThreadInv, Starts
<1>2. CASE UNCHANGED <<thread, params, runtime>>
  BY <1>1, <1>2 DEF StartInv, Started
<1>3. CASE Start
  <2>1. PICK t \in Starts :
            /\ thread[t].pc = "none" /\ thread'[t].pc = "created"
            /\ \A s \in Starts \ {t} : thread'[s] = thread[s]
            /\ \A s \in 1..t - 1 : thread[s].pc # "none"
            /\ params' = t
    BY <1>3, StartLeaves
  <2>2. runtime' = runtime /\ runtime \in 0..MaxStarts
    BY <1>1, <1>3 DEF Start, ThreadTypeOK
  <2>3. \A s \in Starts : Started(s)' <=> Started(s) \/ s = t
    BY <2>1 DEF Started
  <2>4. \A u \in Starts : \A s \in 1..u - 1 : s \in Starts
    BY ThreadAssumption DEF Starts
  <2>5. \A u \in Starts : Started(u)' => \A s \in 1..u - 1 : Started(s)'
    BY <1>1, <2>1, <2>3, <2>4 DEF StartInv, Started
  <2>6. runtime' # 0 => Started(runtime)'
    BY <1>1, <2>2, <2>3, ThreadAssumption DEF StartInv, Starts
  <2>7. \A u \in Starts : Started(u)' => params' # 0
    BY <1>1, <2>1
  <2> QED BY <2>5, <2>6, <2>7 DEF StartInv
<1>4. ASSUME NEW t \in Starts, StepOf(t) PROVE StartInv'
  <2>1. /\ Started(t) /\ Started(t)' /\ params' = params
        /\ runtime' \in {runtime, t, 0}
        /\ \A s \in Starts \ {t} : thread'[s] = thread[s]
    BY <1>4, StepLeaves DEF Started, Runs
  <2>2. \A s \in Starts : Started(s)' <=> Started(s)
    BY <2>1 DEF Started
  <2>3. \A u \in Starts : \A s \in 1..u - 1 : s \in Starts
    BY ThreadAssumption DEF Starts
  <2>4. runtime # 0 => runtime \in Starts
    BY <1>1, ThreadAssumption DEF ThreadTypeOK, Starts
  <2>5. \A u \in Starts : Started(u)' => \A s \in 1..u - 1 : Started(s)'
    BY <1>1, <2>2, <2>3 DEF StartInv
  <2>6. runtime' # 0 => Started(runtime)'
    BY <1>1, <2>1, <2>2, <2>4 DEF StartInv
  <2> QED BY <1>1, <2>1, <2>2, <2>5, <2>6 DEF StartInv
<1> QED BY <1>2, <1>3, <1>4, MainLeaves DEF ThreadNext, StepOf, threadVars

LEMMA RootStep == ThreadInv /\ [ThreadNext]_threadVars => RootInv'
<1> SUFFICES ASSUME ThreadInv, [ThreadNext]_threadVars PROVE RootInv'
  OBVIOUS
<1>1. StartInv /\ RootInv /\ ThreadTypeOK
  BY DEF ThreadInv
<1>2. CASE UNCHANGED threadVars
  BY <1>1, <1>2 DEF threadVars, RootInv, Started
<1>3. CASE Start
  <2>1. PICK t \in Starts : \A s \in Starts \ {t} : thread'[s] = thread[s]
    BY <1>3, StartLeaves
  <2> QED BY <1>1, <1>3, <2>1 DEF Start, Idle, RootInv, Started
<1>4. CASE Root
  <2>1. /\ main' = "idle" /\ UNCHANGED <<thread, ended>> /\ ~ended
    BY <1>1, <1>4 DEF Root, RootInv
  <2>2. "instance" \in roots' /\ roots \subseteq roots'
    BY <1>1, <1>4 DEF Root, RootInv
  <2>3. object'.life = object.life /\ object'.held = object.held
    BY <1>1, <1>4 DEF Root, ThreadTypeOK
  <2>4. stale' = stale
    BY <1>4 DEF Root
  <2> QED BY <1>1, <2>1, <2>2, <2>3, <2>4 DEF RootInv, Started
<1>5. CASE Hear \/ Interrupt
  BY <1>1, <1>5 DEF Hear, Interrupt, RootInv, Started
<1>6. CASE DropThread
  <2>1. /\ object'.life = object.life /\ object'.rooted = object.rooted
        /\ ~object'.held
    BY <1>1, <1>6 DEF DropThread, ThreadTypeOK
  <2> QED BY <1>1, <1>6, <2>1 DEF DropThread, RootInv, Started
<1>7. CASE CollectThread
  <2>1. CASE object.life # "alive"
    BY <1>1, <1>7, <2>1 DEF CollectThread, RootInv, Started
  <2>2. CASE object.life = "alive"
    <3>1. /\ ~object.held /\ "instance" \notin roots /\ Delete /\ ~ended
          /\ main = "idle" /\ UNCHANGED <<roots, ended, thread, stale>>
      BY <1>7, <2>2 DEF CollectThread, Idle
    <3>2. (\A t \in Starts : ~Started(t)) /\ ~object.rooted
      BY <1>1, <3>1 DEF RootInv
    <3>3. runtime = 0
      BY <1>1, <3>2, ThreadAssumption DEF StartInv, ThreadTypeOK, Starts
    <3>4. object' = Gone /\ main' = "idle"
      BY <3>1, <3>3 DEF Delete
    <3> QED BY <1>1, <3>1, <3>2, <3>4, GoneIs DEF RootInv, Started
  <2> QED BY <2>1, <2>2
<1>8. CASE EndProgram
  <2>1. ended' /\ main' # "rooting"
    BY <1>8 DEF EndProgram, Idle, Delete
  <2> QED BY <2>1 DEF RootInv
<1>9. CASE Join
  <2>1. ended' /\ main' = "idle"
    BY <1>1, <1>9 DEF Join, RootInv
  <2> QED BY <2>1 DEF RootInv
<1>10. ASSUME NEW t \in Starts, StepOf(t) PROVE RootInv'
  <2>1. \A s \in Starts : Started(s)' <=> Started(s)
    BY <1>10, StepLeaves DEF Started, Runs
  <2>2. "runtime" \in stale' => "runtime" \in stale
    BY <1>10 DEF StepOf, Stray, Ready, Compile, PostMessage, Return, Complete,
                 Unroot, DestroyRuntime, Forget
  <2> QED BY <1>1, <1>10, <2>1, <2>2, StepLeaves DEF RootInv
<1> QED BY <1>2, <1>3, <1>4, <1>5, <1>6, <1>7, <1>8, <1>9, <1>10
        DEF ThreadNext, StepOf

\* When the thread started last is over, no thread runs any more.
LEMMA JoinWaits ==
    ASSUME OneInv, "again" \notin hasty, Join
    PROVE  \A t \in Starts : ~Runs(t)
<1> SUFFICES ASSUME NEW t \in Starts PROVE ~Runs(t)
  OBVIOUS
<1>1. CASE \E s \in Starts : s > t /\ thread[s].pc # "none"
  <2>1. PICK s \in Starts : s > t /\ thread[s].pc # "none"
    BY <1>1
  <2>2. t \in 1..s - 1
    BY <2>1, ThreadAssumption DEF Starts
  <2> QED BY <2>1, <2>2 DEF OneInv, Started, Runs
<1> QED BY <1>1 DEF Join, Runs

\* A thread that needs what the destructor takes is waited for, unless it was
\* not known of.
LEMMA DeleteWaits ==
    ASSUME ThreadTypeOK, OneInv, "again" \notin hasty', Delete,
           "early" \notin hasty', object'.life = "deleted",
           object.life = "alive", NEW t \in Starts
    PROVE  ~Runs(t)
<1>1. runtime = 0
  BY DEF Delete, ThreadTypeOK
<1>2. hasty' = hasty /\ ~\E s \in Starts : thread[s].pc = "created"
  BY <1>1 DEF Delete
<1>3. ~HasRuntime(t)
  BY <1>1, <1>2, ThreadAssumption DEF OneInv, Starts
<1> QED BY <1>2, <1>3 DEF Runs, HasRuntime, ThreadTypeOK

LEMMA OneStep == ThreadInv /\ [ThreadNext]_threadVars => OneInv'
<1> SUFFICES ASSUME ThreadInv, [ThreadNext]_threadVars, "again" \notin hasty'
             PROVE  OneInv'
  BY DEF OneInv
<1>1. /\ StartInv /\ RootInv /\ OneInv /\ ThreadTypeOK
      /\ \A u \in Starts : \A s \in 1..u - 1 : s \in Starts
  BY ThreadAssumption DEF ThreadInv, Starts
<1>2. CASE UNCHANGED threadVars
  BY <1>1, <1>2 DEF threadVars, OneInv, Started, Runs, HasRuntime
<1>3. CASE Start
  <2>1. PICK t \in Starts :
            /\ thread[t].pc = "none" /\ thread'[t].pc = "created"
            /\ \A s \in Starts \ {t} : thread'[s] = thread[s]
            /\ params' = t
            /\ \A s \in 1..t - 1 : thread[s].pc = "over"
            /\ hasty \subseteq hasty'
            /\ "early" \in hasty' => "early" \in hasty
    BY <1>3, StartLeaves
  <2>2. "again" \notin hasty /\ UNCHANGED <<runtime, freed, stale>>
    BY <1>3, <2>1 DEF Start
  <2>3. \A u \in Starts \ {t} :
            thread'[u] = thread[u] /\ thread[u].pc \in {"none", "over"}
    <3> SUFFICES ASSUME NEW u \in Starts \ {t}, thread[u].pc # "none"
                 PROVE  thread[u].pc = "over"
      BY <2>1
    <3>1. t \notin 1..u - 1
      BY <1>1, <2>1 DEF StartInv, Started
    <3>2. u \in 1..t - 1
      BY <3>1, ThreadAssumption DEF Starts
    <3> QED BY <2>1, <3>2
  <2>4. \A u \in Starts : Started(u)' => \A s \in 1..u - 1 : thread'[s].pc = "over"
    <3> SUFFICES ASSUME NEW u \in Starts, Started(u)', NEW s \in 1..u - 1
                 PROVE  thread'[s].pc = "over"
      OBVIOUS
    <3>1. s \in Starts /\ s # u
      BY <1>1, ThreadAssumption DEF Starts
    <3>2. CASE u = t
      BY <2>1, <3>1, <3>2
    <3>3. CASE u # t
      <4>1. Started(u)
        BY <2>3, <3>3 DEF Started
      <4>2. thread[s].pc = "over"
        BY <1>1, <2>2, <4>1 DEF OneInv
      <4> QED BY <2>1, <3>1, <4>2
    <3> QED BY <3>2, <3>3
  <2>5. \A u \in Starts : /\ Runs(u)' => params' = u
                          /\ ~HasRuntime(u)'
    BY <2>1, <2>3 DEF Runs, HasRuntime
  <2>6. \A u \in freed' : u # t /\ thread'[u].pc = "over"
    BY <1>1, <2>1, <2>2, <2>3 DEF OneInv, HasRuntime, ThreadTypeOK
  <2>7. object'.life # "deleted"
    <3>1. object' = object /\ object.held /\ ~ended
      BY <1>3 DEF Start, Idle
    <3> QED BY <1>1, <3>1 DEF RootInv
  <2> QED BY <1>1, <2>1, <2>2, <2>4, <2>5, <2>6, <2>7 DEF OneInv
<1>4. CASE Root \/ Hear \/ DropThread \/ Interrupt
  <2>1. /\ UNCHANGED <<thread, params, runtime, freed, hasty>>
        /\ object'.life = object.life
        /\ stale' \subseteq stale \cup {"runtime"}
    BY <1>1, <1>4 DEF Root, Hear, DropThread, Interrupt, ThreadTypeOK
  <2> QED BY <1>1, <2>1 DEF OneInv, Started, Runs, HasRuntime
<1>5. CASE CollectThread \/ EndProgram
  <2>1. /\ UNCHANGED <<thread, params, runtime, freed>>
        /\ stale' \subseteq stale \cup {"function"} /\ hasty \subseteq hasty'
    BY <1>5 DEF CollectThread, EndProgram, Delete
  <2>2. ASSUME "early" \notin hasty', object'.life = "deleted",
               NEW t \in Starts
        PROVE  ~Runs(t)
    <3>1. CASE object.life = "deleted"
      BY <1>1, <2>1, <2>2, <3>1 DEF OneInv
    <3>2. CASE object.life = "alive"
      <4>1. Delete
        BY <1>5, <3>2 DEF CollectThread, EndProgram
      <4> QED BY <1>1, <2>2, <3>2, <4>1, DeleteWaits
    <3> QED BY <1>1, <3>1, <3>2 DEF ThreadTypeOK
  <2> QED BY <1>1, <2>1, <2>2 DEF OneInv, Started, Runs, HasRuntime
<1>6. CASE Join
  <2>1. UNCHANGED <<thread, params, runtime, freed, stale, hasty>>
    BY <1>6 DEF Join
  <2>2. \A t \in Starts : ~Runs(t)
    BY <1>1, <1>6, <2>1, JoinWaits
  <2> QED BY <1>1, <2>1, <2>2 DEF OneInv, Started, Runs, HasRuntime
<1>7. ASSUME NEW t \in Starts, StepOf(t) PROVE OneInv'
  <2>1. /\ Runs(t) /\ thread'[t].pc # "none"
        /\ \A s \in Starts \ {t} : thread'[s] = thread[s]
        /\ hasty' = hasty /\ params' = params
        /\ object'.life = object.life
        /\ HasRuntime(t)' =>
                \/ HasRuntime(t) /\ runtime' = runtime
                \/ thread[t].pc = "created" /\ runtime' = t
    BY <1>7, StepLeaves
  <2>2. params = t /\ \A u \in Starts \ {t} : ~Runs(u)
    BY <1>1, <2>1 DEF OneInv
  <2>3. \A u \in Starts \ {t} : ~Runs(u)' /\ ~HasRuntime(u)'
    BY <2>1, <2>2 DEF Runs, HasRuntime
  <2>4. \A u \in Starts : Started(u)' => \A s \in 1..u - 1 : thread'[s].pc = "over"
    <3> SUFFICES ASSUME NEW u \in Starts, Started(u)', NEW s \in 1..u - 1
                 PROVE  thread'[s].pc = "over"
      OBVIOUS
    <3>1. Started(u)
      BY <2>1 DEF Started, Runs
    <3>2. thread[s].pc = "over" /\ s \in Starts
      BY <1>1, <2>1, <3>1 DEF OneInv
    <3> QED BY <2>1, <3>2 DEF Runs
  <2>5. HasRuntime(t)' => runtime' = t
    BY <1>1, <2>1 DEF OneInv
  <2>6. /\ \A u \in freed' : HasRuntime(u)' \/ thread'[u].pc = "over"
        /\ \A u \in freed' : thread'[u].pc \notin {"ready", "running"}
        /\ "params" \notin stale'
    <3>1. CASE Return(t)
      <4>1. freed' = freed \cup {t} /\ t \notin freed /\ stale' = stale
        BY <1>1, <2>1, <2>2, <3>1 DEF Return, At, OneInv
      <4>2. thread'[t].pc = "returned"
        BY <1>1, <3>1, GoesOn DEF Return, Goes
      <4>3. \A u \in freed : u \in Starts \ {t} /\ thread'[u] = thread[u]
        BY <1>1, <2>1, <4>1 DEF ThreadTypeOK
      <4>4. /\ \A u \in freed : /\ HasRuntime(u) \/ thread[u].pc = "over"
                                /\ thread[u].pc \notin {"ready", "running"}
            /\ "params" \notin stale
        BY <1>1, <2>1 DEF OneInv
      <4>5. \A u \in freed : /\ HasRuntime(u)' \/ thread'[u].pc = "over"
                             /\ thread'[u].pc \notin {"ready", "running"}
        BY <4>3, <4>4 DEF HasRuntime
      <4>6. HasRuntime(t)' /\ thread'[t].pc \notin {"ready", "running"}
        BY <4>2 DEF HasRuntime
      <4>7. "params" \notin stale'
        BY <4>1, <4>4
      <4> HIDE DEF HasRuntime
      <4> QED BY <4>1, <4>5, <4>6, <4>7
    <3>2. CASE ~Return(t)
      <4>1. freed' = freed /\ stale' \subseteq stale \cup {"object"}
        BY <1>7, <3>2
        DEF StepOf, Stray, Ready, Compile, PostMessage, Complete, Unroot,
            DestroyRuntime, Forget
      <4>2. \A u \in freed :
                /\ u \in Starts
                /\ HasRuntime(u) \/ thread[u].pc = "over"
                /\ thread[u].pc \notin {"ready", "running"}
        BY <1>1, <2>1 DEF OneInv, ThreadTypeOK
      <4>3. ASSUME t \in freed
            PROVE  HasRuntime(t)' \/ thread'[t].pc = "over"
        <5>1. thread'[t].pc \in {"posted", "unrooted", "destroyed", "over"}
          <6>1. thread[t].pc \in {"returned", "posted", "unrooted", "destroyed"}
            BY <2>1, <4>2, <4>3 DEF HasRuntime, Runs
          <6>2. ~Ready(t) /\ ~Compile(t) /\ ~PostMessage(t)
            BY <6>1 DEF Ready, Compile, PostMessage, At
          <6> QED BY <1>1, <1>7, <3>2, <6>2, GoesOn, Zenon
                  DEF StepOf, Stray, Complete, Unroot, DestroyRuntime, Forget,
                      Goes
        <5> QED BY <5>1 DEF HasRuntime
      <4>4. ASSUME t \in freed
            PROVE  thread'[t].pc \notin {"ready", "running"}
        <5>1. thread[t].pc \in {"returned", "posted", "unrooted", "destroyed"}
          BY <2>1, <4>2, <4>4 DEF HasRuntime, Runs
        <5>2. ~Ready(t) /\ ~Compile(t) /\ ~PostMessage(t)
          BY <5>1 DEF Ready, Compile, PostMessage, At
        <5>3. thread'[t].pc \in {"posted", "unrooted", "destroyed", "over"}
          BY <1>1, <1>7, <3>2, <5>2, GoesOn, Zenon
          DEF StepOf, Stray, Complete, Unroot, DestroyRuntime, Forget, Goes
        <5> QED BY <5>3
      <4>5. "params" \notin stale'
        BY <1>1, <2>1, <4>1 DEF OneInv
      <4>6. \A u \in freed \ {t} : thread'[u] = thread[u]
        BY <2>1, <4>2
      <4> QED BY <4>1, <4>2, <4>3, <4>4, <4>5, <4>6 DEF HasRuntime
    <3> QED BY <3>1, <3>2
  <2>7. "early" \notin hasty' => "object" \notin stale' /\ object'.life # "deleted"
    <3> SUFFICES ASSUME "early" \notin hasty
                 PROVE  "object" \notin stale' /\ object'.life # "deleted"
      BY <2>1
    <3>1. object.life # "deleted" /\ "object" \notin stale
      BY <1>1, <2>1 DEF OneInv
    <3>2. ~Stray(t)
      BY <3>1 DEF Stray
    <3>3. stale' \subseteq stale \cup {"params"}
      BY <1>7, <3>2
      DEF StepOf, Ready, Compile, PostMessage, Return, Complete, Unroot,
          DestroyRuntime, Forget
    <3> QED BY <2>1, <3>1, <3>3
  <2> QED BY <2>1, <2>2, <2>3, <2>4, <2>5, <2>6, <2>7 DEF OneInv
<1> QED BY <1>2, <1>3, <1>4, <1>5, <1>6, <1>7 DEF ThreadNext, StepOf

\* Every state of the Thread of scripts and its threads keeps the invariant.
THEOREM ThreadInvariance == ThreadSpec => []ThreadInv
<1>1. ThreadInv /\ [ThreadNext]_threadVars => ThreadInv'
  BY ThreadTypeStep, StartStep, RootStep, OneStep DEF ThreadInv
<1> QED BY <1>1, InitThreadInv, PTL DEF ThreadSpec

\* Every variable has its type, for any number of starts and messages.
THEOREM ThreadTypeCorrect == ThreadSpec => []ThreadTypeOK
<1>1. ThreadInv => ThreadTypeOK
  BY DEF ThreadInv
<1> QED BY <1>1, ThreadInvariance, PTL

\* A Thread is there as long as its thread needs it, and when the program ends
\* its thread is over before it goes.  Only then may a runtime be interrupted that
\* is destroyed.
THEOREM Awaited == ThreadSpec => []ThreadIsWaitedFor
<1>1. ThreadInv => ThreadIsWaitedFor
  <2>1. ThreadInv => ("runtime" \in stale => ended)
    BY DEF ThreadInv, RootInv
  <2>2. ASSUME ThreadInv, "again" \notin hasty
        PROVE  /\ "object" \in stale => "early" \in hasty
               /\ "params" \notin stale
               /\ object.life = "deleted" /\ ~ended =>
                     \A t \in Starts : thread[t].pc = "none"
    BY <2>2 DEF ThreadInv, OneInv, RootInv, Started
  <2> QED BY <2>1, <2>2 DEF ThreadIsWaitedFor
<1> QED BY <1>1, ThreadInvariance, PTL
=============================================================================
