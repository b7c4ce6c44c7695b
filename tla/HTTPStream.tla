----------------------------- MODULE HTTPStream -----------------------------
(***************************************************************************)
(* Net/HTTPStream.cpp: a stream that reads a file by HTTP.  It is the      *)
(* delegate of its own HTTP object; what has come is mapped in memory, and *)
(* its user (a Stream object of a script, or an audio source) takes it in  *)
(* packets, is told when there is one, and seeks.                          *)
(*                                                                         *)
(* A byte is its position in the file.  Network parts are of one byte.     *)
(***************************************************************************)
EXTENDS HTTP

CONSTANTS
    Size,       \* the length of the file
    Packet,     \* m_PacketsSize
    MaxSeek     \* the seeks of the user: a bound

ASSUME HTTPStreamAssumption ==
    Size \in Nat \ {0} /\ Packet \in Nat \ {0} /\ MaxSeek \in Nat

VARIABLES
    st,         \* the fields of the HTTPStream
    cells,      \* what m_Mapped.addr points to
    due,        \* the calls of notifyAvailable() dispatched to the main loop
    served,     \* per request: where it starts, whether the server sends that
                \* part (206) or the whole file, and says how long it is
    left,       \* the bytes to come of the message that is read
    seeks,      \* the number of seeks
    want,       \* history: the position that the user reads next
    packet,     \* history: whether the last packet was the bytes it wanted
    stopped,    \* history: it has called stop(), and not seek() since then
    ranged      \* history: whether the last seek waits for a part it asked
                \* for ("asked"), or has lost m_PendingSeek to the timer of an
                \* earlier seek ("taken")

streamVars == <<st, cells, due, served, left, seeks, want, packet, stopped,
                ranged>>
vars == <<httpVars, streamVars>>

Position == 0..(Size - 1)
Nothing == Size         \* what no byte was written to
Unknown == Size + 1     \* MMAP_SIZE_FOR_UNKNOWN_CONTENT_LENGTH

Init ==
    /\ HTTPInit
    /\ st = [size |-> 0, addr |-> FALSE, start |-> 0, buffered |-> 0,
             read |-> 0, pending |-> FALSE, update |-> FALSE]
    /\ cells = <<>> /\ due = 0 /\ left = 0 /\ seeks = 0
    /\ served = [r \in Request |-> [from |-> 0, partial |-> FALSE,
                                    known |-> TRUE]]
    /\ want = 0 /\ packet = TRUE /\ stopped = FALSE /\ ranged = "no"

TypeOK ==
    /\ HTTPTypeOK
    /\ st \in [size : 0..Unknown, addr : BOOLEAN, start : Position,
               buffered : 0..Unknown, read : 0..Unknown, pending : BOOLEAN,
               update : BOOLEAN]
    /\ Len(cells) = (IF st.addr THEN st.size ELSE 0)
    /\ due \in 0..MaxSeek /\ left \in 0..Size /\ want \in 0..Size
    /\ ranged \in {"no", "asked", "taken"}
-----------------------------------------------------------------------------
\* hasDataAvailable(): the difference is of unsigned numbers.
ReadComplete == st.buffered = st.size
HasDataAvailable(t) ==
    /\ ~t.pending
    /\ \/ t.buffered < t.read \/ t.buffered - t.read >= Packet
       \/ t.read # t.buffered /\ t.buffered = t.size

\* notifyAvailable()
AvailableWrongly(t) == [t EXCEPT !.pending = FALSE]
Available(t) == [t EXCEPT !.pending = FALSE, !.update = FALSE]
Notifies ==
    /\ MainLoop /\ due > 0
    /\ due' = due - 1
    /\ st' = Available(st)
    /\ ranged' = IF st.pending /\ ranged = "asked" THEN "taken" ELSE ranged
    /\ Rest(<<CallOn("handler", "available")>>)
    /\ UNCHANGED <<env, h, net, timers, req, fault, cells, served, left,
                   seeks, want, packet, stopped>>

\* The length of the message that answers request r.
Length(r) == IF served[r].partial THEN Size - served[r].from ELSE Size

\* onHeader(): a new mapping, unless a seek got something else.
OnHeader ==
    /\ At("onHeader")
    /\ LET s == served[h.msg]
           size == IF s.known THEN Length(h.msg) ELSE Unknown
       IN  IF st.pending /\ ~s.partial
           THEN /\ st' = [st EXCEPT !.buffered = 0, !.addr = FALSE, !.size = 0]
                /\ cells' = <<>>
                /\ Rest(<<CallOn("handler", "error"), Call("seekFailed")>>)
           ELSE /\ st' = [st EXCEPT !.buffered = 0, !.addr = TRUE,
                                    !.size = size, !.pending = FALSE]
                /\ cells' = [i \in 1..size |-> Nothing]
                /\ Return
    /\ ranged' = IF served[h.msg].partial THEN "no" ELSE ranged
    /\ UNCHANGED <<env, h, net, timers, req, fault, due, served, left, seeks,
                   want, packet, stopped>>
SeekFailed ==
    /\ At("seekFailed")
    /\ st' = [st EXCEPT !.pending = FALSE]
    /\ Rest(<<Call("stop")>>)
    /\ UNCHANGED <<env, h, net, timers, req, fault, cells, due, served, left,
                   seeks, want, packet, stopped, ranged>>

\* onProgress(): the byte goes behind those that are buffered.
OnProgress ==
    /\ At("onProgress")
    /\ IF ~st.addr \/ st.buffered + 1 > st.size
       THEN Return /\ UNCHANGED <<st, cells>>
       ELSE LET t == [st EXCEPT !.buffered = @ + 1]
            IN  /\ cells' = [cells EXCEPT ![st.buffered + 1] = Size - 1 - left]
                /\ IF t.update /\ HasDataAvailable(t)
                   THEN /\ st' = Available(t)
                        /\ Rest(<<CallOn("handler", "available")>>)
                   ELSE st' = t /\ Return
    /\ UNCHANGED <<env, h, net, timers, req, fault, due, served, left, seeks,
                   want, packet, stopped, ranged>>

\* onRequest() has nothing to tell but that the file is there.
OnRequest ==
    /\ At("onRequest") /\ Return
    /\ UNCHANGED <<env, h, net, timers, req, fault, streamVars>>

\* onError(): a lost connection is no error, unless a seek waits for it.
OnError ==
    /\ At("onError")
    /\ st' = [st EXCEPT !.addr = FALSE, !.size = IF st.addr THEN 0 ELSE @]
    /\ cells' = <<>>
    /\ IF st.pending
       THEN Rest(<<CallOn("handler", "error"), Call("seekFailed")>>)
       ELSE IF h.err \in {"response", "socket", "timeout"}
       THEN Rest(<<CallOn("handler", "error")>>)
       ELSE Return
    /\ UNCHANGED <<env, h, net, timers, req, fault, due, served, left, seeks,
                   want, packet, stopped, ranged>>
-----------------------------------------------------------------------------
(* What the user calls, from a handler or from elsewhere. *)

User(call) ==
    \/ MainLoop /\ req > 0
    \/ At("handler") /\ <<On, call>> \in env.calls

\* request(), for the bytes from a position on; the server has its own mind.
Requests(from, range) ==
    IF CanDoRequest
    THEN /\ req' = req + 1
         /\ \E partial, known \in BOOLEAN :
            /\ partial => range
            /\ range => partial \in env.ranges
            /\ served' = [served EXCEPT ![req + 1] =
                [from |-> from, partial |-> partial, known |-> known]]
    ELSE UNCHANGED <<req, served>>
RequestCall ==
    Call(IF ~CanDoRequest THEN "clearState"
         ELSE IF h.cur = NoSock THEN "createConnection" ELSE "reuse")

\* start(), onStart()
Start ==
    /\ MainLoop /\ req = 0
    /\ st' = [st EXCEPT !.update = TRUE, !.start = 0, !.buffered = 0]
    /\ Requests(0, FALSE)
    /\ Rest(<<RequestCall>>)
    /\ UNCHANGED <<env, h, net, timers, fault, cells, due, left, seeks, want,
                   packet, stopped, ranged>>

\* stop()
StreamStop ==
    /\ User("stop")
    /\ todo' = <<Call("stop")>> \o todo
    /\ stopped' = TRUE
    /\ UNCHANGED <<env, h, net, timers, req, fault, st, cells, due, served,
                   left, seeks, want, packet, ranged>>

\* seek(): from what is buffered, or by a new request.  The sum and the
\* difference are of unsigned numbers.
Buffered(pos) ==
    LET end == st.start + st.buffered
    IN  /\ pos >= st.start /\ pos < end
        /\ end < Packet \/ pos <= end - Packet \/ ReadComplete
Seek(pos) ==
    /\ User("seek") /\ seeks < MaxSeek
    /\ env.patient => ~st.pending /\ due = 0
    /\ ~Buffered(pos) => req < env.requests
    /\ seeks' = seeks + 1
    /\ want' = pos /\ stopped' = FALSE
    /\ ranged' = IF ranged = "asked" THEN "no" ELSE ranged
    /\ IF Buffered(pos)
       THEN /\ st' = [st EXCEPT !.read = pos - st.start, !.pending = TRUE,
                                !.update = FALSE]
            /\ due' = due + 1
            /\ UNCHANGED todo
       ELSE /\ todo' = <<Call("stop"), CallOn("seek", pos)>> \o todo
            /\ UNCHANGED <<st, due>>
    /\ UNCHANGED <<env, h, net, timers, req, fault, cells, served, left,
                   packet>>
SeekRequests ==
    /\ At("seek")
    /\ st' = [st EXCEPT !.pending = TRUE]
    /\ ranged' = "asked"
    /\ Requests(On, TRUE)
    /\ Rest(<<RequestCall, CallOn("seeked", On)>>)
    /\ UNCHANGED <<env, h, net, timers, fault, cells, due, left, seeks, want,
                   packet, stopped>>
SeekedWrongly ==
    /\ At("seeked") /\ Return
    /\ st' = [st EXCEPT !.start = On, !.buffered = 0, !.update = TRUE]
    /\ UNCHANGED <<env, h, net, timers, req, fault, cells, due, served, left,
                   seeks, want, packet, stopped, ranged>>
Seeked ==
    /\ At("seeked") /\ Return
    /\ st' = [st EXCEPT !.start = On, !.read = 0, !.buffered = 0,
                        !.update = TRUE]
    /\ UNCHANGED <<env, h, net, timers, req, fault, cells, due, served, left,
                   seeks, want, packet, stopped, ranged>>

\* getNextPacket(), onGetNextPacket()
GetNextPacket ==
    /\ User("packet")
    /\ IF ~st.addr \/ st.size = st.read
       THEN UNCHANGED <<st, want, packet>>
       ELSE IF ~HasDataAvailable(st)
       THEN st' = [st EXCEPT !.update = TRUE] /\ UNCHANGED <<want, packet>>
       ELSE \E len \in {IF st.size - st.read < Packet THEN st.size - st.read
                        ELSE Packet} :
            /\ st' = [st EXCEPT !.read = @ + len]
            /\ packet' =
                \/ ranged = "taken"
                \/ \A i \in 1..len : cells[st.read + i] = want + i - 1
            /\ want' = IF want + len > Size THEN Size ELSE want + len
    /\ UNCHANGED <<env, h, net, timers, req, fault, todo, cells, due, served,
                   left, seeks, stopped, ranged>>

HandlerReturns ==
    /\ At("handler") /\ Return
    /\ UNCHANGED <<env, h, net, timers, req, fault, streamVars>>

\* A message brings the bytes it is to bring, one by one.
ReadsByte ==
    /\ Reading
    /\ UNCHANGED <<st, cells, due, served, seeks, want, packet, stopped, ranged>>
    /\ LET bodies == Len(SelectSeq(todo', LAMBDA c : c.f = "body"))
           fresh == todo' # <<>> /\ todo'[1].f = "message_begin"
           total == IF ~fresh THEN left
                    ELSE IF todo'[2].f \in Redirects THEN 0 ELSE Length(h'.msg)
           ends == \E i \in 1..Len(todo') : todo'[i].f = "requestEnded"
       IN  /\ bodies <= total
           /\ left' = total - bodies
           /\ ends => left' = 0
           /\ fresh /\ todo'[2].f \in UntilEof => ~served[h'.msg].known
StreamNext ==
    \/ Notifies \/ OnHeader \/ SeekFailed \/ OnProgress \/ OnRequest \/ OnError
    \/ Start \/ StreamStop \/ SeekRequests \/ Seeked \/ GetNextPacket
    \/ \E pos \in Position : Seek(pos)
    \/ HandlerReturns \/ ReadsByte

Next == StreamNext \/ (HTTPNext /\ UNCHANGED streamVars)

Spec == Init /\ [][Next]_vars
-----------------------------------------------------------------------------
\* The reader gets what is there.  The bytes of a packet are those that follow
\* the last packet, or those at the position of the last seek, wherever they
\* were buffered and whatever the server sent; and who has found no packet is
\* told when there is one: m_NeedToSendUpdate is not left set over data that
\* can be read.  Two cases are excepted.  The timer of a seek within the buffer
\* fires while a later seek waits for the part that it asked for, and takes
\* the flag by which a server that sends the whole file would be noticed.  And
\* a request that the end of a connection has forgotten (HTTP's lost) goes on,
\* and its bytes come between those of the next one.
RightBytes == packet
ToldOfData == st.update => ~(st.addr /\ HasDataAvailable(st))
ReaderGetsTheData ==
    h.lost = {} => RightBytes /\ (MainLoop => ToldOfData)

\* A seek ends, with data or with an error: while m_PendingSeek refuses all
\* data, a notification is due, or a timer or a socket will end the request.
\* It may not when a request was lost or an answer cut (HTTP's histories): the
\* end of the next connection is then taken for the end of another message.
SeekEnds ==
    MainLoop /\ st.pending /\ ~stopped /\ h.lost = {} /\ h.cut = {} =>
        \/ due > 0 \/ h.timer \in timers
        \/ \E s \in ctx : sock[s] # "free" /\ h.cur \in {NoSock, s}
=============================================================================
