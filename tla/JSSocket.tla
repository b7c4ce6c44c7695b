------------------------------ MODULE JSSocket ------------------------------
(***************************************************************************)
(* The Socket of scripts (Binding/JSSocket.cpp): one Socket object, which  *)
(* connects or listens, and the objects of the clients it accepts.         *)
(*                                                                         *)
(* An object is rooted while its socket may call it.  In readline mode     *)
(* what comes after the last delimiter waits in the line buffer of the     *)
(* object for the rest of its line; bytes are only counted here.           *)
(*                                                                         *)
(* External: APE_socket_shutdown() calls on_disconnect later.              *)
(***************************************************************************)
EXTENDS Naturals

CONSTANTS
    Self,       \* the Socket object
    Client,     \* the objects of the clients that it accepts
    MaxLine,    \* SOCKET_LINEBUFFER_MAX
    MaxBytes    \* bytes of a packet that no delimiter follows: a bound

ASSUME SocketAssumption ==
    /\ Self \notin Client
    /\ MaxLine \in Nat /\ MaxBytes \in Nat

VARIABLES
    obj,        \* per object: whether it exists, is held by the script or
                \* rooted, and m_Socket: "NULL" or what became of the socket
    readline,   \* kSocketType_Readline, which clients take from Self
    buffer,     \* per object: m_LineBuffer, allocated or not, and its pos
    line,       \* history, per object: the bytes that have come in readline
                \* mode since the last delimiter (up to MaxLine + 1), and
                \* whether some of them were dropped
    reattached,     \* history: ondisconnect called connect() or listen()
    misused     \* history: what does not exist and was used

socketVars == <<obj, readline, buffer, line, reattached, misused>>

Object == Client \cup {Self}
\* m_Socket is set and its ctx is the object, in all of these.
Callable == {"connecting", "open", "closing"}
Attached == Callable \cup {"failed", "listening", "stopping", "gone"}

NewObject == [life |-> "alive", held |-> TRUE, rooted |-> FALSE, sock |-> "NULL"]
Empty == [allocated |-> FALSE, pos |-> 0]
NewLine == [size |-> 0, lost |-> FALSE]

SocketInit ==
    /\ obj = [o \in Object |-> IF o = Self THEN NewObject
                               ELSE [NewObject EXCEPT !.life = "none",
                                                      !.held = FALSE]]
    /\ readline = FALSE
    /\ buffer = [o \in Object |-> Empty]
    /\ line = [o \in Object |-> NewLine]
    /\ reattached = FALSE /\ misused = {}

Objects == [life : {"none", "alive", "deleted"}, held : BOOLEAN,
            rooted : BOOLEAN, sock : Attached \cup {"NULL"}]
Buffers == [allocated : BOOLEAN, pos : 0..MaxLine]
Lines == [size : 0..MaxLine + 1, lost : BOOLEAN]

SocketTypeOK ==
    /\ obj \in [Object -> Objects]
    /\ readline \in BOOLEAN /\ reattached \in BOOLEAN
    /\ buffer \in [Object -> Buffers]
    /\ line \in [Object -> Lines]
    /\ misused \subseteq {"socket", "buffer", "parent"}
-----------------------------------------------------------------------------
(* Connecting, listening, accepting *)

\* connect(), listen(): the socket is attached before they can fail, and the
\* object rooted after.
Connecting(o) == [o EXCEPT !.sock = "connecting", !.rooted = TRUE]
Failing(o) == [o EXCEPT !.sock = "failed"]
Listening(o) == [o EXCEPT !.sock = "listening", !.rooted = TRUE]
Detached(o, next) == [o EXCEPT !.sock = next, !.rooted = FALSE]

Connect ==
    /\ obj[Self].held /\ obj[Self].sock = "NULL"
    /\ \E new \in {Connecting(obj[Self]), Failing(obj[Self])} :
            obj' = [obj EXCEPT ![Self] = new]
    /\ UNCHANGED <<readline, buffer, line, reattached, misused>>

Listen ==
    /\ obj[Self].held /\ obj[Self].sock = "NULL"
    /\ \E new \in {Listening(obj[Self]), Failing(obj[Self])} :
            obj' = [obj EXCEPT ![Self] = new]
    /\ UNCHANGED <<readline, buffer, line, reattached, misused>>

\* nidium_socket_wrapper_onconnected()
Connected ==
    /\ obj[Self].sock = "connecting"
    /\ obj' = [obj EXCEPT ![Self].sock = "open"]
    /\ UNCHANGED <<readline, buffer, line, reattached, misused>>

\* nidium_socket_wrapper_onaccept(): there is a line buffer if the server is in
\* readline mode now.
ClientAccepted(c) ==
    /\ obj[Self].sock = "listening" /\ obj[c].life = "none"
    /\ obj' = [obj EXCEPT ![c] = [NewObject EXCEPT !.sock = "open",
                                                   !.rooted = TRUE]]
    /\ buffer' = [buffer EXCEPT ![c].allocated = readline]
    /\ UNCHANGED <<readline, line, reattached, misused>>
-----------------------------------------------------------------------------
(* Disconnecting *)

\* nidium_socket_wrapper_disconnect(): the object is detached, its handler may
\* connect it again or let it listen, then it is unrooted.  The line buffer stays
\* as it is: what it has will come before the first line of another connection.
SelfDisconnected ==
    /\ obj[Self].sock \in Callable
    /\ \E next \in {"NULL", "connecting", "listening", "failed"} :
        /\ obj' = [obj EXCEPT ![Self] = Detached(@, next)]
        /\ reattached' = (reattached \/ next # "NULL")
    /\ UNCHANGED <<readline, buffer, line, misused>>

\* nidium_socket_wrapper_client_disconnect(), of a client of the server
ClientDisconnected(c) ==
    /\ obj[c].sock \in Callable
    /\ IF obj[Self].life = "alive"
       THEN /\ obj' = [obj EXCEPT ![c] = Detached(@, "NULL")]
            /\ UNCHANGED misused
       ELSE misused' = misused \cup {"parent"} /\ UNCHANGED obj
    /\ UNCHANGED <<readline, buffer, line, reattached>>

\* The same, of the server itself, which it takes for a client without parent
\* and leaves: m_Socket keeps the address of a socket that is gone.
StoppedWrongly ==
    /\ obj[Self].sock = "stopping"
    /\ obj' = [obj EXCEPT ![Self] = Detached(@, "NULL")]
    /\ UNCHANGED <<readline, buffer, line, reattached, misused>>
Stopped ==
    /\ obj[Self].sock = "stopping"
    /\ obj' = [obj EXCEPT ![Self].sock = "gone"]
    /\ UNCHANGED <<readline, buffer, line, reattached, misused>>

\* disconnect(), shutdown()
ScriptDisconnects(o) ==
    /\ obj[o].held /\ obj[o].life = "alive" /\ obj[o].sock # "NULL"
    /\ obj' = [obj EXCEPT ![o].sock =
                    CASE @ \in Callable -> "closing"
                      [] @ = "listening" -> "stopping"
                      [] OTHER -> @]
    /\ misused' = IF obj[o].sock = "gone" THEN misused \cup {"socket"}
                  ELSE misused
    /\ UNCHANGED <<readline, buffer, line, reattached>>

\* write(), sendTo(), the timeout, sendFile()
ScriptWrites(o) ==
    /\ obj[o].held /\ obj[o].life = "alive" /\ obj[o].sock # "NULL"
    /\ misused' = IF obj[o].sock = "gone" THEN misused \cup {"socket"}
                  ELSE misused
    /\ UNCHANGED <<obj, readline, buffer, line, reattached>>

Drop(o) ==
    /\ obj[o].held
    /\ obj' = [obj EXCEPT ![o].held = FALSE]
    /\ UNCHANGED <<readline, buffer, line, reattached, misused>>

\* The collector: ~ClassMapper(), ~JSSocketBase(), which disconnects at once a
\* socket that no longer has the object.
Collect(o) ==
    /\ obj[o].life = "alive" /\ ~obj[o].held /\ ~obj[o].rooted
    /\ obj' = [obj EXCEPT ![o] = [@ EXCEPT !.life = "deleted", !.sock = "NULL"]]
    /\ buffer' = [buffer EXCEPT ![o] = Empty]
    /\ line' = [line EXCEPT ![o] = NewLine]
    /\ misused' = IF obj[o].sock = "gone" THEN misused \cup {"socket"}
                  ELSE misused
    /\ UNCHANGED <<readline, reattached>>
-----------------------------------------------------------------------------
(* Reading *)

\* What is left of a packet is added to the buffer, and all is forgotten if it
\* does not fit.
SavedWrongly(b, rest) ==
    [b EXCEPT !.pos = IF rest <= MaxLine THEN @ + rest ELSE 0]
Saved(b, rest) ==
    [b EXCEPT !.pos = IF rest + @ <= MaxLine THEN @ + rest ELSE 0]

Longer(size, more) ==
    IF size + more > MaxLine THEN MaxLine + 1 ELSE size + more

\* onRead() in readline mode of a packet that ends the line or does not, and
\* has rest bytes that no delimiter follows: readFrame() of the first line takes
\* the buffer, the rest is saved.  The handler may switch the mode off, to no
\* effect on this packet.
ReadLines(o, ends, rest, on) ==
    LET b == IF ends THEN [buffer[o] EXCEPT !.pos = 0] ELSE buffer[o]
        now == IF ends THEN NewLine ELSE line[o]
    IN  /\ readline /\ readline' = (on \/ ~ends)
        /\ IF rest > 0 /\ ~b.allocated
           THEN misused' = misused \cup {"buffer"} /\ UNCHANGED <<buffer, line>>
           ELSE /\ buffer' = [buffer EXCEPT ![o] = Saved(b, rest)]
                /\ line' = [line EXCEPT
                        ![o] = [size |-> Longer(now.size, rest),
                                lost |-> now.lost \/ rest + b.pos > MaxLine]]
                /\ UNCHANGED misused
        /\ UNCHANGED <<obj, reattached>>

\* nidium_socket_wrapper_read(), nidium_socket_wrapper_client_read(),
\* isJSCallable().  In the other mode the script is given all that has come,
\* and the buffer stays as it is.
Read(o) ==
    /\ obj[o].sock \in {"open", "closing"}
    /\ IF obj[Self].life = "alive"
       THEN \/ ~readline /\ UNCHANGED socketVars
            \/ \E ends, on \in BOOLEAN, rest \in 0..MaxBytes :
                    ReadLines(o, ends, rest, on)
       ELSE /\ misused' = misused \cup {"parent"}
            /\ UNCHANGED <<obj, readline, buffer, line, reattached>>

\* JSSetter_readline(): switched on, the object has a buffer, its clients that
\* are there already have not.
SetReadline(on) ==
    /\ obj[Self].held
    /\ readline' = on
    /\ buffer' = IF on THEN [buffer EXCEPT ![Self].allocated = TRUE] ELSE buffer
    /\ UNCHANGED <<obj, line, reattached, misused>>

SocketNext ==
    \/ Connect \/ Listen \/ Connected \/ SelfDisconnected \/ Stopped
    \/ \E c \in Client : ClientAccepted(c) \/ ClientDisconnected(c)
    \/ \E o \in Object :
            \/ ScriptDisconnects(o) \/ ScriptWrites(o)
            \/ Drop(o) \/ Collect(o) \/ Read(o)
    \/ \E on \in BOOLEAN : SetReadline(on)

SocketSpec == SocketInit /\ [][SocketNext]_socketVars
-----------------------------------------------------------------------------
\* A socket that may call an object keeps it from the collector, whether the
\* script has dropped it or not, and a client finds its server, of which it
\* only has the address: nothing unroots a server that has listened, even when
\* it was stopped.  A Socket whose ondisconnect handler attaches it again is
\* left out: the root that connect() or listen() finds is the one that goes.
AttachedIsSafe ==
    /\ \A o \in Object :
            obj[o].sock \in Callable \cup {"listening"} =>
                obj[o].rooted \/ (o = Self /\ reattached)
    /\ "parent" \in misused => reattached

\* The line buffer never holds more than it has room for, and unless the line
\* is longer than that it has all that has come since the last delimiter, so
\* that the next one delivers the whole line, however it was cut into packets
\* and whichever lines ended in between.
LineBufferHasTheLine ==
    \A o \in Object :
        /\ buffer[o].pos <= MaxLine
        /\ IF line[o].lost THEN line[o].size > MaxLine
           ELSE buffer[o].pos = line[o].size
=============================================================================
