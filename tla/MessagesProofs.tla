--------------------------- MODULE MessagesProofs ---------------------------
(***************************************************************************)
(* Messages, for every set of objects, messages and threads and every      *)
(* bound: who has a message, who it is for, and what hasPendingMessages()  *)
(* may answer.                                                             *)
(***************************************************************************)
EXTENDS Messages, ListsProofs

\* The calls of Messages_handle() under way: the outer one waits in a handler,
\* and only the inner one may have a message to enqueue, before it reads any.
Frames(s, p) ==
    /\ Len(s) <= 2
    /\ \A i \in 1..Len(s) : s[i].sync <=> (i = Len(s) /\ p # NoMessage)
    /\ p # NoMessage => s # <<>>
    /\ Len(s) = 2 => p # NoMessage
    /\ \A i \in 1..Len(s) : i < Len(s) => s[i].cur # NoMessage
    /\ \A i \in 1..Len(s) :
            s[i].toPost # NoMessage => i = Len(s) /\ s[i].cur = NoMessage
    /\ \A i, j \in 1..Len(s) :
            i # j => s[i].cur # s[j].cur \/ s[i].cur = NoMessage

CurrentOf(s) == {s[i].cur : i \in 1..Len(s)} \cap Message
ToPostOf(s) == {s[i].toPost : i \in 1..Len(s)} \cap Message
Posters == {inPost[t] : t \in Thread} \cap Message

\* No message is being posted by two threads.
PostedOnce ==
    /\ \A t, u \in Thread :
            inPost[t] = inPost[u] /\ inPost[t] # NoMessage => t = u
    /\ ToPostOf(stack) \cap Posters = {}

\* The owners of a message, and the messages that have one.
Owned(queued, handled, posted, allocated) ==
    /\ queued \cap handled = {}
    /\ posted \cap (queued \cup handled) = {}
    /\ allocated = queued \cup handled \cup posted

Allocated == {m \in Message : info[m] # Free}

Owners ==
    /\ NoDuplicates(list)
    /\ Owned(Elements(list), CurrentOf(stack), ToPostOf(stack) \cup Posters,
             Allocated)

\* Nobody uses Messages once the reader is gone.
NobodyLeft ==
    ~reader => stack = <<>> /\ list = <<>> /\ Posters = {}

IInv ==
    /\ TypeOK
    /\ Frames(stack, posting)
    /\ PostedOnce
    /\ Owners
    /\ QueuedForTheLiving
    /\ PendingCoversQueued
    /\ NobodyLeft
-----------------------------------------------------------------------------
(* The stack. *)

LEMMA Replaced ==
    ASSUME NEW T, NEW s \in Seq(T), s # <<>>, NEW f \in T
    PROVE  LET r == [s EXCEPT ![Len(s)] = f]
           IN  /\ Len(s) \in Nat /\ Len(s) >= 1 /\ Len(r) = Len(s)
               /\ r \in Seq(T) /\ r # <<>>
               /\ r[Len(s)] = f
               /\ \A i \in 1..Len(s) : i # Len(s) => r[i] = s[i]
  OBVIOUS

LEMMA Pushed ==
    ASSUME NEW T, NEW s \in Seq(T), NEW f \in T
    PROVE  /\ Len(s) \in Nat /\ Append(s, f) \in Seq(T)
           /\ Len(Append(s, f)) = Len(s) + 1
           /\ Append(s, f)[Len(s) + 1] = f
           /\ \A i \in 1..Len(s) : Append(s, f)[i] = s[i]
  OBVIOUS

LEMMA Popped ==
    ASSUME NEW T, NEW s \in Seq(T), s # <<>>
    PROVE  LET r == SubSeq(s, 1, Len(s) - 1)
           IN  /\ Len(s) \in Nat /\ Len(s) >= 1 /\ Len(r) = Len(s) - 1
               /\ r \in Seq(T)
               /\ \A i \in 1..Len(r) : r[i] = s[i]
<1> DEFINE r == SubSeq(s, 1, Len(s) - 1)
<1>1. Len(s) \in Nat /\ Len(s) >= 1 /\ \A i \in 1..Len(s) : s[i] \in T
  OBVIOUS
<1>2. r = [i \in 1..(Len(s) - 1) |-> s[i]]
  BY <1>1
<1>3. Len(s) - 1 \in Nat
  BY <1>1
<1>4. [i \in 1..(Len(s) - 1) |-> s[i]] \in [1..(Len(s) - 1) -> T]
  BY <1>1
<1>5. r \in Seq(T) /\ Len(r) = Len(s) - 1
  <2> HIDE DEF r
  <2> QED BY <1>2, <1>3, <1>4
<1> QED BY <1>1, <1>2, <1>5

\* A call that is only counted down.
LEMMA AlikeFrames ==
    ASSUME NEW s \in Seq(Frame), NEW c \in Seq(Frame), Len(c) = Len(s),
           \A i \in 1..Len(s) : /\ c[i].cur = s[i].cur
                                /\ c[i].toPost = s[i].toPost
                                /\ c[i].sync = s[i].sync,
           NEW p, Frames(s, p)
    PROVE  /\ Frames(c, p)
           /\ CurrentOf(c) = CurrentOf(s)
           /\ ToPostOf(c) = ToPostOf(s)
<1>1. Frames(c, p)
  BY DEF Frames
<1>2. /\ CurrentOf(c) = CurrentOf(s)
      /\ ToPostOf(c) = ToPostOf(s)
  BY DEF CurrentOf, ToPostOf
<1> QED BY <1>1, <1>2

\* postMessage() calls Messages_handle().
LEMMA PushedFrames ==
    ASSUME NEW s \in Seq(Frame), NEW f \in Frame, Frames(s, NoMessage),
           s # <<>> => s[Len(s)].cur # NoMessage,
           NEW p, f.sync <=> p # NoMessage, s # <<>> => p # NoMessage,
           f.cur = NoMessage
    PROVE  /\ Append(s, f) \in Seq(Frame)
           /\ Frames(Append(s, f), p)
           /\ CurrentOf(Append(s, f)) = CurrentOf(s)
           /\ ToPostOf(Append(s, f)) = {f.toPost} \cap Message
           /\ ToPostOf(s) = {}
<1> DEFINE r == Append(s, f)
<1>1. /\ r \in Seq(Frame) /\ Len(s) \in Nat /\ Len(r) = Len(s) + 1
      /\ r[Len(s) + 1] = f
      /\ \A i \in 1..Len(s) : r[i] = s[i]
  BY Pushed
<1>2. Len(s) \in {0, 1} /\ (s # <<>> <=> Len(s) = 1)
  <2>1. Len(s) <= 2 /\ Len(s) # 2
    BY DEF Frames
  <2>2. s # <<>> <=> Len(s) # 0
    OBVIOUS
  <2>3. Len(s) \in Nat
    OBVIOUS
  <2>4. \A n \in Nat : n <= 2 /\ n # 2 => n = 0 \/ n = 1
    OBVIOUS
  <2>5. Len(s) = 0 \/ Len(s) = 1
    BY <2>1, <2>3, <2>4, Zenon
  <2>6. 0 # 1
    OBVIOUS
  <2> QED BY <2>2, <2>5, <2>6, Zenon
<1>3. \A i \in 1..Len(s) :
         i = 1 /\ s[i].cur # NoMessage /\ s[i].toPost = NoMessage /\ ~s[i].sync
  BY <1>2 DEF Frames
<1> HIDE DEF r
<1>4. Frames(r, p)
  BY <1>1, <1>2, <1>3 DEF Frames
<1>5. CurrentOf(r) = CurrentOf(s)
  BY <1>1, <1>2, <1>3, NamesAssumption DEF CurrentOf
<1>6. ToPostOf(r) = {f.toPost} \cap Message /\ ToPostOf(s) = {}
  BY <1>1, <1>2, <1>3, NamesAssumption DEF ToPostOf
<1> QED BY <1>1, <1>4, <1>5, <1>6 DEF r

\* Messages_handle() returns.
LEMMA PoppedFrames ==
    ASSUME NEW s \in Seq(Frame), s # <<>>, NEW p, Frames(s, p),
           s[Len(s)].cur = NoMessage, s[Len(s)].toPost = NoMessage
    PROVE  LET r == SubSeq(s, 1, Len(s) - 1)
           IN  /\ r \in Seq(Frame)
               /\ Frames(r, NoMessage)
               /\ CurrentOf(r) = CurrentOf(s)
               /\ ToPostOf(r) = ToPostOf(s)
<1> DEFINE r == SubSeq(s, 1, Len(s) - 1)
<1>1. /\ r \in Seq(Frame) /\ Len(s) \in Nat /\ Len(s) >= 1
      /\ Len(r) = Len(s) - 1
      /\ \A i \in 1..Len(r) : r[i] = s[i]
  BY Popped
<1> HIDE DEF r
<1>2. Len(s) \in {1, 2}
  BY <1>1 DEF Frames
<1>3. Frames(r, NoMessage)
  BY <1>1, <1>2 DEF Frames
<1>4. CurrentOf(r) = CurrentOf(s)
  BY <1>1, <1>2, NamesAssumption DEF CurrentOf
<1>5. ToPostOf(r) = ToPostOf(s)
  BY <1>1, <1>2, NamesAssumption DEF ToPostOf
<1> QED BY <1>1, <1>3, <1>4, <1>5 DEF r

\* The innermost call goes on.
LEMMA TopFrames ==
    ASSUME NEW s \in Seq(Frame), s # <<>>, NEW p, Frames(s, p), NEW f \in Frame,
           f.sync = s[Len(s)].sync,
           f.toPost # NoMessage => f.cur = NoMessage,
           f.cur \in CurrentOf(s) => f.cur = s[Len(s)].cur
    PROVE  LET r == [s EXCEPT ![Len(s)] = f]
           IN  /\ r \in Seq(Frame) /\ r # <<>>
               /\ Frames(r, p)
               /\ CurrentOf(r) = (CurrentOf(s) \ {s[Len(s)].cur})
                                    \cup ({f.cur} \cap Message)
               /\ ToPostOf(r) = {f.toPost} \cap Message
               /\ ToPostOf(s) = {s[Len(s)].toPost} \cap Message
<1> DEFINE r == [s EXCEPT ![Len(s)] = f]
<1>1. /\ r \in Seq(Frame) /\ Len(s) \in Nat /\ Len(s) >= 1
      /\ Len(r) = Len(s) /\ r # <<>>
      /\ r[Len(s)] = f
      /\ \A i \in 1..Len(s) : i # Len(s) => r[i] = s[i]
  BY Replaced
<1> HIDE DEF r
<1>2. Len(s) \in {1, 2}
  BY <1>1 DEF Frames
<1>3. \A i \in 1..Len(s) : s[i] \in Frame
  BY <1>1
<1>4. Frames(r, p)
  <2>1. /\ Len(r) <= 2 /\ (p # NoMessage => r # <<>>)
        /\ Len(r) = 2 => p # NoMessage
        /\ \A i \in 1..Len(r) : r[i].sync <=> (i = Len(r) /\ p # NoMessage)
        /\ \A i \in 1..Len(r) : i < Len(r) => r[i].cur # NoMessage
    BY <1>1, <1>2 DEF Frames
  <2>2. \A i \in 1..Len(r) :
           r[i].toPost # NoMessage => i = Len(r) /\ r[i].cur = NoMessage
    BY <1>1, <1>2 DEF Frames
  <2>3. ASSUME NEW i \in 1..Len(r), NEW j \in 1..Len(r), i # j
        PROVE  r[i].cur # r[j].cur \/ r[i].cur = NoMessage
    <3>1. \A k \in 1..Len(s) : k # Len(s) =>
             /\ s[k].cur \in Message \cup {NoMessage}
             /\ s[k].cur # s[Len(s)].cur \/ s[k].cur = NoMessage
      <4>1. \A k \in 1..Len(s) : s[k].cur \in Message \cup {NoMessage}
        BY <1>3 DEF Frame
      <4>2. Len(s) \in 1..Len(s)
        BY <1>1
      <4>3. \A k \in 1..Len(s) : k # Len(s) =>
               s[k].cur # s[Len(s)].cur \/ s[k].cur = NoMessage
        BY <4>2 DEF Frames
      <4> QED BY <4>1, <4>3
    <3>2. \A k \in 1..Len(s) : s[k].cur \in Message => s[k].cur \in CurrentOf(s)
      BY DEF CurrentOf
    <3> QED BY <1>1, <1>2, <2>3, <3>1, <3>2
  <2> QED BY <2>1, <2>2, <2>3, Zenon DEF Frames
<1>5. CurrentOf(r) = (CurrentOf(s) \ {s[Len(s)].cur}) \cup ({f.cur} \cap Message)
  BY <1>1, <1>2, NamesAssumption DEF CurrentOf, Frames
<1>6. /\ ToPostOf(r) = {f.toPost} \cap Message
      /\ ToPostOf(s) = {s[Len(s)].toPost} \cap Message
  BY <1>1, <1>2, NamesAssumption DEF ToPostOf, Frames
<1> QED BY <1>1, <1>4, <1>5, <1>6 DEF r

LEMMA ExceptThree ==
    ASSUME NEW f, NEW a, NEW b, NEW c, NEW x, NEW y, NEW v
    PROVE  [f EXCEPT ![a] = x, ![b] = y, ![c] = v]
                = [z \in DOMAIN f |->
                        IF z = c THEN v ELSE IF z = b THEN y
                        ELSE IF z = a THEN x ELSE f[z]]
  BY Zenon

\* The innermost call reads a message, or is done with one.
LEMMA ReadsRecord ==
    ASSUME NEW f \in Frame, NEW c, NEW k, NEW n
    PROVE  [f EXCEPT !.cur = c, !.calls = k, !.nread = n]
              = [cur |-> c, calls |-> k, nread |-> n,
                 stopOnAsync |-> f.stopOnAsync, sync |-> f.sync,
                 toPost |-> f.toPost]
<1>1. [z \in DOMAIN f |->
            IF z = "nread" THEN n ELSE IF z = "calls" THEN k
            ELSE IF z = "cur" THEN c ELSE f[z]]
          = [cur |-> c, calls |-> k, nread |-> n, stopOnAsync |-> f.stopOnAsync,
             sync |-> f.sync, toPost |-> f.toPost]
  BY DEF Frame
<1> QED BY <1>1, ExceptThree, Zenon

LEMMA ReturnsRecord ==
    ASSUME NEW f \in Frame, NEW c, NEW k, NEW b
    PROVE  [f EXCEPT !.cur = c, !.calls = k, !.stopOnAsync = b]
              = [cur |-> c, calls |-> k, nread |-> f.nread, stopOnAsync |-> b,
                 sync |-> f.sync, toPost |-> f.toPost]
<1>1. [z \in DOMAIN f |->
            IF z = "stopOnAsync" THEN b ELSE IF z = "calls" THEN k
            ELSE IF z = "cur" THEN c ELSE f[z]]
          = [cur |-> c, calls |-> k, nread |-> f.nread, stopOnAsync |-> b,
             sync |-> f.sync, toPost |-> f.toPost]
  BY DEF Frame
<1> QED BY <1>1, ExceptThree, Zenon

\* A handler makes a call.
LEMMA CalledFrames ==
    ASSUME stack \in Seq(Frame), MayCall, NEW p, Frames(stack, p)
    PROVE  /\ Called \in Seq(Frame) /\ Frames(Called, p)
           /\ CurrentOf(Called) = CurrentOf(stack)
           /\ ToPostOf(Called) = {} /\ ToPostOf(stack) = {}
           /\ Called # <<>> <=> stack # <<>>
           /\ Called # <<>> => Called[Len(Called)].cur # NoMessage
<1>1. CASE stack = <<>>
  BY <1>1 DEF Called, ToPostOf
<1>2. CASE stack # <<>>
  <2> DEFINE k == Len(stack)
             g == [Top EXCEPT !.calls = Top.calls - 1]
             c == [stack EXCEPT ![k] = g]
  <2>1. Called = c
    BY <1>2, Zenon DEF Called, Top
  <2>2. k \in Nat /\ k >= 1 /\ Top \in Frame
    BY <1>2 DEF Top
  <2>3. Top.calls > 0 /\ Top.cur # NoMessage
    BY <1>2, Zenon DEF MayCall
  <2>4. Top.calls \in Nat /\ Top.calls <= MaxCalls
    BY <2>2, BoundsAssumption DEF Frame
  <2>5. Top.calls - 1 \in 0..MaxCalls
    BY <2>3, <2>4, BoundsAssumption
  <2>6. /\ g \in Frame
        /\ g.cur = Top.cur /\ g.toPost = Top.toPost /\ g.sync = Top.sync
    BY <2>2, <2>5 DEF Frame
  <2> HIDE DEF g
  <2>7. /\ c \in Seq(Frame) /\ Len(c) = k /\ c # <<>>
        /\ c[k] = g
        /\ \A i \in 1..k : i # k => c[i] = stack[i]
    BY <1>2, <2>6, Replaced
  <2> HIDE DEF c
  <2>8. \A i \in 1..k : /\ c[i].cur = stack[i].cur
                        /\ c[i].toPost = stack[i].toPost
                        /\ c[i].sync = stack[i].sync
    BY <2>6, <2>7, Zenon DEF Top
  <2>9. /\ Frames(c, p) /\ CurrentOf(c) = CurrentOf(stack)
        /\ ToPostOf(c) = ToPostOf(stack)
    BY <2>7, <2>8, AlikeFrames, Zenon
  <2>10. ToPostOf(stack) = {}
    BY <1>2, <2>2, <2>3, NamesAssumption DEF ToPostOf, Frames, Top
  <2>11. c[Len(c)].cur # NoMessage
    BY <2>3, <2>6, <2>7
  <2> QED BY <1>2, <2>1, <2>7, <2>9, <2>10, <2>11
<1> QED BY <1>1, <1>2
-----------------------------------------------------------------------------
(* What is counted. *)

\* The messages for o that are still to come.
Coming(i, s, o) == {m \in Message : i[m].dest = o /\ m \notin CurrentOf(s)}

Covers(i, s, p, A) == \A o \in A : Cardinality(Coming(i, s, o)) <= p[o]

LEMMA ComingIsQueued ==
    /\ PendingCoversQueued <=> Covers(info, stack, pending, alive)
    /\ PendingCoversQueued' <=> Covers(info', stack', pending', alive')
<1>1. \A o : {m \in MessagesFor(o) : m \notin Handled} = Coming(info, stack, o)
  BY DEF MessagesFor, Handled, Coming, CurrentOf
<1>2. \A o : {m \in MessagesFor(o)' : m \notin Handled'}
                = Coming(info', stack', o)
  BY DEF MessagesFor, Handled, Coming, CurrentOf
<1>3. PendingCoversQueued <=> Covers(info, stack, pending, alive)
  BY <1>1, Zenon DEF PendingCoversQueued, Covers
<1>4. PendingCoversQueued' <=> Covers(info', stack', pending', alive')
  BY <1>2, Zenon DEF PendingCoversQueued, Covers
<1> QED BY <1>3, <1>4

LEMMA ComingIsFinite ==
    ASSUME NEW i, NEW s, NEW o
    PROVE  /\ IsFiniteSet(Coming(i, s, o))
           /\ Cardinality(Coming(i, s, o)) \in Nat
<1>1. Coming(i, s, o) \subseteq Message
  BY DEF Coming
<1>2. IsFiniteSet(Coming(i, s, o))
  BY <1>1, MessageAssumption, FS_Subset
<1> QED BY <1>2, FS_CardinalityType

\* No message is added, and no count changes.
LEMMA FewerComing ==
    ASSUME NEW i, NEW s, NEW p, NEW A, Covers(i, s, p, A),
           NEW j, NEW t, NEW q, NEW B, B \subseteq A,
           \A o \in B : q[o] = p[o] /\ p[o] \in Nat,
           \A o \in B : Coming(j, t, o) \subseteq Coming(i, s, o)
    PROVE  Covers(j, t, q, B)
<1> SUFFICES ASSUME NEW o \in B PROVE Cardinality(Coming(j, t, o)) <= q[o]
  BY DEF Covers
<1>1. Cardinality(Coming(j, t, o)) <= Cardinality(Coming(i, s, o))
  BY ComingIsFinite, FS_Subset
<1>2. /\ Cardinality(Coming(j, t, o)) \in Nat
      /\ Cardinality(Coming(i, s, o)) \in Nat
  BY ComingIsFinite
<1>3. Cardinality(Coming(i, s, o)) <= p[o] /\ q[o] = p[o] /\ p[o] \in Nat
  BY DEF Covers
<1> HIDE DEF Coming
<1> QED BY <1>1, <1>2, <1>3

\* The object o counts a message that it did not have.
LEMMA OneMoreComing ==
    ASSUME NEW i, NEW s, NEW p \in [Object -> Nat], NEW A \in SUBSET Object,
           Covers(i, s, p, A), NEW j, NEW t, NEW o \in Object, NEW m,
           Coming(j, t, o) = Coming(i, s, o) \cup {m},
           \A x \in A : x # o => Coming(j, t, x) = Coming(i, s, x)
    PROVE  Covers(j, t, [p EXCEPT ![o] = @ + 1], A)
<1> SUFFICES ASSUME NEW x \in A
             PROVE  Cardinality(Coming(j, t, x)) <= [p EXCEPT ![o] = @ + 1][x]
  BY DEF Covers
<1>1. Cardinality(Coming(i, s, x)) <= p[x] /\ p[x] \in Nat
  BY DEF Covers
<1>2. Cardinality(Coming(i, s, x)) \in Nat /\ IsFiniteSet(Coming(i, s, x))
  BY ComingIsFinite
<1>3. CASE x = o
  <2>1. Cardinality(Coming(j, t, x)) <= Cardinality(Coming(i, s, x)) + 1
    <3>1. Cardinality(Coming(i, s, x) \cup {m})
            = IF m \in Coming(i, s, x) THEN Cardinality(Coming(i, s, x))
              ELSE Cardinality(Coming(i, s, x)) + 1
      BY <1>2, FS_AddElement
    <3> QED BY <1>2, <1>3, <3>1
  <2>2. Cardinality(Coming(j, t, x)) \in Nat
    BY ComingIsFinite
  <2>3. [p EXCEPT ![o] = @ + 1][x] = p[x] + 1
    BY <1>3
  <2> QED BY <1>1, <1>2, <2>1, <2>2, <2>3
<1>4. CASE x # o
  BY <1>1, <1>4
<1> QED BY <1>3, <1>4

\* An object with a message to come counts one at least.
LEMMA SomeComing ==
    ASSUME NEW i, NEW s, NEW p, NEW A, Covers(i, s, p, A), NEW o \in A,
           p[o] \in Nat, NEW m \in Coming(i, s, o)
    PROVE  p[o] >= 1
<1>1. IsFiniteSet(Coming(i, s, o)) /\ Cardinality(Coming(i, s, o)) \in Nat
  BY ComingIsFinite
<1>2. Cardinality(Coming(i, s, o)) # 0
  BY <1>1, FS_EmptySet
<1>3. Cardinality(Coming(i, s, o)) <= p[o]
  BY DEF Covers
<1> QED BY <1>1, <1>2, <1>3

\* The object o counts down a message that it had.
LEMMA OneLessComing ==
    ASSUME NEW i, NEW s, NEW p \in [Object -> Nat], NEW A \in SUBSET Object,
           Covers(i, s, p, A), NEW j, NEW t, NEW o \in Object, NEW m,
           m \in Coming(i, s, o),
           Coming(j, t, o) = Coming(i, s, o) \ {m},
           \A x \in A : x # o => Coming(j, t, x) = Coming(i, s, x)
    PROVE  Covers(j, t, [p EXCEPT ![o] = @ - 1], A)
<1>1. ASSUME NEW x \in A
      PROVE  /\ Cardinality(Coming(i, s, x)) <= p[x] /\ p[x] \in Nat
             /\ Cardinality(Coming(i, s, x)) \in Nat
             /\ IsFiniteSet(Coming(i, s, x))
  BY ComingIsFinite DEF Covers
<1>2. /\ Cardinality(Coming(j, t, o)) = Cardinality(Coming(i, s, o)) - 1
      /\ Cardinality(Coming(j, t, o)) \in Nat
      /\ Cardinality(Coming(i, s, o)) \in Nat
  <2>1. IsFiniteSet(Coming(i, s, o))
    BY ComingIsFinite
  <2>2. Cardinality(Coming(i, s, o) \ {m})
           = IF m \in Coming(i, s, o) THEN Cardinality(Coming(i, s, o)) - 1
             ELSE Cardinality(Coming(i, s, o))
    BY <2>1, FS_RemoveElement
  <2> QED BY <2>2, ComingIsFinite
<1>3. ASSUME NEW x \in A
      PROVE  Cardinality(Coming(j, t, x)) <= [p EXCEPT ![o] = @ - 1][x]
  <2>1. CASE x = o
    <3>1. [p EXCEPT ![o] = @ - 1][x] = p[x] - 1
      BY <2>1
    <3> QED BY <1>1, <1>2, <2>1, <3>1
  <2>2. CASE x # o
    BY <1>1, <2>2
  <2> QED BY <2>1, <2>2
<1> QED BY <1>3 DEF Covers
-----------------------------------------------------------------------------
(* Posting. *)

LEMMA LivingIs ==
    /\ QueuedForTheLiving <=>
          \A m \in Elements(list) \cup ToPostOf(stack) \cup Posters :
                info[m].dest \in alive
    /\ QueuedForTheLiving' <=>
          \A m \in Elements(list') \cup ToPostOf(stack') \cup Posters' :
                info'[m].dest \in alive'
<1>1. BeingPosted = ToPostOf(stack) \cup Posters
  BY DEF BeingPosted, ToPostOf, Posters
<1>2. BeingPosted' = ToPostOf(stack') \cup Posters'
  BY DEF BeingPosted, ToPostOf, Posters
<1>3. QueuedForTheLiving <=>
          \A m \in Elements(list) \cup ToPostOf(stack) \cup Posters :
                info[m].dest \in alive
  BY <1>1, Zenon DEF QueuedForTheLiving
<1>4. QueuedForTheLiving' <=>
          \A m \in Elements(list') \cup ToPostOf(stack') \cup Posters' :
                info'[m].dest \in alive'
  BY <1>2, Zenon DEF QueuedForTheLiving
<1> QED BY <1>3, <1>4

LEMMA OwnersAreMessages ==
    ASSUME TypeOK
    PROVE  /\ Elements(list) \subseteq Message
           /\ CurrentOf(stack) \subseteq Message
           /\ ToPostOf(stack) \subseteq Message /\ Posters \subseteq Message
<1>1. \A i \in 1..Len(list) : list[i] \in Message
  BY DEF TypeOK
<1> QED BY <1>1 DEF Elements, CurrentOf, ToPostOf, Posters

\* A new message is nobody's, and its object counts it.
LEMMA PrepareKeeps ==
    ASSUME IInv, NEW o \in Object, NEW m \in Message, NEW e \in Event,
           NEW a \in BOOLEAN, Prepare(o, m, e, a)
    PROVE  /\ reader /\ o \in alive
           /\ info' \in [Message -> {Free} \cup Posted]
           /\ pending' \in [Object -> 0..MaxPending]
           /\ info'[m].dest = o
           /\ \A x \in Message : x # m => info'[x] = info[x]
           /\ m \notin Elements(list) \cup CurrentOf(stack)
                        \cup ToPostOf(stack) \cup Posters
           /\ Allocated' = Allocated \cup {m}
           /\ \A s : CurrentOf(s) = CurrentOf(stack)
                        => Covers(info', s, pending', alive)
<1>1. /\ reader /\ o \in alive /\ info[m] = Free /\ pending[o] < MaxPending
      /\ info' = [info EXCEPT ![m] = Info(o, e, a)]
      /\ pending' = [pending EXCEPT ![o] = @ + 1]
      /\ TypeOK /\ Owners /\ PendingCoversQueued
  BY DEF Prepare, IInv
<1>2. /\ Info(o, e, a) \in Posted /\ Info(o, e, a).dest = o
      /\ Info(o, e, a) # Free
  BY NamesAssumption DEF Info, Posted, Free
<1>3. /\ info \in [Message -> {Free} \cup Posted]
      /\ pending \in [Object -> 0..MaxPending] /\ alive \in SUBSET Object
  BY <1>1 DEF TypeOK
<1>4. /\ info' \in [Message -> {Free} \cup Posted]
      /\ info'[m].dest = o /\ info'[m] # Free
      /\ \A x \in Message : x # m => info'[x] = info[x]
  BY <1>1, <1>2, <1>3
<1>5. pending' \in [Object -> 0..MaxPending]
  BY <1>1, <1>3, BoundsAssumption
<1>6. m \notin Allocated /\ Allocated' = Allocated \cup {m}
  BY <1>1, <1>4 DEF Allocated
<1>7. m \notin Elements(list) \cup CurrentOf(stack) \cup ToPostOf(stack)
                \cup Posters
  BY <1>1, <1>6 DEF Owners, Owned
<1>8. ASSUME NEW s, CurrentOf(s) = CurrentOf(stack)
      PROVE  Covers(info', s, pending', alive)
  <2>1. info[m].dest = NoObject
    BY <1>1 DEF Free, Info
  <2>2. Coming(info', s, o) = Coming(info, stack, o) \cup {m}
    BY <1>4, <1>7, <1>8 DEF Coming
  <2>3. \A x \in alive : x # o => Coming(info', s, x) = Coming(info, stack, x)
    BY <1>3, <1>4, <1>8, <2>1, NamesAssumption DEF Coming
  <2>4. Covers(info, stack, pending, alive)
    BY <1>1, ComingIsQueued
  <2>5. pending \in [Object -> Nat]
    BY <1>3, BoundsAssumption
  <2>6. Covers(info', s, [pending EXCEPT ![o] = @ + 1], alive)
    BY <1>3, <2>2, <2>3, <2>4, <2>5, OneMoreComing
  <2> QED BY <1>1, <2>6
<1> QED BY <1>1, <1>4, <1>5, <1>6, <1>7, <1>8

LEMMA PostSyncKeeps ==
    ASSUME IInv, NEW o \in Object, NEW m \in Message, NEW e \in Event,
           PostSync(o, m, e)
    PROVE  IInv'
<1> USE NamesAssumption
<1>1. /\ MayCall /\ posting = NoMessage /\ Prepare(o, m, e, FALSE)
      /\ posting' = m /\ stack' = Append(Called, NewFrame(TRUE, m))
      /\ syncWaits' = TRUE
      /\ reader' = reader /\ list' = list /\ alive' = alive /\ inPost' = inPost
  BY DEF PostSync, MayPostSync
<1>2. /\ TypeOK /\ Frames(stack, NoMessage) /\ PostedOnce /\ Owners
      /\ QueuedForTheLiving
  BY <1>1 DEF IInv
<1>3. /\ reader /\ o \in alive
      /\ info' \in [Message -> {Free} \cup Posted]
      /\ pending' \in [Object -> 0..MaxPending]
      /\ info'[m].dest = o
      /\ \A x \in Message : x # m => info'[x] = info[x]
      /\ m \notin Elements(list) \cup CurrentOf(stack) \cup ToPostOf(stack)
                        \cup Posters
      /\ Allocated' = Allocated \cup {m}
      /\ \A s : CurrentOf(s) = CurrentOf(stack)
                   => Covers(info', s, pending', alive)
  BY <1>1, PrepareKeeps
<1>4. /\ NewFrame(TRUE, m) \in Frame
      /\ NewFrame(TRUE, m).cur = NoMessage /\ NewFrame(TRUE, m).sync
      /\ NewFrame(TRUE, m).toPost = m
  BY BoundsAssumption DEF NewFrame, Frame
<1>5. /\ Called \in Seq(Frame) /\ Frames(Called, NoMessage)
      /\ CurrentOf(Called) = CurrentOf(stack)
      /\ ToPostOf(Called) = {} /\ ToPostOf(stack) = {}
      /\ Called # <<>> => Called[Len(Called)].cur # NoMessage
  BY <1>1, <1>2, CalledFrames DEF TypeOK
<1>6. m # NoMessage
  OBVIOUS
<1>7. /\ stack' \in Seq(Frame) /\ Frames(stack', m)
      /\ CurrentOf(stack') = CurrentOf(stack)
      /\ ToPostOf(stack') = {m}
  <2> DEFINE f == NewFrame(TRUE, m)
             r == Append(Called, f)
  <2>1. /\ f \in Frame /\ f.cur = NoMessage /\ f.toPost = m
        /\ f.sync <=> m # NoMessage
    BY <1>4, <1>6, Zenon
  <2> HIDE DEF f
  <2>2. /\ r \in Seq(Frame) /\ Frames(r, m)
        /\ CurrentOf(r) = CurrentOf(Called)
        /\ ToPostOf(r) = {f.toPost} \cap Message
    BY <1>5, <1>6, <2>1, PushedFrames, Zenon
  <2>3. {f.toPost} \cap Message = {m}
    BY <2>1
  <2> QED BY <1>1, <1>5, <2>2, <2>3, Zenon DEF f
<1>8. Posters' = Posters
  BY <1>1 DEF Posters
<1>9. TypeOK'
  BY <1>1, <1>2, <1>3, <1>7 DEF TypeOK
<1>10. PostedOnce'
  BY <1>1, <1>2, <1>3, <1>7, <1>8 DEF PostedOnce
<1>11. Owners'
  <2>1. /\ Elements(list') = Elements(list) /\ CurrentOf(stack') = CurrentOf(stack)
        /\ ToPostOf(stack') = ToPostOf(stack) \cup {m}
        /\ Posters' = Posters /\ NoDuplicates(list')
    BY <1>1, <1>2, <1>5, <1>7, <1>8 DEF Owners
  <2>2. Owned(Elements(list), CurrentOf(stack), ToPostOf(stack) \cup Posters,
              Allocated)
    BY <1>2 DEF Owners
  <2>3. Owned(Elements(list), CurrentOf(stack),
              (ToPostOf(stack) \cup {m}) \cup Posters, Allocated')
    BY <1>3, <2>2 DEF Owned
  <2> QED BY <2>1, <2>3 DEF Owners
<1>12. QueuedForTheLiving'
  BY <1>1, <1>2, <1>3, <1>5, <1>7, <1>8, LivingIs, OwnersAreMessages
<1>13. PendingCoversQueued'
  BY <1>1, <1>3, <1>7, ComingIsQueued
<1>14. NobodyLeft'
  BY <1>1, <1>3 DEF NobodyLeft
<1> QED BY <1>1, <1>7, <1>9, <1>10, <1>11, <1>12, <1>13, <1>14, Zenon DEF IInv

LEMMA PostAsyncKeeps ==
    ASSUME IInv, NEW o \in Object, NEW m \in Message, NEW e \in Event,
           NEW a \in BOOLEAN, PostAsync(o, m, e, a)
    PROVE  IInv'
<1>1. /\ MayCall /\ Prepare(o, m, e, a)
      /\ list' = Append(list, m) /\ stack' = Called
      /\ reader' = reader /\ posting' = posting /\ alive' = alive
      /\ inPost' = inPost /\ syncWaits' = syncWaits
  BY DEF PostAsync
<1>2. /\ TypeOK /\ Frames(stack, posting) /\ PostedOnce /\ Owners
      /\ QueuedForTheLiving
  BY DEF IInv
<1>3. /\ reader /\ o \in alive
      /\ info' \in [Message -> {Free} \cup Posted]
      /\ pending' \in [Object -> 0..MaxPending]
      /\ info'[m].dest = o
      /\ \A x \in Message : x # m => info'[x] = info[x]
      /\ m \notin Elements(list) \cup CurrentOf(stack) \cup ToPostOf(stack)
                        \cup Posters
      /\ Allocated' = Allocated \cup {m}
      /\ \A s : CurrentOf(s) = CurrentOf(stack)
                   => Covers(info', s, pending', alive)
  BY <1>1, PrepareKeeps
<1>4. /\ stack' \in Seq(Frame) /\ Frames(stack', posting')
      /\ CurrentOf(stack') = CurrentOf(stack)
      /\ ToPostOf(stack') = {} /\ ToPostOf(stack) = {}
  BY <1>1, <1>2, CalledFrames DEF TypeOK
<1>5. /\ list' \in Seq(Message) /\ Elements(list') = Elements(list) \cup {m}
      /\ NoDuplicates(list')
  BY <1>1, <1>2, <1>3, Appended DEF TypeOK, Owners
<1>6. Posters' = Posters
  BY <1>1 DEF Posters
<1>7. TypeOK'
  BY <1>1, <1>2, <1>3, <1>4, <1>5 DEF TypeOK
<1>8. PostedOnce'
  BY <1>1, <1>2, <1>4, <1>6 DEF PostedOnce
<1>9. Owners'
  BY <1>2, <1>3, <1>4, <1>5, <1>6 DEF Owners, Owned
<1>10. QueuedForTheLiving'
  BY <1>1, <1>2, <1>3, <1>4, <1>5, <1>6, LivingIs, OwnersAreMessages
<1>11. PendingCoversQueued'
  BY <1>1, <1>3, <1>4, ComingIsQueued
<1>12. NobodyLeft'
  BY <1>1, <1>3 DEF NobodyLeft
<1> QED BY <1>4, <1>7, <1>8, <1>9, <1>10, <1>11, <1>12, Zenon DEF IInv

\* A message that is enqueued is counted and cared for as before.
LEMMA SameComing ==
    ASSUME PendingCoversQueued, TypeOK, CurrentOf(stack') = CurrentOf(stack),
           info' = info, pending' = pending, alive' = alive
    PROVE  PendingCoversQueued'
<1>1. \A o : Coming(info', stack', o) = Coming(info, stack, o)
  BY DEF Coming
<1>2. Covers(info, stack, pending, alive)
  BY ComingIsQueued
<1>3. Covers(info', stack', pending', alive')
  BY <1>1, <1>2, Zenon DEF Covers
<1> QED BY <1>3, ComingIsQueued

LEMMA EnqueueSyncKeeps ==
    ASSUME IInv, EnqueueSync
    PROVE  IInv'
<1> DEFINE f == [Top EXCEPT !.toPost = NoMessage]
<1>1. /\ stack # <<>> /\ Top.toPost # NoMessage
      /\ list' = Append(list, Top.toPost)
      /\ stack' = [stack EXCEPT ![Len(stack)] = f]
      /\ reader' = reader /\ posting' = posting /\ info' = info
      /\ pending' = pending /\ alive' = alive /\ inPost' = inPost
      /\ syncWaits' = syncWaits
  BY DEF EnqueueSync, SetTop
<1>2. /\ TypeOK /\ Frames(stack, posting) /\ PostedOnce /\ Owners
      /\ QueuedForTheLiving /\ PendingCoversQueued /\ NobodyLeft
  BY DEF IInv
<1>3. stack \in Seq(Frame) /\ Top \in Frame
  BY <1>1, <1>2 DEF TypeOK, Top
<1>4. /\ f \in Frame /\ f.cur = Top.cur /\ f.sync = Top.sync
      /\ f.toPost = NoMessage
  BY <1>3 DEF Frame
<1> HIDE DEF f
<1>5. /\ stack' \in Seq(Frame)
      /\ Frames(stack', posting)
      /\ CurrentOf(stack') = (CurrentOf(stack) \ {Top.cur})
                                \cup ({Top.cur} \cap Message)
      /\ ToPostOf(stack') = {NoMessage} \cap Message
      /\ ToPostOf(stack) = {Top.toPost} \cap Message
  <2>1. Top = stack[Len(stack)] /\ Frames(stack, posting)
    BY <1>2 DEF Top
  <2>2. f.cur \in CurrentOf(stack) => f.cur = stack[Len(stack)].cur
    BY <1>4, <2>1
  <2> QED BY <1>1, <1>3, <1>4, <2>1, <2>2, TopFrames, Zenon
<1> DEFINE m == Top.toPost
<1>6. m \in Message /\ ToPostOf(stack') = {} /\ ToPostOf(stack) = {m}
  <2>1. m \in Message \cup {NoMessage}
    BY <1>3 DEF Frame
  <2>2. m \in Message /\ NoMessage \notin Message
    BY <1>1, <2>1, NamesAssumption
  <2> QED BY <1>5, <2>2
<1>7. CurrentOf(stack') = CurrentOf(stack)
  <2>1. Top.cur \in Message => Top.cur \in CurrentOf(stack)
    BY <1>1, <1>3 DEF Top, CurrentOf
  <2>2. CurrentOf(stack) \subseteq Message
    BY DEF CurrentOf
  <2> QED BY <1>5, <2>1, <2>2
<1> HIDE DEF m
<1>8. m \notin Elements(list) \cup CurrentOf(stack)
  BY <1>2, <1>6 DEF Owners, Owned
<1>9. /\ list' \in Seq(Message) /\ Elements(list') = Elements(list) \cup {m}
      /\ NoDuplicates(list')
  <2>1. list' = Append(list, m) /\ list \in Seq(Message) /\ NoDuplicates(list)
    BY <1>1, <1>2 DEF m, TypeOK, Owners
  <2> QED BY <1>6, <1>8, <2>1, Appended
<1>10. Posters' = Posters /\ Allocated' = Allocated
  BY <1>1 DEF Posters, Allocated
<1>11. TypeOK'
  BY <1>1, <1>2, <1>5, <1>9 DEF TypeOK
<1>12. PostedOnce'
  BY <1>1, <1>2, <1>6, <1>10 DEF PostedOnce
<1>13. Owners'
  <2>1. m \notin Posters
    BY <1>2, <1>6 DEF PostedOnce
  <2> QED BY <1>2, <1>6, <1>7, <1>8, <1>9, <1>10, <2>1 DEF Owners, Owned
<1>14. QueuedForTheLiving'
  BY <1>1, <1>2, <1>6, <1>9, <1>10, LivingIs
<1>15. PendingCoversQueued'
  BY <1>1, <1>2, <1>7, SameComing
<1>16. NobodyLeft'
  BY <1>1, <1>2, Zenon DEF NobodyLeft
<1> QED BY <1>1, <1>5, <1>11, <1>12, <1>13, <1>14, <1>15, <1>16, Zenon DEF IInv

LEMMA ThreadPostsKeeps ==
    ASSUME IInv, NEW t \in Thread, NEW o \in Object, NEW m \in Message,
           NEW e \in Event, ThreadPosts(t, o, m, e)
    PROVE  IInv'
<1>1. /\ inPost[t] = NoMessage /\ Prepare(o, m, e, FALSE)
      /\ inPost' = [inPost EXCEPT ![t] = m]
      /\ reader' = reader /\ list' = list /\ posting' = posting
      /\ alive' = alive /\ stack' = stack /\ syncWaits' = syncWaits
  BY DEF ThreadPosts
<1>2. /\ TypeOK /\ Frames(stack, posting) /\ PostedOnce /\ Owners
      /\ QueuedForTheLiving
  BY DEF IInv
<1>3. /\ reader /\ o \in alive
      /\ info' \in [Message -> {Free} \cup Posted]
      /\ pending' \in [Object -> 0..MaxPending]
      /\ info'[m].dest = o
      /\ \A x \in Message : x # m => info'[x] = info[x]
      /\ m \notin Elements(list) \cup CurrentOf(stack) \cup ToPostOf(stack)
                        \cup Posters
      /\ Allocated' = Allocated \cup {m}
      /\ \A s : CurrentOf(s) = CurrentOf(stack)
                   => Covers(info', s, pending', alive)
  BY <1>1, PrepareKeeps
<1>4. inPost \in [Thread -> Message \cup {NoMessage}]
  BY <1>2 DEF TypeOK
<1>5. /\ inPost' \in [Thread -> Message \cup {NoMessage}]
      /\ Posters' = Posters \cup {m}
  BY <1>1, <1>4, NamesAssumption DEF Posters
<1>6. \A u \in Thread : inPost[u] # m
  BY <1>3 DEF Posters
<1>7. TypeOK'
  BY <1>1, <1>2, <1>3, <1>5 DEF TypeOK
<1>8. PostedOnce'
  BY <1>1, <1>2, <1>3, <1>4, <1>5, <1>6 DEF PostedOnce
<1>9. Owners'
  BY <1>1, <1>2, <1>3, <1>5 DEF Owners, Owned
<1>10. QueuedForTheLiving'
  BY <1>1, <1>2, <1>3, <1>5, LivingIs, OwnersAreMessages
<1>11. PendingCoversQueued'
  BY <1>1, <1>3, ComingIsQueued
<1>12. NobodyLeft'
  BY <1>1, <1>3 DEF NobodyLeft
<1>13. Frames(stack', posting')
  BY <1>1, <1>2
<1> QED BY <1>7, <1>8, <1>9, <1>10, <1>11, <1>12, <1>13, Zenon DEF IInv

LEMMA ThreadEnqueuesKeeps ==
    ASSUME IInv, NEW t \in Thread, ThreadEnqueues(t)
    PROVE  IInv'
<1> DEFINE m == inPost[t]
<1>1. /\ m # NoMessage /\ list' = Append(list, m)
      /\ inPost' = [inPost EXCEPT ![t] = NoMessage]
      /\ reader' = reader /\ posting' = posting /\ info' = info
      /\ pending' = pending /\ alive' = alive /\ stack' = stack
      /\ syncWaits' = syncWaits
  BY DEF ThreadEnqueues
<1>2. /\ TypeOK /\ Frames(stack, posting) /\ PostedOnce /\ Owners
      /\ QueuedForTheLiving /\ PendingCoversQueued /\ NobodyLeft
  BY DEF IInv
<1>3. inPost \in [Thread -> Message \cup {NoMessage}]
  BY <1>2 DEF TypeOK
<1>4. m \in Message /\ m \in Posters
  BY <1>1, <1>3 DEF Posters
<1>5. inPost' \in [Thread -> Message \cup {NoMessage}]
  BY <1>1, <1>3
<1>6. Posters' = Posters \ {m}
  <2>1. \A u \in Thread : u # t => inPost[u] # m
    BY <1>1, <1>2 DEF PostedOnce
  <2> QED BY <1>1, <1>3, <2>1, NamesAssumption DEF Posters
<1> HIDE DEF m
<1>7. m \notin Elements(list) \cup CurrentOf(stack) \cup ToPostOf(stack)
  BY <1>2, <1>4 DEF Owners, Owned, PostedOnce
<1>8. /\ list' \in Seq(Message) /\ Elements(list') = Elements(list) \cup {m}
      /\ NoDuplicates(list')
  BY <1>1, <1>2, <1>4, <1>7, Appended DEF TypeOK, Owners
<1>9. Allocated' = Allocated
  BY <1>1 DEF Allocated
<1>10. TypeOK'
  BY <1>1, <1>2, <1>5, <1>8 DEF TypeOK
<1>11. PostedOnce'
  BY <1>1, <1>2, <1>3, <1>5, <1>6 DEF PostedOnce
<1>12. Owners'
  BY <1>1, <1>2, <1>4, <1>6, <1>7, <1>8, <1>9 DEF Owners, Owned
<1>13. QueuedForTheLiving'
  BY <1>1, <1>2, <1>4, <1>6, <1>8, LivingIs
<1>14. PendingCoversQueued'
  BY <1>1, <1>2, SameComing
<1>15. NobodyLeft'
  BY <1>1, <1>2, <1>4 DEF NobodyLeft
<1>16. Frames(stack', posting')
  BY <1>1, <1>2
<1> QED BY <1>10, <1>11, <1>12, <1>13, <1>14, <1>15, <1>16, Zenon DEF IInv
-----------------------------------------------------------------------------
(* Messages_handle(). *)

LEMMA TimerFiresKeeps ==
    ASSUME IInv, TimerFires
    PROVE  IInv'
<1> DEFINE f == NewFrame(FALSE, NoMessage)
<1>1. /\ reader /\ stack = <<>> /\ stack' = <<f>>
      /\ reader' = reader /\ list' = list /\ posting' = posting
      /\ info' = info /\ pending' = pending /\ alive' = alive
      /\ inPost' = inPost /\ syncWaits' = syncWaits
  BY DEF TimerFires
<1>2. /\ TypeOK /\ Frames(stack, posting) /\ PostedOnce /\ Owners
      /\ QueuedForTheLiving /\ PendingCoversQueued
  BY DEF IInv
<1>3. posting = NoMessage
  BY <1>1, <1>2 DEF Frames
<1>4. /\ f \in Frame /\ f.cur = NoMessage /\ ~f.sync /\ f.toPost = NoMessage
  BY BoundsAssumption DEF NewFrame, Frame
<1> HIDE DEF f
<1>5. /\ stack' \in Seq(Frame) /\ Len(stack') = 1 /\ stack'[1] = f
  BY <1>1, <1>4
<1>6. Frames(stack', posting')
  BY <1>1, <1>3, <1>4, <1>5 DEF Frames
<1>7. /\ CurrentOf(stack) = {} /\ ToPostOf(stack) = {}
      /\ CurrentOf(stack') = {} /\ ToPostOf(stack') = {}
  BY <1>1, <1>4, <1>5, NamesAssumption DEF CurrentOf, ToPostOf
<1>8. Posters' = Posters /\ Allocated' = Allocated
  BY <1>1 DEF Posters, Allocated
<1>9. TypeOK'
  BY <1>1, <1>2, <1>5 DEF TypeOK
<1>10. PostedOnce' /\ Owners'
  BY <1>1, <1>2, <1>7, <1>8, Zenon DEF PostedOnce, Owners
<1>11. QueuedForTheLiving'
  BY <1>1, <1>2, <1>7, <1>8, LivingIs
<1>12. PendingCoversQueued'
  BY <1>1, <1>2, <1>7, SameComing
<1>13. NobodyLeft'
  BY <1>1 DEF NobodyLeft
<1> QED BY <1>6, <1>9, <1>10, <1>11, <1>12, <1>13, Zenon DEF IInv

LEMMA HandleNextKeeps ==
    ASSUME IInv, HandleNext
    PROVE  IInv'
<1> DEFINE m == Head(list)
           o == info[m].dest
           f == [Top EXCEPT !.cur = m, !.calls = MaxCalls,
                            !.nread = Top.nread + 1]
<1>1. /\ stack # <<>> /\ Top.cur = NoMessage /\ Top.toPost = NoMessage
      /\ list # <<>> /\ list' = Tail(list)
      /\ pending' = [pending EXCEPT ![o] = @ - 1]
      /\ reader' = reader /\ posting' = posting /\ info' = info
      /\ alive' = alive /\ inPost' = inPost
      /\ syncWaits' = (syncWaits /\ posting # m)
  BY DEF HandleNext, BetweenMessages, MayRead
<1>2. stack' = [stack EXCEPT ![Len(stack)] = f]
  BY Zenon DEF HandleNext, SetTop
<1>3. /\ TypeOK /\ Frames(stack, posting) /\ PostedOnce /\ Owners
      /\ QueuedForTheLiving /\ PendingCoversQueued /\ NobodyLeft
  BY DEF IInv
<1>4. /\ list \in Seq(Message) /\ stack \in Seq(Frame) /\ Top \in Frame
      /\ NoDuplicates(list)
  BY <1>1, <1>3 DEF TypeOK, Top, Owners
<1>5. /\ m \in Message /\ list' \in Seq(Message) /\ NoDuplicates(list')
      /\ m \in Elements(list) /\ Elements(list') = Elements(list) \ {m}
  BY <1>1, <1>4, HeadAndTail
<1>6. /\ MaxCalls \in 0..MaxCalls /\ Top.nread + 1 \in Nat
      /\ m \in Message \cup {NoMessage}
  BY <1>4, <1>5, BoundsAssumption DEF Frame
<1> HIDE DEF m
<1>7. /\ f \in Frame /\ f.cur = m /\ f.toPost = NoMessage /\ f.sync = Top.sync
  <2>1. f = [cur |-> m, calls |-> MaxCalls, nread |-> Top.nread + 1,
             stopOnAsync |-> Top.stopOnAsync, sync |-> Top.sync,
             toPost |-> Top.toPost]
    BY <1>4, ReadsRecord, Zenon
  <2> HIDE DEF f
  <2> QED BY <1>1, <1>4, <1>6, <2>1 DEF Frame
<1> HIDE DEF f
<1>8. m \notin CurrentOf(stack) \cup ToPostOf(stack) \cup Posters
  BY <1>3, <1>5 DEF Owners, Owned
<1>9. /\ stack' \in Seq(Frame) /\ stack' # <<>>
      /\ Frames(stack', posting)
      /\ CurrentOf(stack') = (CurrentOf(stack) \ {Top.cur})
                                \cup ({m} \cap Message)
      /\ ToPostOf(stack') = {NoMessage} \cap Message
      /\ ToPostOf(stack) = {Top.toPost} \cap Message
  <2>1. Top = stack[Len(stack)] /\ Frames(stack, posting)
    BY <1>3 DEF Top
  <2>2. /\ f \in Frame /\ f.sync = stack[Len(stack)].sync
        /\ f.toPost = NoMessage /\ f.cur \notin CurrentOf(stack)
    BY <1>7, <1>8, <2>1
  <2>3. stack # <<>> /\ stack \in Seq(Frame)
    BY <1>1, <1>4
  <2>4. /\ stack' \in Seq(Frame) /\ stack' # <<>> /\ Frames(stack', posting)
        /\ CurrentOf(stack') = (CurrentOf(stack) \ {stack[Len(stack)].cur})
                                  \cup ({f.cur} \cap Message)
        /\ ToPostOf(stack') = {f.toPost} \cap Message
        /\ ToPostOf(stack) = {stack[Len(stack)].toPost} \cap Message
    BY <1>2, <2>1, <2>2, <2>3, TopFrames, Zenon
  <2> QED BY <1>7, <2>1, <2>4, Zenon
<1>10. /\ CurrentOf(stack') = CurrentOf(stack) \cup {m}
       /\ ToPostOf(stack') = {} /\ ToPostOf(stack) = {}
  <2>1. NoMessage \notin CurrentOf(stack) /\ m \in Message
    BY <1>5, NamesAssumption DEF CurrentOf
  <2>2. CurrentOf(stack) \ {NoMessage} = CurrentOf(stack)
    BY <2>1
  <2> QED BY <1>1, <1>9, <2>1, <2>2, NamesAssumption
<1>11. Posters' = Posters /\ Allocated' = Allocated
  BY <1>1 DEF Posters, Allocated
<1>12. o \in alive /\ o \in Object
  BY <1>3, <1>5, LivingIs DEF TypeOK
<1>13. /\ Covers(info', stack', pending', alive')
       /\ pending[o] >= 1
  <2>1. m \in Coming(info, stack, o)
    BY <1>5, <1>8 DEF Coming
  <2>2. Coming(info', stack', o) = Coming(info, stack, o) \ {m}
    BY <1>1, <1>10 DEF Coming
  <2>3. \A x \in alive : x # o =>
           Coming(info', stack', x) = Coming(info, stack, x)
    BY <1>1, <1>10 DEF Coming
  <2>4. /\ Covers(info, stack, pending, alive)
        /\ pending \in [Object -> Nat] /\ alive \in SUBSET Object
    BY <1>3, ComingIsQueued, BoundsAssumption DEF TypeOK
  <2>0. o \in Object
    BY <1>12
  <2> HIDE DEF o
  <2>5. Covers(info', stack', [pending EXCEPT ![o] = @ - 1], alive)
    BY <2>0, <2>1, <2>2, <2>3, <2>4, OneLessComing
  <2>6. pending[o] >= 1
    BY <1>12, <2>0, <2>1, <2>4, SomeComing
  <2> QED BY <1>1, <1>12, <2>5, <2>6
<1>14. pending' \in [Object -> 0..MaxPending]
  <2>1. pending \in [Object -> 0..MaxPending]
    BY <1>3 DEF TypeOK
  <2> QED BY <1>1, <1>12, <1>13, <2>1, BoundsAssumption
<1>15. syncWaits' \in BOOLEAN
  BY <1>1
<1> HIDE DEF o
<1>16. TypeOK'
  BY <1>1, <1>3, <1>5, <1>9, <1>14, <1>15 DEF TypeOK
<1>17. PostedOnce'
  BY <1>1, <1>3, <1>10, <1>11 DEF PostedOnce
<1>18. Owners'
  BY <1>3, <1>5, <1>8, <1>10, <1>11 DEF Owners, Owned
<1>19. QueuedForTheLiving'
  BY <1>1, <1>3, <1>5, <1>10, <1>11, LivingIs
<1>20. NobodyLeft'
  BY <1>1, <1>3 DEF NobodyLeft
<1> QED BY <1>1, <1>9, <1>13, <1>16, <1>17, <1>18, <1>19, <1>20,
           ComingIsQueued, Zenon DEF IInv

LEMMA HandlerReturnsKeeps ==
    ASSUME IInv, HandlerReturns
    PROVE  IInv'
<1> DEFINE m == Top.cur
           b == Top.stopOnAsync \/ posting = m
           f == [Top EXCEPT !.cur = NoMessage, !.calls = 0, !.stopOnAsync = b]
<1>1. /\ stack # <<>> /\ m # NoMessage
      /\ info' = [info EXCEPT ![m] = Free]
      /\ reader' = reader /\ list' = list /\ posting' = posting
      /\ pending' = pending /\ alive' = alive /\ inPost' = inPost
      /\ syncWaits' = syncWaits
  BY DEF HandlerReturns
<1>2. stack' = [stack EXCEPT ![Len(stack)] = f]
  BY Zenon DEF HandlerReturns, SetTop
<1>3. /\ TypeOK /\ Frames(stack, posting) /\ PostedOnce /\ Owners
      /\ QueuedForTheLiving /\ PendingCoversQueued /\ NobodyLeft
  BY DEF IInv
<1>4. stack \in Seq(Frame) /\ Top \in Frame /\ Len(stack) \in 1..Len(stack)
  BY <1>1, <1>3 DEF TypeOK, Top
<1>5. m \in Message /\ m \in CurrentOf(stack) /\ Top.toPost = NoMessage
  BY <1>1, <1>3, <1>4 DEF Frame, Top, CurrentOf, Frames
<1>6. /\ b \in BOOLEAN /\ 0 \in 0..MaxCalls
      /\ NoMessage \in Message \cup {NoMessage}
  BY BoundsAssumption
<1> HIDE DEF b
<1>7. /\ f \in Frame /\ f.cur = NoMessage /\ f.toPost = NoMessage
      /\ f.sync = Top.sync
  <2>1. f = [cur |-> NoMessage, calls |-> 0, nread |-> Top.nread,
             stopOnAsync |-> b, sync |-> Top.sync, toPost |-> Top.toPost]
    BY <1>4, ReturnsRecord, Zenon
  <2> HIDE DEF f
  <2> QED BY <1>4, <1>5, <1>6, <2>1 DEF Frame
<1> HIDE DEF f
<1>8. NoMessage \notin CurrentOf(stack)
  BY NamesAssumption DEF CurrentOf
<1>9. /\ stack' \in Seq(Frame) /\ stack' # <<>>
      /\ Frames(stack', posting)
      /\ CurrentOf(stack') = (CurrentOf(stack) \ {m})
                                \cup ({NoMessage} \cap Message)
      /\ ToPostOf(stack') = {NoMessage} \cap Message
      /\ ToPostOf(stack) = {Top.toPost} \cap Message
  <2>1. Top = stack[Len(stack)] /\ Frames(stack, posting)
    BY <1>3 DEF Top
  <2>2. /\ f \in Frame /\ f.sync = stack[Len(stack)].sync
        /\ f.toPost = NoMessage /\ f.cur \notin CurrentOf(stack)
    BY <1>7, <1>8, <2>1
  <2>3. stack # <<>> /\ stack \in Seq(Frame)
    BY <1>1, <1>4
  <2>4. /\ stack' \in Seq(Frame) /\ stack' # <<>> /\ Frames(stack', posting)
        /\ CurrentOf(stack') = (CurrentOf(stack) \ {stack[Len(stack)].cur})
                                  \cup ({f.cur} \cap Message)
        /\ ToPostOf(stack') = {f.toPost} \cap Message
        /\ ToPostOf(stack) = {stack[Len(stack)].toPost} \cap Message
    BY <1>2, <2>1, <2>2, <2>3, TopFrames, Zenon
  <2> QED BY <1>7, <2>1, <2>4, Zenon
<1>10. /\ CurrentOf(stack') = CurrentOf(stack) \ {m}
       /\ ToPostOf(stack') = {} /\ ToPostOf(stack) = {}
  BY <1>5, <1>9, NamesAssumption
<1> HIDE DEF m
<1>11. /\ info \in [Message -> {Free} \cup Posted]
       /\ info' \in [Message -> {Free} \cup Posted]
       /\ info'[m] = Free
       /\ \A x \in Message : x # m => info'[x] = info[x]
  BY <1>1, <1>3, <1>5 DEF TypeOK
<1>12. Posters' = Posters /\ Allocated' = Allocated \ {m}
  BY <1>1, <1>5, <1>11 DEF Posters, Allocated
<1>13. m \notin Elements(list) \cup ToPostOf(stack) \cup Posters
  BY <1>3, <1>5 DEF Owners, Owned
<1>14. TypeOK'
  BY <1>1, <1>3, <1>9, <1>11 DEF TypeOK
<1>15. PostedOnce'
  BY <1>1, <1>3, <1>10, <1>12 DEF PostedOnce
<1>16. Owners'
  BY <1>1, <1>3, <1>10, <1>12, <1>13 DEF Owners, Owned
<1>17. QueuedForTheLiving'
  BY <1>1, <1>3, <1>10, <1>11, <1>12, <1>13, LivingIs, OwnersAreMessages
<1>18. PendingCoversQueued'
  <2>1. alive \subseteq Object /\ Covers(info, stack, pending, alive)
    BY <1>3, ComingIsQueued DEF TypeOK
  <2>2. Free.dest = NoObject
    BY DEF Free, Info
  <2>3. \A o \in alive : Coming(info', stack', o) \subseteq Coming(info, stack, o)
    BY <1>10, <1>11, <2>1, <2>2, NamesAssumption DEF Coming
  <2>4. \A o \in alive : pending'[o] = pending[o] /\ pending[o] \in Nat
    BY <1>1, <1>3, <2>1, BoundsAssumption DEF TypeOK
  <2>5. Covers(info', stack', pending', alive)
    BY <2>1, <2>3, <2>4, FewerComing
  <2> QED BY <1>1, <2>5, ComingIsQueued
<1>19. NobodyLeft'
  BY <1>1, <1>3 DEF NobodyLeft
<1> QED BY <1>1, <1>9, <1>14, <1>15, <1>16, <1>17, <1>18, <1>19, Zenon
        DEF IInv

LEMMA LoopEndsKeeps ==
    ASSUME IInv, LoopEnds
    PROVE  IInv'
<1>1. /\ stack # <<>> /\ Top.cur = NoMessage /\ Top.toPost = NoMessage
      /\ stack' = SubSeq(stack, 1, Len(stack) - 1)
      /\ posting' = IF Top.sync THEN NoMessage ELSE posting
      /\ syncWaits' = (syncWaits /\ ~Top.sync)
      /\ reader' = reader /\ list' = list /\ info' = info
      /\ pending' = pending /\ alive' = alive /\ inPost' = inPost
  BY DEF LoopEnds, BetweenMessages
<1>2. /\ TypeOK /\ Frames(stack, posting) /\ PostedOnce /\ Owners
      /\ QueuedForTheLiving /\ PendingCoversQueued /\ NobodyLeft
  BY DEF IInv
<1>3. stack \in Seq(Frame) /\ Len(stack) \in 1..Len(stack)
  BY <1>1, <1>2 DEF TypeOK
<1>4. posting' = NoMessage
  BY <1>1, <1>2, <1>3 DEF Frames, Top
<1>5. /\ stack' \in Seq(Frame) /\ Frames(stack', NoMessage)
      /\ CurrentOf(stack') = CurrentOf(stack)
      /\ ToPostOf(stack') = ToPostOf(stack)
  BY <1>1, <1>2, <1>3, PoppedFrames DEF Top
<1>6. Posters' = Posters /\ Allocated' = Allocated
  BY <1>1 DEF Posters, Allocated
<1>7. syncWaits' \in BOOLEAN
  BY <1>1
<1>8. TypeOK'
  BY <1>1, <1>2, <1>4, <1>5, <1>7 DEF TypeOK
<1>9. PostedOnce' /\ Owners'
  BY <1>1, <1>2, <1>5, <1>6, Zenon DEF PostedOnce, Owners
<1>10. QueuedForTheLiving'
  BY <1>1, <1>2, <1>5, <1>6, LivingIs
<1>11. PendingCoversQueued'
  BY <1>1, <1>2, <1>5, SameComing
<1>12. NobodyLeft'
  BY <1>1, <1>2, <1>6 DEF NobodyLeft
<1> QED BY <1>4, <1>5, <1>8, <1>9, <1>10, <1>11, <1>12, Zenon DEF IInv
-----------------------------------------------------------------------------
(* Deleting messages, objects and the reader. *)

\* Messages are deleted, and perhaps an object that no message is left for.
LEMMA RemovedKeeps ==
    ASSUME IInv, NEW S \in SUBSET Message, Purge(S),
           stack' \in Seq(Frame), Frames(stack', posting'),
           CurrentOf(stack') = CurrentOf(stack),
           ToPostOf(stack') = {}, ToPostOf(stack) = {},
           posting' = posting, pending' = pending, inPost' = inPost,
           reader' \in BOOLEAN, NobodyLeft', alive' \subseteq alive,
           \A m \in (Elements(list) \ S) \cup Posters :
                info[m].dest \in alive'
    PROVE  IInv'
<1> DEFINE gone == S \cap Elements(list)
<1>1. /\ list' \in Purges(list, S)
      /\ info' = [m \in Message |-> IF m \in S /\ m \in Elements(list)
                                    THEN Free ELSE info[m]]
      /\ syncWaits' = (syncWaits /\ posting \notin S \cap Elements(list))
  BY DEF Purge
<1>2. /\ TypeOK /\ PostedOnce /\ Owners /\ PendingCoversQueued
  BY DEF IInv
<1>3. /\ list' \in Seq(Message)
      /\ Elements(list') = Elements(list) \ S
      /\ NoDuplicates(list')
  BY <1>1, <1>2, PurgesKeeps DEF TypeOK, Owners
<1>4. /\ info \in [Message -> {Free} \cup Posted]
      /\ info' \in [Message -> {Free} \cup Posted]
      /\ \A m \in gone : info'[m] = Free
      /\ \A m \in Message \ gone : info'[m] = info[m]
  BY <1>1, <1>2 DEF TypeOK
<1>5. Posters' = Posters
  BY DEF Posters
<1>6. Allocated' = Allocated \ gone
  BY <1>4 DEF Allocated
<1>7. syncWaits' \in BOOLEAN
  BY <1>1
<1>8. TypeOK'
  BY <1>2, <1>3, <1>4, <1>7 DEF TypeOK
<1>9. PostedOnce'
  BY <1>2, <1>5 DEF PostedOnce
<1>10. Owners'
  BY <1>2, <1>3, <1>5, <1>6 DEF Owners, Owned
<1>11. QueuedForTheLiving'
  <2>1. Posters \cap gone = {}
    BY <1>2 DEF Owners, Owned
  <2>2. \A m \in Elements(list') \cup Posters : m \in Message \ gone
    BY <1>2, <1>3, <2>1, OwnersAreMessages
  <2> QED BY <1>3, <1>4, <1>5, <2>2, LivingIs
<1>12. PendingCoversQueued'
  <2>1. alive \subseteq Object /\ Covers(info, stack, pending, alive)
    BY <1>2, ComingIsQueued DEF TypeOK
  <2>2. Free.dest = NoObject
    BY DEF Free, Info
  <2>3. \A o \in alive' :
           Coming(info', stack', o) \subseteq Coming(info, stack, o)
    BY <1>4, <2>1, <2>2, NamesAssumption DEF Coming
  <2>4. \A o \in alive' : pending'[o] = pending[o] /\ pending[o] \in Nat
    BY <1>2, <2>1, BoundsAssumption DEF TypeOK
  <2>5. Covers(info', stack', pending', alive')
    BY <2>1, <2>3, <2>4, FewerComing
  <2> QED BY <2>5, ComingIsQueued
<1> QED BY <1>8, <1>9, <1>10, <1>11, <1>12, Zenon DEF IInv

LEMMA DelMessagesKeeps ==
    ASSUME IInv, NEW o \in Object, NEW e \in Event, NEW any \in BOOLEAN,
           DelMessages(o, e, any)
    PROVE  IInv'
<1> DEFINE S == {m \in MessagesFor(o) : any \/ info[m].event = e}
<1>1. /\ MayCall /\ reader /\ Purge(S) /\ stack' = Called
      /\ reader' = reader /\ posting' = posting /\ pending' = pending
      /\ alive' = alive /\ inPost' = inPost
  BY DEF DelMessages
<1>2. S \in SUBSET Message
  BY DEF MessagesFor
<1> HIDE DEF S
<1>3. TypeOK /\ Frames(stack, posting) /\ QueuedForTheLiving
  BY DEF IInv
<1>4. /\ stack' \in Seq(Frame) /\ Frames(stack', posting')
      /\ CurrentOf(stack') = CurrentOf(stack)
      /\ ToPostOf(stack') = {} /\ ToPostOf(stack) = {}
  BY <1>1, <1>3, CalledFrames DEF TypeOK
<1>5. NobodyLeft' /\ reader' \in BOOLEAN
  BY <1>1, <1>3 DEF NobodyLeft, TypeOK
<1>6. \A m \in (Elements(list) \ S) \cup Posters : info[m].dest \in alive'
  BY <1>1, <1>3, LivingIs
<1> QED BY <1>1, <1>2, <1>4, <1>5, <1>6, RemovedKeeps

LEMMA DestroyKeeps ==
    ASSUME IInv, NEW o \in Object, Destroy(o)
    PROVE  IInv'
<1> DEFINE S == MessagesFor(o)
<1>1. /\ MayCall /\ stack' = Called /\ alive' = alive \ {o}
      /\ \A t \in Thread : inPost[t] \notin S
      /\ reader' = reader /\ posting' = posting /\ pending' = pending
      /\ inPost' = inPost
  BY DEF Destroy
<1>2. S \in SUBSET Message
  BY DEF MessagesFor
<1>3. TypeOK /\ Frames(stack, posting) /\ QueuedForTheLiving /\ NobodyLeft
  BY DEF IInv
<1>4. /\ stack' \in Seq(Frame) /\ Frames(stack', posting')
      /\ CurrentOf(stack') = CurrentOf(stack)
      /\ ToPostOf(stack') = {} /\ ToPostOf(stack) = {}
      /\ stack' # <<>> <=> stack # <<>>
  BY <1>1, <1>3, CalledFrames DEF TypeOK
<1>5. Purge(S)
  <2>1. CASE reader
    BY <2>1 DEF Destroy
  <2>2. CASE ~reader
    <3>1. /\ list = <<>> /\ list' = list /\ info' = info
          /\ syncWaits' = syncWaits
      BY <1>3, <2>2 DEF Destroy, NobodyLeft
    <3>2. Elements(list) = {}
      BY <3>1 DEF Elements
    <3>3. list' \in Purges(list, S)
      BY <1>3, <3>1, <3>2, PurgesKeepsAll DEF TypeOK
    <3>4. info \in [Message -> {Free} \cup Posted] /\ syncWaits \in BOOLEAN
      BY <1>3 DEF TypeOK
    <3>5. info' = [m \in Message |-> IF m \in S /\ m \in Elements(list)
                                     THEN Free ELSE info[m]]
      BY <3>1, <3>2, <3>4
    <3>6. syncWaits' = (syncWaits /\ posting \notin S \cap Elements(list))
      BY <3>1, <3>2, <3>4
    <3> QED BY <3>3, <3>5, <3>6, Zenon DEF Purge
  <2> QED BY <2>1, <2>2
<1>6. NobodyLeft' /\ reader' \in BOOLEAN
  <2>1. Posters' = Posters
    BY <1>1 DEF Posters
  <2>2. ASSUME ~reader PROVE list' = <<>>
    BY <1>3, <2>2 DEF Destroy, NobodyLeft
  <2> QED BY <1>1, <1>3, <1>4, <2>1, <2>2 DEF NobodyLeft, TypeOK
<1>7. \A m \in (Elements(list) \ S) \cup Posters : info[m].dest \in alive'
  <2>1. \A m \in (Elements(list) \ S) \cup Posters : m \in Message \ S
    BY <1>1, <1>3, OwnersAreMessages DEF Posters
  <2>2. \A m \in Message \ S : info[m].dest # o
    BY DEF MessagesFor
  <2> QED BY <1>1, <1>3, <2>1, <2>2, LivingIs
<1> QED BY <1>1, <1>2, <1>4, <1>5, <1>6, <1>7, RemovedKeeps

LEMMA CreateKeeps ==
    ASSUME IInv, NEW o \in Object, Create(o)
    PROVE  IInv'
<1>1. /\ MayCall /\ stack' = Called /\ o \notin alive
      /\ alive' = alive \cup {o}
      /\ pending' = [pending EXCEPT ![o] = 0]
      /\ reader' = reader /\ posting' = posting /\ list' = list
      /\ info' = info /\ inPost' = inPost /\ syncWaits' = syncWaits
  BY DEF Create
<1>2. /\ TypeOK /\ Frames(stack, posting) /\ PostedOnce /\ Owners
      /\ QueuedForTheLiving /\ PendingCoversQueued /\ NobodyLeft
  BY DEF IInv
<1>3. /\ stack' \in Seq(Frame) /\ Frames(stack', posting')
      /\ CurrentOf(stack') = CurrentOf(stack)
      /\ ToPostOf(stack') = {} /\ ToPostOf(stack) = {}
      /\ stack' # <<>> <=> stack # <<>>
  BY <1>1, <1>2, CalledFrames DEF TypeOK
<1>4. Posters' = Posters /\ Allocated' = Allocated
  BY <1>1 DEF Posters, Allocated
<1>5. /\ pending \in [Object -> 0..MaxPending]
      /\ pending' \in [Object -> 0..MaxPending]
  BY <1>1, <1>2, BoundsAssumption DEF TypeOK
<1>6. TypeOK'
  BY <1>1, <1>2, <1>3, <1>5 DEF TypeOK
<1>7. PostedOnce' /\ Owners'
  BY <1>1, <1>2, <1>3, <1>4, Zenon DEF PostedOnce, Owners
<1>8. QueuedForTheLiving'
  BY <1>1, <1>2, <1>3, <1>4, LivingIs
<1>9. PendingCoversQueued'
  <2>1. alive \subseteq Object /\ Covers(info, stack, pending, alive)
    BY <1>2, ComingIsQueued DEF TypeOK
  <2>2. \A x : Coming(info', stack', x) = Coming(info, stack, x)
    BY <1>1, <1>3 DEF Coming
  <2>3. Coming(info, stack, o) = {}
    <3>1. Free.dest = NoObject
      BY DEF Free, Info
    <3>2. \A m \in Message : info[m].dest = o => m \in Allocated
      BY <3>1, NamesAssumption DEF Allocated
    <3>3. \A m \in Allocated :
             \/ m \in CurrentOf(stack)
             \/ m \in Elements(list) \cup ToPostOf(stack) \cup Posters
      BY <1>2 DEF Owners, Owned
    <3>4. \A m \in Elements(list) \cup ToPostOf(stack) \cup Posters :
             info[m].dest \in alive
      BY <1>2, LivingIs
    <3> QED BY <1>1, <3>2, <3>3, <3>4 DEF Coming
  <2>4. Cardinality(Coming(info', stack', o)) <= pending'[o]
    BY <1>1, <1>5, <2>2, <2>3, FS_EmptySet
  <2>5. \A x \in alive : Cardinality(Coming(info', stack', x)) <= pending'[x]
    BY <1>1, <1>5, <2>1, <2>2 DEF Covers
  <2>6. Covers(info', stack', pending', alive')
    BY <1>1, <2>4, <2>5, Zenon DEF Covers
  <2> QED BY <2>6, ComingIsQueued
<1>10. NobodyLeft'
  BY <1>1, <1>2, <1>3, <1>4 DEF NobodyLeft
<1> QED BY <1>3, <1>6, <1>7, <1>8, <1>9, <1>10, Zenon DEF IInv

LEMMA DestroyReaderKeeps ==
    ASSUME IInv, DestroyReader
    PROVE  IInv'
<1>1. /\ stack = <<>> /\ \A t \in Thread : inPost[t] = NoMessage
      /\ Purge(Message) /\ reader' = FALSE
      /\ posting' = posting /\ pending' = pending /\ alive' = alive
      /\ stack' = stack /\ inPost' = inPost
  BY DEF DestroyReader
<1>2. TypeOK /\ Frames(stack, posting)
  BY DEF IInv
<1>3. /\ stack' \in Seq(Frame) /\ Frames(stack', posting')
      /\ CurrentOf(stack') = CurrentOf(stack)
      /\ ToPostOf(stack') = {} /\ ToPostOf(stack) = {}
  BY <1>1, <1>2 DEF TypeOK, ToPostOf
<1>4. Posters = {} /\ Posters' = {}
  BY <1>1, NamesAssumption DEF Posters
<1>5. list' = <<>>
  BY <1>1, <1>2, PurgesAll DEF Purge, TypeOK
<1>6. NobodyLeft' /\ reader' \in BOOLEAN
  BY <1>1, <1>4, <1>5 DEF NobodyLeft
<1>7. \A m \in (Elements(list) \ Message) \cup Posters :
         info[m].dest \in alive'
  BY <1>2, <1>4, OwnersAreMessages
<1> QED BY <1>1, <1>3, <1>6, <1>7, RemovedKeeps
-----------------------------------------------------------------------------
LEMMA InitIInv == Init => IInv
<1> SUFFICES ASSUME Init PROVE IInv
  OBVIOUS
<1>1. /\ reader = TRUE /\ list = <<>> /\ posting = NoMessage
      /\ info = [m \in Message |-> Free] /\ pending = [o \in Object |-> 0]
      /\ alive = Object /\ stack = <<>> /\ syncWaits = FALSE
      /\ inPost = [t \in Thread |-> NoMessage]
  BY DEF Init
<1>2. TypeOK
  <2>1. /\ info \in [Message -> {Free} \cup Posted]
        /\ pending \in [Object -> 0..MaxPending]
        /\ inPost \in [Thread -> Message \cup {NoMessage}]
    BY <1>1, BoundsAssumption
  <2>2. list \in Seq(Message) /\ stack \in Seq(Frame)
    BY <1>1
  <2>4. reader \in BOOLEAN /\ syncWaits \in BOOLEAN
    BY <1>1, Zenon
  <2>3. posting \in Message \cup {NoMessage} /\ alive \subseteq Object
    BY <1>1
  <2> QED BY <2>1, <2>2, <2>3, <2>4, Zenon DEF TypeOK
<1>3. Frames(stack, posting)
  BY <1>1 DEF Frames
<1>4. /\ Elements(list) = {} /\ CurrentOf(stack) = {} /\ ToPostOf(stack) = {}
      /\ Posters = {} /\ Allocated = {} /\ NoDuplicates(list)
  BY <1>1, NamesAssumption
     DEF Elements, CurrentOf, ToPostOf, Posters, Allocated, NoDuplicates
<1>5. PostedOnce /\ Owners /\ NobodyLeft
  BY <1>1, <1>4 DEF PostedOnce, Owners, Owned, NobodyLeft
<1>6. QueuedForTheLiving
  BY <1>4, LivingIs
<1>7. PendingCoversQueued
  <2>1. \A o \in alive : Coming(info, stack, o) = {} /\ pending[o] = 0
    BY <1>1, NamesAssumption DEF Coming, Free, Info
  <2>2. \A o \in alive : Cardinality(Coming(info, stack, o)) <= pending[o]
    BY <2>1, FS_EmptySet
  <2>3. Covers(info, stack, pending, alive)
    BY <2>2, Zenon DEF Covers
  <2> QED BY <2>3, ComingIsQueued
<1> QED BY <1>2, <1>3, <1>5, <1>6, <1>7 DEF IInv

LEMMA NextIInv == IInv /\ [Next]_vars => IInv'
<1> SUFFICES ASSUME IInv, [Next]_vars PROVE IInv'
  OBVIOUS
<1>1. CASE UNCHANGED vars
  BY <1>1 DEF vars, IInv, TypeOK, PostedOnce, Owners, QueuedForTheLiving,
     PendingCoversQueued, NobodyLeft, Posters, Allocated, BeingPosted, Handled,
     MessagesFor
<1>2. ASSUME NEW o \in Object, NEW m \in Message, NEW e \in Event,
             PostSync(o, m, e)
      PROVE  IInv'
  BY <1>2, PostSyncKeeps
<1>3. ASSUME NEW o \in Object, NEW m \in Message, NEW e \in Event,
             NEW f \in BOOLEAN, PostAsync(o, m, e, f)
      PROVE  IInv'
  BY <1>3, PostAsyncKeeps
<1>4. ASSUME NEW t \in Thread, NEW o \in Object, NEW m \in Message,
             NEW e \in Event, ThreadPosts(t, o, m, e)
      PROVE  IInv'
  BY <1>4, ThreadPostsKeeps
<1>5. ASSUME NEW t \in Thread, ThreadEnqueues(t) PROVE IInv'
  BY <1>5, ThreadEnqueuesKeeps
<1>6. CASE TimerFires
  BY <1>6, TimerFiresKeeps
<1>7. CASE MainContinues
  BY <1>7, EnqueueSyncKeeps, HandleNextKeeps, HandlerReturnsKeeps,
     LoopEndsKeeps DEF MainContinues
<1>8. ASSUME NEW o \in Object, NEW e \in Event, NEW any \in BOOLEAN,
             DelMessages(o, e, any)
      PROVE  IInv'
  BY <1>8, DelMessagesKeeps
<1>9. ASSUME NEW o \in Object, Destroy(o) PROVE IInv'
  BY <1>9, DestroyKeeps
<1>10. ASSUME NEW o \in Object, Create(o) PROVE IInv'
  BY <1>10, CreateKeeps
<1>11. CASE DestroyReader
  BY <1>11, DestroyReaderKeeps
<1> QED BY <1>1, <1>2, <1>3, <1>4, <1>5, <1>6, <1>7, <1>8, <1>9, <1>10, <1>11,
           Zenon DEF Next

\* Every state of Messages keeps the invariant.
THEOREM Invariance == Spec => []IInv
  BY InitIInv, NextIInv, PTL DEF Spec

\* Every variable has its type: hasPendingMessages() never counts below zero.
THEOREM TypeCorrect == Spec => []TypeOK
<1>1. IInv => TypeOK
  BY DEF IInv
<1> QED BY <1>1, Invariance, PTL

\* However handlers post, delete messages and delete objects, those they run
\* for included: at most two Messages_handle() run at a time, a message has one
\* owner, and the object it is for exists.
THEOREM Ownership == Spec => []OwnedAndForTheLiving
<1>1. IInv => OwnedAndForTheLiving
  <2> SUFFICES ASSUME IInv PROVE OwnedAndForTheLiving
    OBVIOUS
  <2>1. Frames(stack, posting) /\ Owners /\ QueuedForTheLiving
    BY DEF IInv
  <2>2. OneSyncPostAtATime
    BY <2>1 DEF Frames, OneSyncPostAtATime
  <2>3. BeingPosted = ToPostOf(stack) \cup Posters /\ Handled = CurrentOf(stack)
    BY DEF BeingPosted, ToPostOf, Posters, Handled, CurrentOf
  <2>4. \A m \in Message : info[m] # Free <=>
           m \in Elements(list) \cup Handled \cup BeingPosted
    BY <2>1, <2>3 DEF Owners, Owned, Allocated
  <2>5. OneOwner
    BY <2>1, <2>3, <2>4 DEF Owners, Owned, Frames, OneOwner
  <2> QED BY <2>1, <2>2, <2>5 DEF OwnedAndForTheLiving
<1> QED BY <1>1, Invariance, PTL

\* hasPendingMessages() counts every message that is still to come.
THEOREM Announced == Spec => []PendingCoversQueued
<1>1. IInv => PendingCoversQueued
  BY DEF IInv
<1> QED BY <1>1, Invariance, PTL
-----------------------------------------------------------------------------
(* What a synchronous postMessage() returns with. *)

\* As long as the message it posted was not handed over, it is in the list or
\* about to be, and the loop that reads for it stops for no other.
SyncInv ==
    syncWaits =>
        /\ posting \in Elements(list) \cup ToPostOf(stack)
        /\ stack # <<>> /\ ~Top.stopOnAsync

LEMMA CalledTop ==
    ASSUME stack \in Seq(Frame), stack # <<>>
    PROVE  /\ Called # <<>>
           /\ Called[Len(Called)].stopOnAsync = Top.stopOnAsync
<1> DEFINE g == [Top EXCEPT !.calls = Top.calls - 1]
<1>1. Called = [stack EXCEPT ![Len(stack)] = g]
  BY Zenon DEF Called, Top
<1>2. Len(stack) \in 1..Len(stack) /\ Top \in Frame
  BY DEF Top
<1>3. g.stopOnAsync = Top.stopOnAsync
  BY <1>2 DEF Frame
<1> HIDE DEF g
<1>4. Len(Called) = Len(stack) /\ Called[Len(stack)] = g
  BY <1>1, <1>2
<1> QED BY <1>2, <1>3, <1>4

\* A call of a handler that leaves the list the message, or takes note of it.
LEMMA StillQueued ==
    ASSUME IInv, SyncInv, MayCall, stack' = Called, posting' = posting,
           syncWaits' => syncWaits /\ (posting \in Elements(list) =>
                                          posting \in Elements(list'))
    PROVE  SyncInv'
<1> SUFFICES ASSUME syncWaits' = TRUE
             PROVE  /\ posting' \in Elements(list') \cup ToPostOf(stack')
                    /\ stack' # <<>> /\ ~Top'.stopOnAsync
  BY DEF SyncInv
<1>1. /\ posting \in Elements(list) \cup ToPostOf(stack)
      /\ stack # <<>> /\ ~Top.stopOnAsync
  BY DEF SyncInv
<1>2. stack \in Seq(Frame) /\ Frames(stack, posting)
  BY DEF IInv, TypeOK
<1>3. ToPostOf(stack) = {}
  BY <1>2, CalledFrames
<1>4. /\ stack' # <<>> /\ Top' = Called[Len(Called)]
      /\ ~Called[Len(Called)].stopOnAsync
  BY <1>1, <1>2, CalledTop DEF Top
<1> QED BY <1>1, <1>3, <1>4

LEMMA PurgeQueued ==
    ASSUME IInv, NEW S, Purge(S)
    PROVE  syncWaits' => syncWaits /\ (posting \in Elements(list) =>
                                          posting \in Elements(list'))
<1>1. list \in Seq(Message)
  BY DEF IInv, TypeOK
<1>2. Elements(list') = Elements(list) \ S
  BY <1>1, PurgesKeeps DEF Purge
<1> QED BY <1>2 DEF Purge

LEMMA NextSyncInv == IInv /\ SyncInv /\ [Next]_vars => SyncInv'
<1> SUFFICES ASSUME IInv, SyncInv, [Next]_vars PROVE SyncInv'
  OBVIOUS
<1> USE NamesAssumption
<1>1. /\ TypeOK /\ Frames(stack, posting) /\ Owners
      /\ list \in Seq(Message) /\ stack \in Seq(Frame)
  BY DEF IInv, TypeOK
<1>2. stack # <<>> => Top \in Frame /\ Len(stack) \in 1..Len(stack)
  BY <1>1 DEF Top
<1>3. CASE UNCHANGED vars
  BY <1>3 DEF vars, SyncInv, Top, ToPostOf, Elements
<1>4. ASSUME NEW o \in Object, NEW m \in Message, NEW e \in Event,
             PostSync(o, m, e)
      PROVE  SyncInv'
  <2> DEFINE f == NewFrame(TRUE, m)
  <2>1. posting' = m /\ stack' = Append(Called, f) /\ MayCall
    BY <1>4 DEF PostSync
  <2>2. f \in Frame /\ f.toPost = m /\ ~f.stopOnAsync
    BY BoundsAssumption DEF NewFrame, Frame
  <2>3. Called \in Seq(Frame)
    BY <1>1, <2>1, CalledFrames
  <2> HIDE DEF f
  <2>4. /\ stack' # <<>> /\ Len(stack') \in 1..Len(stack')
        /\ stack'[Len(stack')] = f
    <3>1. /\ Len(Called) \in Nat /\ Len(stack') = Len(Called) + 1
          /\ stack'[Len(Called) + 1] = f /\ stack' \in Seq(Frame)
      BY <2>1, <2>2, <2>3, Pushed
    <3> QED BY <3>1
  <2>5. m \in ToPostOf(stack')
    BY <2>2, <2>4 DEF ToPostOf
  <2> QED BY <2>1, <2>2, <2>4, <2>5 DEF SyncInv, Top
<1>5. ASSUME NEW o \in Object, NEW m \in Message, NEW e \in Event,
             NEW a \in BOOLEAN, PostAsync(o, m, e, a)
      PROVE  SyncInv'
  <2>1. /\ MayCall /\ stack' = Called /\ posting' = posting
        /\ syncWaits' = syncWaits /\ list' = Append(list, m)
    BY <1>5 DEF PostAsync
  <2>2. Elements(list') = Elements(list) \cup {m}
    BY <1>1, <2>1, Appended
  <2> QED BY <2>1, <2>2, StillQueued
<1>6. ASSUME NEW t \in Thread, NEW o \in Object, NEW m \in Message,
             NEW e \in Event, ThreadPosts(t, o, m, e)
      PROVE  SyncInv'
  BY <1>6 DEF ThreadPosts, SyncInv, Top, ToPostOf, Elements
<1>7. ASSUME NEW t \in Thread, ThreadEnqueues(t) PROVE SyncInv'
  <2>1. /\ stack' = stack /\ posting' = posting /\ syncWaits' = syncWaits
        /\ list' = Append(list, inPost[t]) /\ inPost[t] \in Message
    BY <1>1, <1>7 DEF ThreadEnqueues, TypeOK
  <2>2. Elements(list') = Elements(list) \cup {inPost[t]}
    BY <1>1, <2>1, Appended
  <2> QED BY <2>1, <2>2 DEF SyncInv, Top, ToPostOf
<1>8. CASE TimerFires
  BY <1>8 DEF TimerFires, SyncInv
<1>9. CASE EnqueueSync
  <2> DEFINE f == [Top EXCEPT !.toPost = NoMessage]
  <2>1. /\ stack # <<>> /\ Top.toPost # NoMessage
        /\ list' = Append(list, Top.toPost)
        /\ stack' = [stack EXCEPT ![Len(stack)] = f]
        /\ posting' = posting /\ syncWaits' = syncWaits
    BY <1>9 DEF EnqueueSync, SetTop
  <2>2. f \in Frame /\ f.stopOnAsync = Top.stopOnAsync
    BY <1>2, <2>1 DEF Frame
  <2> HIDE DEF f
  <2>3. /\ Top.toPost \in Message
        /\ Elements(list') = Elements(list) \cup {Top.toPost}
    <3>1. Top.toPost \in Message
      BY <1>2, <2>1 DEF Frame
    <3> QED BY <1>1, <2>1, <3>1, Appended
  <2>4. ToPostOf(stack) \subseteq {Top.toPost}
    BY <1>1, <2>1 DEF ToPostOf, Frames, Top
  <2>5. stack' # <<>> /\ stack'[Len(stack')] = f
    <3>1. /\ Len(stack') = Len(stack) /\ stack' # <<>>
          /\ stack'[Len(stack)] = f
      BY <1>1, <2>1, <2>2, Replaced
    <3> QED BY <3>1
  <2> QED BY <2>1, <2>2, <2>3, <2>4, <2>5 DEF SyncInv, Top
<1>10. CASE HandleNext
  <2> DEFINE m == Head(list)
             f == [Top EXCEPT !.cur = m, !.calls = MaxCalls,
                              !.nread = Top.nread + 1]
  <2>1. /\ stack # <<>> /\ Top.toPost = NoMessage /\ Top.cur = NoMessage
        /\ list # <<>> /\ list' = Tail(list)
        /\ posting' = posting /\ syncWaits' = (syncWaits /\ posting # m)
    BY <1>10 DEF HandleNext, BetweenMessages, MayRead
  <2>2. stack' = [stack EXCEPT ![Len(stack)] = f]
    BY <1>10, Zenon DEF HandleNext, SetTop
  <2>3. m \in Message /\ Elements(list) = {m} \cup Elements(list')
    BY <1>1, <2>1, HeadAndTail
  <2> HIDE DEF m
  <2>4. f \in Frame /\ f.stopOnAsync = Top.stopOnAsync
    <3>1. f = [cur |-> m, calls |-> MaxCalls, nread |-> Top.nread + 1,
               stopOnAsync |-> Top.stopOnAsync, sync |-> Top.sync,
               toPost |-> Top.toPost]
      BY <1>2, <2>1, ReadsRecord, Zenon
    <3>2. MaxCalls \in 0..MaxCalls
      BY BoundsAssumption
    <3> HIDE DEF f
    <3> QED BY <1>2, <2>1, <2>3, <3>1, <3>2 DEF Frame
  <2> HIDE DEF f
  <2>5. ToPostOf(stack) = {}
    BY <1>1, <2>1 DEF ToPostOf, Frames, Top
  <2>6. stack' # <<>> /\ stack'[Len(stack')] = f
    <3>1. /\ Len(stack') = Len(stack) /\ stack' # <<>>
          /\ stack'[Len(stack)] = f
      BY <1>1, <2>1, <2>2, <2>4, Replaced
    <3> QED BY <3>1
  <2> QED BY <2>1, <2>3, <2>4, <2>5, <2>6 DEF SyncInv, Top
<1>11. CASE HandlerReturns
  <2> DEFINE m == Top.cur
             b == Top.stopOnAsync \/ posting = m
             f == [Top EXCEPT !.cur = NoMessage, !.calls = 0,
                              !.stopOnAsync = b]
  <2>1. /\ stack # <<>> /\ m # NoMessage
        /\ posting' = posting /\ syncWaits' = syncWaits /\ list' = list
    BY <1>11 DEF HandlerReturns
  <2>2. stack' = [stack EXCEPT ![Len(stack)] = f]
    BY <1>11, Zenon DEF HandlerReturns, SetTop
  <2>3. m \in CurrentOf(stack)
    BY <1>2, <2>1 DEF Frame, Top, CurrentOf
  <2>4. m \notin Elements(list) \cup ToPostOf(stack)
    BY <1>1, <2>3 DEF Owners, Owned
  <2>5. ToPostOf(stack) = {}
    BY <1>1, <2>1 DEF ToPostOf, Frames, Top
  <2>6. b \in BOOLEAN /\ (syncWaits => ~b)
    BY <2>4 DEF SyncInv
  <2> HIDE DEF b
  <2>7. f \in Frame /\ f.stopOnAsync = b
    <3>1. f = [cur |-> NoMessage, calls |-> 0, nread |-> Top.nread,
               stopOnAsync |-> b, sync |-> Top.sync, toPost |-> Top.toPost]
      BY <1>2, <2>1, ReturnsRecord, Zenon
    <3>2. 0 \in 0..MaxCalls
      BY BoundsAssumption
    <3> HIDE DEF f
    <3> QED BY <1>2, <2>1, <2>6, <3>1, <3>2 DEF Frame
  <2> HIDE DEF f
  <2>8. stack' # <<>> /\ stack'[Len(stack')] = f
    <3>1. /\ Len(stack') = Len(stack) /\ stack' # <<>>
          /\ stack'[Len(stack)] = f
      BY <1>1, <2>1, <2>2, <2>7, Replaced
    <3> QED BY <3>1
  <2> QED BY <2>1, <2>5, <2>6, <2>7, <2>8 DEF SyncInv, Top
<1>12. CASE LoopEnds
  <2>1. stack # <<>> /\ syncWaits' = (syncWaits /\ ~Top.sync)
    BY <1>12 DEF LoopEnds, BetweenMessages
  <2>2. syncWaits => posting # NoMessage
    BY <1>1, OwnersAreMessages DEF SyncInv
  <2>3. ~syncWaits'
    BY <1>1, <1>2, <2>1, <2>2 DEF Frames, Top
  <2> QED BY <2>3 DEF SyncInv
<1>13. ASSUME NEW o \in Object, NEW e \in Event, NEW any \in BOOLEAN,
              DelMessages(o, e, any)
       PROVE  SyncInv'
  BY <1>13, PurgeQueued, StillQueued DEF DelMessages
<1>14. ASSUME NEW o \in Object, Destroy(o) PROVE SyncInv'
  <2>1. MayCall /\ stack' = Called /\ posting' = posting
    BY <1>14 DEF Destroy
  <2>2. syncWaits' => syncWaits /\ (posting \in Elements(list) =>
                                       posting \in Elements(list'))
    BY <1>14, PurgeQueued DEF Destroy
  <2> QED BY <2>1, <2>2, StillQueued
<1>15. ASSUME NEW o \in Object, Create(o) PROVE SyncInv'
  BY <1>15, StillQueued DEF Create
<1>16. CASE DestroyReader
  BY <1>16 DEF DestroyReader, Purge, SyncInv
<1> QED BY <1>3, <1>4, <1>5, <1>6, <1>7, <1>8, <1>9, <1>10, <1>11, <1>12,
           <1>13, <1>14, <1>15, <1>16, Zenon DEF Next, MainContinues

\* Only a Messages_handle() that returns leaves fewer of them.
LEMMA FewerCalls ==
    ASSUME IInv, Next, Len(stack') < Len(stack)
    PROVE  LoopEnds
<1>1. stack \in Seq(Frame) /\ Len(stack) \in Nat /\ Frames(stack, posting)
  BY DEF IInv, TypeOK
<1>2. Len(Called) = Len(stack)
  BY <1>1 DEF Called
<1>3. ASSUME NEW f, SetTop(f) PROVE Len(stack') = Len(stack)
  BY <1>1, <1>3 DEF SetTop
<1>4. /\ stack' # Called /\ stack' # stack
      /\ \A f : ~SetTop(f)
  BY <1>1, <1>2, <1>3
<1>5. ASSUME NEW o \in Object, NEW m \in Message, NEW e \in Event,
             PostSync(o, m, e)
      PROVE  FALSE
  <2> DEFINE f == NewFrame(TRUE, m)
  <2>1. MayCall /\ stack' = Append(Called, f)
    BY <1>5 DEF PostSync
  <2>2. Called \in Seq(Frame)
    BY <1>1, <2>1, CalledFrames
  <2>3. f \in Frame
    BY BoundsAssumption DEF NewFrame, Frame
  <2> HIDE DEF f
  <2>4. Len(stack') = Len(Called) + 1
    BY <2>1, <2>2, <2>3, Pushed
  <2> QED BY <1>1, <1>2, <2>4
<1>6. ~TimerFires
  <2> SUFFICES ASSUME TimerFires PROVE FALSE
    OBVIOUS
  <2>1. PICK f : stack = <<>> /\ stack' = <<f>>
    BY Zenon DEF TimerFires
  <2>2. Len(stack) = 0 /\ Len(stack') = 1
    BY <2>1
  <2> QED BY <2>2
<1>7. ~EnqueueSync /\ ~HandleNext /\ ~HandlerReturns
  BY <1>4, Zenon DEF EnqueueSync, HandleNext, HandlerReturns
<1>8. ASSUME NEW o \in Object, NEW m \in Message, NEW e \in Event,
             NEW a \in BOOLEAN, PostAsync(o, m, e, a)
      PROVE  FALSE
  BY <1>4, <1>8 DEF PostAsync
<1>9. ASSUME NEW t \in Thread, NEW o \in Object, NEW m \in Message,
             NEW e \in Event, ThreadPosts(t, o, m, e)
      PROVE  FALSE
  BY <1>4, <1>9 DEF ThreadPosts
<1>10. ASSUME NEW t \in Thread, ThreadEnqueues(t) PROVE FALSE
  BY <1>4, <1>10 DEF ThreadEnqueues
<1>11. ASSUME NEW o \in Object, NEW e \in Event, NEW any \in BOOLEAN,
              DelMessages(o, e, any)
       PROVE  FALSE
  BY <1>4, <1>11 DEF DelMessages
<1>12. ASSUME NEW o \in Object, Destroy(o) \/ Create(o) PROVE FALSE
  BY <1>4, <1>12 DEF Destroy, Create
<1>13. ~DestroyReader
  BY <1>4 DEF DestroyReader
<1> QED BY <1>5, <1>6, <1>7, <1>8, <1>9, <1>10, <1>11, <1>12, <1>13, Zenon
        DEF Next, MainContinues

\* A synchronous postMessage() returns with its message handed over, or
\* deleted, unless its loop handed over as many messages as it may.
THEOREM Delivery == Spec => SyncPostDelivers
<1>1. Init => SyncInv
  BY DEF Init, SyncInv
<1>2. IInv /\ SyncInv /\ [Next]_vars
        => [SyncReturns /\ Top.nread + 1 < MaxInRow => ~syncWaits]_vars
  <2> SUFFICES ASSUME IInv, SyncInv, [Next]_vars, SyncReturns,
                      Top.nread + 1 < MaxInRow, syncWaits, vars' # vars
               PROVE  FALSE
    OBVIOUS
  <2>1. LoopEnds
    BY FewerCalls DEF SyncReturns
  <2>2. /\ posting \in Elements(list) \cup ToPostOf(stack)
        /\ stack # <<>> /\ ~Top.stopOnAsync
    BY DEF SyncInv
  <2>3. list = <<>>
    BY <2>1, <2>2 DEF LoopEnds, MayRead
  <2>4. Top.toPost = NoMessage /\ stack \in Seq(Frame) /\ Frames(stack, posting)
    BY <2>1 DEF LoopEnds, BetweenMessages, IInv, TypeOK
  <2>5. ToPostOf(stack) = {}
    BY <2>2, <2>4, NamesAssumption DEF ToPostOf, Frames, Top
  <2> QED BY <2>2, <2>3, <2>5 DEF Elements
<1> QED BY <1>1, <1>2, InitIInv, NextIInv, NextSyncInv, PTL
       DEF Spec, SyncPostDelivers
=============================================================================
