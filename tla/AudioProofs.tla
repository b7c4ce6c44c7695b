---------------------------- MODULE AudioProofs ----------------------------
(***************************************************************************)
(* The threads of Audio, for every set of sources and every size of the    *)
(* ring buffers: a node is deleted in peace, and nobody waits in vain.     *)
(* Then those of Video.                                                    *)
(*                                                                         *)
(* The main thread's place is what is left of its operation.  What the     *)
(* proofs know of it holds of a sequence of steps whatever was done before *)
(* it, so that it is kept when the first step is taken away.               *)
(***************************************************************************)
EXTENDS MCAudio, FiniteSetTheorems, TLAPS

StepName ==
    {"askQueue", "takeQueue", "takeSources", "giveSources", "give", "list",
     "unlist", "finish", "close", "delete", "open", "post", "play", "flush",
     "wake", "unask", "awaitFlush", "flushed", "down", "joinQueue",
     "joinDecode", "next"}

\* The steps that need both locks, and those that need one.
Handles == {"list", "unlist", "close", "delete"}
NeedQueue == Handles \cup {"give", "next"}
NeedSources == Handles \cup {"giveSources", "next"}

In(p, x) == \E i \in 1..Len(p) : p[i] = x
Before(p, i, x) == \E j \in 1..Len(p) : j < i /\ p[j] = x
After(p, i, x) == \E j \in 1..Len(p) : i < j /\ p[j] = x

\* The order of the steps of an operation: nothing is handled once a lock was
\* given back, a flush is asked for, awaited and over, no message is posted by
\* an operation that takes a node in or out or asks for a flush, and no node is
\* taken in at the end.
Order(p) ==
    /\ p \in Seq(StepName)
    /\ \A i, j \in 1..Len(p) :
          i < j => /\ p[i] = "give" => p[j] = "open"
                   /\ p[i] = "giveSources" => p[j] \notin NeedSources
                   /\ p[i] \notin {"open", "next"}
                   /\ p[i] = "flush" => p[j] # "flush"
                   /\ p[i] = "flushed" =>
                        p[j] \notin {"flush", "awaitFlush", "flushed"}
    /\ \A i \in 1..Len(p) :
          p[i] = "flush" => After(p, i, "awaitFlush") /\ After(p, i, "flushed")
    /\ In(p, "post") =>
          \A i \in 1..Len(p) :
             p[i] \notin {"list", "unlist", "delete", "flush", "flushed"}
    /\ In(p, "joinDecode") => \A i \in 1..Len(p) : p[i] # "list"

\* Such a step has its locks, or is preceded by those that take them.
Locked(p) ==
    \A i \in 1..Len(p) :
        /\ p[i] \in NeedQueue =>
              queueLock = "main" \/ Before(p, i, "takeQueue")
        /\ p[i] \in NeedSources =>
              sourcesLock = "main" \/ Before(p, i, "takeSources")

\* A node is deleted when its messages are flushed, and opened when it is
\* closed; messages are posted to nodes that are in the list.
Prepared(p) ==
    /\ \A i \in 1..Len(p) :
          p[i] = "delete" => inbox = {} \/ Before(p, i, "flushed")
    /\ \A i \in 1..Len(p) :
          p[i] = "open" => reader[node] = "none" \/ Before(p, i, "close")
    /\ In(p, "post") => life[node] = "listed"

StepsInv ==
    /\ Order(steps) /\ Locked(steps) /\ Prepared(steps)
    /\ steps # <<>> <=> node \in Source

LocksInv ==
    /\ qpc = "run" <=> queueLock = "queue"
    /\ dpc \in {"work", "post", "await"} <=> sourcesLock = "decode"
    /\ cur # NoSource <=> dpc \in {"post", "await"}
    /\ todo \subseteq Listed
    /\ todo # {} => sourcesLock = "decode"

\* A flush is under way: it was asked for, and the main thread waits.
Flushing == In(steps, "flushed") /\ ~In(steps, "flush")

\* The queue thread answers a flush only when it has emptied the inbox since
\* it was asked for, and the main thread goes on only when it has.
FlushInv ==
    /\ flush => Flushing
    /\ cond["MessagesFlushed"] => Flushing /\ ~flush
    /\ Flushing /\ ~flush => inbox = {}
    /\ Flushing /\ ~In(steps, "awaitFlush") /\ wait["MessagesFlushed"] = "no"
          => ~flush /\ ~cond["MessagesFlushed"]
    /\ msgFlush /\ qpc \in {"read", "answer"} => flush
    /\ msgFlush /\ qpc = "answer" => inbox = {}

\* The source that is read: it is in the list and its reader is open.  What it
\* reads has room.
ReadInv ==
    /\ cur # NoSource => /\ life[cur] = "listed" /\ reader[cur] = "opened"
                         /\ decoded[cur] < MaxDecoded /\ ~pending[cur]
    /\ \A s \in Source : pending[s] => decoded[s] < MaxDecoded
    /\ \A s \in Source : packet[s] => haveData[s]

\* A question that is not answered is with the main thread.
AskInv ==
    /\ dpc = "await" => request[cur] \/ answer[cur]
    /\ NoLostData

\* No source is left when the threads' end is awaited, and a reader that is
\* finished, but not yet closed, is answered or not in the decode thread's hands.
EndInv ==
    /\ In(steps, "joinDecode") => Listed = {}
    /\ In(steps, "close") /\ ~In(steps, "finish") /\ reader[node] # "none" =>
          /\ err[node] = "exit"
          /\ answer[node] \/ (cur # node /\ ~pending[node])

IInv ==
    /\ TypeOK /\ StepsInv /\ LocksInv /\ FlushInv /\ ReadInv
    /\ FlushedBeforeDelete /\ AskInv /\ EndInv
-----------------------------------------------------------------------------
(* What is left of an operation. *)

LEMMA TailOf ==
    ASSUME NEW p \in Seq(StepName), p # <<>>
    PROVE  /\ Tail(p) \in Seq(StepName) /\ Len(p) \in Nat /\ Len(p) >= 1
           /\ Len(Tail(p)) = Len(p) - 1 /\ Head(p) = p[1]
           /\ \A i \in 1..(Len(p) - 1) : Tail(p)[i] = p[i + 1]
           /\ \A x : In(p, x) <=> p[1] = x \/ In(Tail(p), x)
           /\ \A x : \A i \in 1..(Len(p) - 1) :
                 /\ Before(p, i + 1, x) <=> p[1] = x \/ Before(Tail(p), i, x)
                 /\ After(p, i + 1, x) <=> After(Tail(p), i, x)
<1> DEFINE t == Tail(p)
<1>1. /\ t \in Seq(StepName) /\ Len(p) \in Nat /\ Len(p) >= 1
      /\ Len(t) = Len(p) - 1 /\ Head(p) = p[1]
      /\ \A i \in 1..(Len(p) - 1) : t[i] = p[i + 1]
  OBVIOUS
<1> HIDE DEF t
<1>2. \A j \in 1..Len(p) : j = 1 \/ (j - 1 \in 1..Len(t) /\ p[j] = t[j - 1])
  <2> SUFFICES ASSUME NEW j \in 1..Len(p), j # 1
               PROVE  j - 1 \in 1..Len(t) /\ p[j] = t[j - 1]
    OBVIOUS
  <2>1. j - 1 \in 1..(Len(p) - 1) /\ (j - 1) + 1 = j
    BY <1>1
  <2> QED BY <1>1, <2>1
<1>3. \A j \in 1..Len(t) : j + 1 \in 1..Len(p) /\ p[j + 1] = t[j]
  BY <1>1
<1>4. 1 \in 1..Len(p) /\ Len(t) \in Nat
  BY <1>1
<1>5. ASSUME NEW x PROVE In(p, x) <=> p[1] = x \/ In(t, x)
  <2>1. In(p, x) => p[1] = x \/ In(t, x)
    BY <1>2 DEF In
  <2>2. In(t, x) => In(p, x)
    BY <1>3 DEF In
  <2>3. p[1] = x => In(p, x)
    BY <1>4 DEF In
  <2> QED BY <2>1, <2>2, <2>3
<1>6. ASSUME NEW i \in 1..(Len(p) - 1), NEW x
      PROVE  Before(p, i + 1, x) <=> p[1] = x \/ Before(t, i, x)
  <2>1. i \in Int /\ 1 < i + 1
    BY <1>1
  <2>2. ASSUME Before(p, i + 1, x) PROVE p[1] = x \/ Before(t, i, x)
    <3>1. PICK j \in 1..Len(p) : j < i + 1 /\ p[j] = x
      BY <2>2 DEF Before
    <3>2. j # 1 => j - 1 \in 1..Len(t) /\ j - 1 < i /\ t[j - 1] = x
      BY <1>2, <2>1, <3>1
    <3> QED BY <3>1, <3>2 DEF Before
  <2>3. ASSUME Before(t, i, x) PROVE Before(p, i + 1, x)
    <3>1. PICK j \in 1..Len(t) : j < i /\ t[j] = x
      BY <2>3 DEF Before
    <3>2. j + 1 < i + 1
      BY <1>4, <2>1, <3>1
    <3> QED BY <1>3, <3>1, <3>2 DEF Before
  <2> QED BY <1>4, <2>1, <2>2, <2>3 DEF Before
<1>7. ASSUME NEW i \in 1..(Len(p) - 1), NEW x
      PROVE  After(p, i + 1, x) <=> After(t, i, x)
  <2>1. i \in Int /\ i >= 1
    BY <1>1
  <2>2. ASSUME After(p, i + 1, x) PROVE After(t, i, x)
    <3>1. PICK j \in 1..Len(p) : i + 1 < j /\ p[j] = x
      BY <2>2 DEF After
    <3>2. j # 1 /\ i < j - 1
      BY <2>1, <3>1
    <3> QED BY <1>2, <3>1, <3>2 DEF After
  <2>3. ASSUME After(t, i, x) PROVE After(p, i + 1, x)
    <3>1. PICK j \in 1..Len(t) : i < j /\ t[j] = x
      BY <2>3 DEF After
    <3>2. i + 1 < j + 1
      BY <1>4, <2>1, <3>1
    <3> QED BY <1>3, <3>1, <3>2 DEF After
  <2> QED BY <2>2, <2>3
<1> QED BY <1>1, <1>5, <1>6, <1>7 DEF t

LEMMA OrderTail ==
    ASSUME NEW p, Order(p), p # <<>>
    PROVE  Order(Tail(p))
<1> DEFINE t == Tail(p)
<1>1. /\ t \in Seq(StepName) /\ Len(p) \in Nat /\ Len(p) >= 1
      /\ Len(t) = Len(p) - 1
      /\ \A i \in 1..(Len(p) - 1) : t[i] = p[i + 1]
      /\ \A x : In(t, x) => In(p, x)
      /\ \A x : \A i \in 1..(Len(p) - 1) : After(p, i + 1, x) => After(t, i, x)
  BY TailOf DEF Order
<1> HIDE DEF t
<1>2. \A i \in 1..Len(t) : i + 1 \in 1..Len(p) /\ t[i] = p[i + 1]
  BY <1>1
<1>3. \A i, j \in 1..Len(t) : i < j => i + 1 < j + 1
  BY <1>1
<1>4. \A i, j \in 1..Len(t) :
          i < j => /\ t[i] = "give" => t[j] = "open"
                   /\ t[i] = "giveSources" => t[j] \notin NeedSources
                   /\ t[i] \notin {"open", "next"}
                   /\ t[i] = "flush" => t[j] # "flush"
                   /\ t[i] = "flushed" =>
                        t[j] \notin {"flush", "awaitFlush", "flushed"}
  <2> SUFFICES ASSUME NEW i \in 1..Len(t), NEW j \in 1..Len(t), i < j
               PROVE  /\ t[i] = "give" => t[j] = "open"
                      /\ t[i] = "giveSources" => t[j] \notin NeedSources
                      /\ t[i] \notin {"open", "next"}
                      /\ t[i] = "flush" => t[j] # "flush"
                      /\ t[i] = "flushed" =>
                            t[j] \notin {"flush", "awaitFlush", "flushed"}
       OBVIOUS
  <2>1. /\ i + 1 \in 1..Len(p) /\ j + 1 \in 1..Len(p) /\ i + 1 < j + 1
        /\ t[i] = p[i + 1] /\ t[j] = p[j + 1]
    BY <1>2, <1>3
  <2> DEFINE a == i + 1
             b == j + 1
  <2> HIDE DEF a, b
  <2>2. a \in 1..Len(p) /\ b \in 1..Len(p) /\ a < b /\ t[i] = p[a] /\ t[j] = p[b]
    BY <2>1 DEF a, b
  <2>3. /\ p[a] = "give" => p[b] = "open"
        /\ p[a] = "giveSources" => p[b] \notin NeedSources
        /\ p[a] \notin {"open", "next"}
        /\ p[a] = "flush" => p[b] # "flush"
        /\ p[a] = "flushed" => p[b] \notin {"flush", "awaitFlush", "flushed"}
    BY <2>2 DEF Order
  <2> QED BY <2>2, <2>3, Zenon
<1>5. \A i \in 1..Len(t) :
          t[i] = "flush" => After(t, i, "awaitFlush") /\ After(t, i, "flushed")
  BY <1>1, <1>2 DEF Order
<1>6. ASSUME In(t, "post"), NEW i \in 1..Len(t)
      PROVE  t[i] \notin {"list", "unlist", "delete", "flush", "flushed"}
  BY <1>1, <1>2, <1>6 DEF Order
<1>7. ASSUME In(t, "joinDecode"), NEW i \in 1..Len(t) PROVE t[i] # "list"
  BY <1>1, <1>2, <1>7 DEF Order
<1>8. Order(t)
  BY <1>1, <1>4, <1>5, <1>6, <1>7, Zenon DEF Order
<1> QED BY <1>8 DEF t

\* How an operation begins: nothing is done yet.
Begins(p, r, l) ==
    /\ Order(p) /\ p # <<>>
    /\ \A i \in 1..Len(p) :
          /\ p[i] \in NeedQueue => Before(p, i, "takeQueue")
          /\ p[i] \in NeedSources => Before(p, i, "takeSources")
          /\ p[i] = "delete" => Before(p, i, "flushed")
          /\ p[i] = "open" => r = "none" \/ Before(p, i, "close")
    /\ In(p, "post") => l = "listed"
    /\ In(p, "flushed") => In(p, "flush") /\ In(p, "awaitFlush")
    /\ In(p, "close") => In(p, "finish")
    /\ ~In(p, "joinDecode")

LEMMA ConnectBegins ==
    ASSUME NEW r, NEW l
    PROVE  Begins(<<"askQueue", "takeQueue", "give">>, r, l)
<1> DEFINE p == <<"askQueue", "takeQueue", "give">>
<1>1. Len(p) = 3 /\ p \in Seq(StepName) /\ p # <<>>
  BY DEF StepName
<1>2. Order(p)
  BY <1>1 DEF Order, In, After, NeedSources, Handles
<1> QED BY <1>1, <1>2
        DEF Begins, In, Before, NeedQueue, NeedSources, Handles

LEMMA AddBegins ==
    ASSUME NEW r, NEW l
    PROVE  Begins(<<"takeSources", "askQueue", "takeQueue", "list", "give">>, r, l)
<1> DEFINE p == <<"takeSources", "askQueue", "takeQueue", "list", "give">>
<1>1. Len(p) = 5 /\ p \in Seq(StepName) /\ p # <<>>
  BY DEF StepName
<1>2. Order(p)
  BY <1>1 DEF Order, In, After, NeedSources, Handles
<1> QED BY <1>1, <1>2
        DEF Begins, In, Before, NeedQueue, NeedSources, Handles

LEMMA CloseBegins ==
    ASSUME NEW r, NEW l
    PROVE  Begins(CloseInternal, r, l)
<1> DEFINE p == CloseInternal
<1>1. Len(p) = 6 /\ p \in Seq(StepName) /\ p # <<>>
  BY DEF StepName, CloseInternal
<1>2. Order(p)
  BY <1>1 DEF Order, In, After, NeedSources, Handles, CloseInternal
<1> QED BY <1>1, <1>2
        DEF Begins, In, Before, NeedQueue, NeedSources, Handles, CloseInternal

LEMMA ReopenBegins ==
    ASSUME NEW r, NEW l
    PROVE  Begins(Append(CloseInternal, "open"), r, l)
<1> DEFINE p == Append(CloseInternal, "open")
<1>1. Len(p) = 7 /\ p \in Seq(StepName) /\ p # <<>>
  BY DEF StepName, CloseInternal
<1>2. Order(p)
  BY <1>1 DEF Order, In, After, NeedSources, Handles, CloseInternal
<1> QED BY <1>1, <1>2
        DEF Begins, In, Before, NeedQueue, NeedSources, Handles, CloseInternal

LEMMA ReleaseBegins ==
    ASSUME NEW r, NEW l
    PROVE  Begins(ReleaseNode, r, l)
<1> DEFINE p == ReleaseNode
<1>1. Len(p) = 12 /\ p \in Seq(StepName) /\ p # <<>>
  BY DEF StepName, ReleaseNode
<1>2. Order(p)
  BY <1>1 DEF Order, In, After, NeedSources, Handles, ReleaseNode
<1> QED BY <1>1, <1>2
        DEF Begins, In, Before, NeedQueue, NeedSources, Handles, ReleaseNode

LEMMA ShutdownBegins ==
    ASSUME NEW r, NEW l
    PROVE  Begins(Shutdown, r, l)
<1> DEFINE p == Shutdown
<1>1. Len(p) = 4 /\ p \in Seq(StepName) /\ p # <<>>
  BY DEF StepName, Shutdown
<1>2. Order(p)
  BY <1>1 DEF Order, In, After, NeedSources, Handles, Shutdown
<1> QED BY <1>1, <1>2
        DEF Begins, In, Before, NeedQueue, NeedSources, Handles, Shutdown

LEMMA ProgramBegins ==
    ASSUME TypeOK, NEW op \in Ops, NEW s \in Source, Allowed(op, s)
    PROVE  Begins(Program(op, s), reader[s], life[s])
<1>1. CASE op = "connect"
  BY <1>1, ConnectBegins DEF Program
<1>2. CASE op = "add"
  BY <1>2, AddBegins DEF Program
<1>3. CASE op = "open" /\ reader[s] = "none"
  <2> DEFINE p == <<"open">>
  <2>1. Len(p) = 1 /\ p \in Seq(StepName) /\ p # <<>> /\ p[1] = "open"
    BY DEF StepName
  <2> HIDE DEF p
  <2>2. Begins(p, reader[s], life[s])
    BY <1>3, <2>1 DEF Begins, Order, In, Before, After, NeedQueue, NeedSources,
                           Handles
  <2> QED BY <1>3, <2>2 DEF Program, p
<1>4. CASE op = "open" /\ reader[s] # "none"
  BY <1>4, ReopenBegins DEF Program
<1>5. CASE op = "set"
  <2> DEFINE p == <<"post">>
  <2>1. Len(p) = 1 /\ p \in Seq(StepName) /\ p # <<>> /\ p[1] = "post"
    BY DEF StepName
  <2>2. life[s] = "listed"
    BY <1>5 DEF Allowed
  <2> HIDE DEF p
  <2>3. Begins(p, reader[s], life[s])
    BY <2>1, <2>2 DEF Begins, Order, In, Before, After, NeedQueue, NeedSources,
                           Handles
  <2> QED BY <1>5, <2>3 DEF Program, p
<1>6. CASE op = "call"
  <2> DEFINE p == <<"post", "wake", "unask">>
  <2>1. /\ Len(p) = 3 /\ p \in Seq(StepName) /\ p # <<>>
        /\ p[1] = "post" /\ p[2] = "wake" /\ p[3] = "unask"
    BY DEF StepName
  <2>2. life[s] = "listed"
    BY <1>6 DEF Allowed
  <2> HIDE DEF p
  <2>3. Begins(p, reader[s], life[s])
    BY <2>1, <2>2 DEF Begins, Order, In, Before, After, NeedQueue, NeedSources,
                           Handles
  <2> QED BY <1>6, <2>3 DEF Program, p
<1>7. CASE op = "play"
  <2> DEFINE p == <<"play">>
  <2>1. Len(p) = 1 /\ p \in Seq(StepName) /\ p # <<>> /\ p[1] = "play"
    BY DEF StepName
  <2> HIDE DEF p
  <2>2. Begins(p, reader[s], life[s])
    BY <2>1 DEF Begins, Order, In, Before, After, NeedQueue, NeedSources,
                           Handles
  <2> QED BY <1>7, <2>2 DEF Program, p
<1>8. CASE op = "close"
  BY <1>8, CloseBegins DEF Program
<1>9. CASE op = "release"
  BY <1>9, ReleaseBegins DEF Program
<1>10. CASE op = "shutdown"
  BY <1>10, ShutdownBegins DEF Program
<1> QED BY <1>1, <1>2, <1>3, <1>4, <1>5, <1>6, <1>7, <1>8, <1>9, <1>10,
           AudioAssumption
-----------------------------------------------------------------------------
(* Conditions. *)

CondTypes ==
    /\ cond \in [Cond -> BOOLEAN]
    /\ wait \in [Cond -> {"no", "check", "unset", "asleep"}]

\* What FlushInv looks at in the conditions.
SameFlush ==
    /\ cond'["MessagesFlushed"] = cond["MessagesFlushed"]
    /\ wait'["MessagesFlushed"] = "no" <=> wait["MessagesFlushed"] = "no"

LEMMA Signalled ==
    ASSUME CondTypes, NEW cs, Signal(cs)
    PROVE  /\ CondTypes'
           /\ "MessagesFlushed" \notin cs => SameFlush
           /\ wait'["MessagesFlushed"] = "no" <=> wait["MessagesFlushed"] = "no"
<1>1. "MessagesFlushed" \in Cond
  BY DEF Cond
<1>2. cond' = [c \in Cond |-> c \in cs \/ cond[c]]
  BY DEF CondTypes, Signal
<1>3. wait' = [c \in Cond |-> IF c \in cs /\ wait[c] = "asleep" THEN "check"
                              ELSE wait[c]]
  BY DEF CondTypes, Signal
<1>4. /\ wait' \in [Cond -> {"no", "check", "unset", "asleep"}]
      /\ wait'["MessagesFlushed"] = "no" <=> wait["MessagesFlushed"] = "no"
  BY <1>1, <1>3 DEF CondTypes
<1>5. cond' \in [Cond -> BOOLEAN]
  BY <1>2, Zenon DEF CondTypes
<1>6. cond'["MessagesFlushed"]
        = ("MessagesFlushed" \in cs \/ cond["MessagesFlushed"])
  BY <1>1, <1>2, Zenon
<1>7. cond["MessagesFlushed"] \in BOOLEAN
  BY <1>1 DEF CondTypes
<1>8. "MessagesFlushed" \notin cs
         => cond'["MessagesFlushed"] = cond["MessagesFlushed"]
  BY <1>6, <1>7
<1> QED BY <1>4, <1>5, <1>8 DEF CondTypes, SameFlush

LEMMA NotSignalled ==
    ASSUME CondTypes, NoSignal
    PROVE  CondTypes' /\ SameFlush
  BY DEF CondTypes, NoSignal, condVars, SameFlush

LEMMA Waits ==
    ASSUME CondTypes, NEW c \in Cond, WaitFor(c)
    PROVE  /\ CondTypes' /\ cond' = cond /\ wait'[c] = "check"
           /\ c # "MessagesFlushed" => SameFlush
<1>1. "MessagesFlushed" \in Cond
  BY DEF Cond
<1> QED BY <1>1 DEF CondTypes, WaitFor, SameFlush

\* A thread looks at its condition, or falls asleep.
LEMMA Looks ==
    ASSUME CondTypes, NEW c \in Cond, Check(c) \/ Sleep(c)
    PROVE  /\ CondTypes'
           /\ c # "MessagesFlushed" => SameFlush
           /\ cond'["MessagesFlushed"] => cond["MessagesFlushed"]
           /\ wait'["MessagesFlushed"] = "no" =>
                 \/ SameFlush
                 \/ cond["MessagesFlushed"] /\ ~cond'["MessagesFlushed"]
<1>1. "MessagesFlushed" \in Cond
  BY DEF Cond
<1>2. CASE Check(c)
  <2>1. /\ wait[c] = "check"
        /\ wait' = [wait EXCEPT ![c] = IF cond[c] THEN "no" ELSE "unset"]
        /\ cond' = [cond EXCEPT ![c] = FALSE]
    BY <1>2 DEF Check
  <2> QED BY <1>1, <2>1 DEF CondTypes, SameFlush
<1>3. CASE Sleep(c)
  BY <1>1, <1>3 DEF Sleep, CondTypes, SameFlush
<1> QED BY <1>2, <1>3
-----------------------------------------------------------------------------
(* What a step leaves as it is. *)

LEMMA KeepsSteps ==
    ASSUME StepsInv, steps' = steps, node' = node,
           queueLock = "main" => queueLock' = "main",
           sourcesLock = "main" => sourcesLock' = "main",
           inbox = {} => inbox' = {},
           steps # <<>> => reader' = reader,
           life' = life
    PROVE  StepsInv'
<1>1. Order(steps') /\ (steps' # <<>> <=> node' \in Source)
  BY DEF StepsInv
<1>2. Locked(steps)'
  BY DEF StepsInv, Locked
<1>3. Prepared(steps)'
  <2>1. CASE steps = <<>>
    BY <2>1 DEF Prepared, In
  <2>2. CASE steps # <<>>
    BY <2>2 DEF StepsInv, Prepared
  <2> QED BY <2>1, <2>2
<1> QED BY <1>1, <1>2, <1>3 DEF StepsInv

LEMMA KeepsFlush ==
    ASSUME FlushInv, steps' = steps, flush' = flush, SameFlush,
           inbox = {} => inbox' = {}, msgFlush' = msgFlush, qpc' = qpc
    PROVE  FlushInv'
<1>1. Flushing' <=> Flushing
  BY DEF Flushing
<1> QED BY <1>1 DEF FlushInv, SameFlush
-----------------------------------------------------------------------------
(* Audio::queueThread(). *)

QueueLeaves ==
    UNCHANGED <<freeLock, down, needWork, sourcesLock, life, readerVars,
                decodeVars, mainVars>>

\* What is left to show of a step of the queue thread.
LEMMA QueueKeeps ==
    ASSUME IInv, QueueLeaves, CondTypes', FlushInv',
           flush' \in BOOLEAN, queueLock' \in {"free", "main", "queue"},
           space' \in 0..Ring, inbox' \subseteq inbox,
           decoded' \in [Source -> 0..MaxDecoded],
           \A s \in Source : decoded'[s] <= decoded[s],
           qpc' \in {"read", "answer", "try", "run", "check", "wait", "exit",
                     "exited"},
           msgFlush' \in BOOLEAN, wrote' \in BOOLEAN, needSpace' \in BOOLEAN,
           qpc' = "run" <=> queueLock' = "queue",
           queueLock = "main" => queueLock' = "main"
    PROVE  IInv'
<1>1. /\ freeLock' = freeLock /\ down' = down /\ needWork' = needWork
      /\ sourcesLock' = sourcesLock /\ life' = life /\ reader' = reader
      /\ pending' = pending /\ needWakeup' = needWakeup /\ packet' = packet
      /\ haveData' = haveData /\ request' = request /\ answer' = answer
      /\ err' = err /\ dpc' = dpc /\ todo' = todo /\ cur' = cur
      /\ steps' = steps /\ node' = node
  BY DEF QueueLeaves, readerVars, decodeVars, mainVars
<1>2. /\ TypeOK /\ StepsInv /\ LocksInv /\ ReadInv /\ FlushedBeforeDelete
      /\ AskInv /\ EndInv
  BY DEF IInv
<1>3. TypeOK'
  BY <1>1, <1>2 DEF TypeOK, CondTypes
<1>4. StepsInv'
  BY <1>1, <1>2, KeepsSteps
<1>5. LocksInv'
  BY <1>1, <1>2 DEF LocksInv, Listed
<1>6. ReadInv'
  <2>1. decoded \in [Source -> 0..MaxDecoded] /\ cur \in Source \cup {NoSource}
    BY <1>2 DEF TypeOK
  <2>2. \A s \in Source : decoded[s] < MaxDecoded => decoded'[s] < MaxDecoded
    BY <2>1, AudioAssumption
  <2> QED BY <1>1, <1>2, <2>1, <2>2 DEF ReadInv
<1>7. FlushedBeforeDelete'
  BY <1>1, <1>2 DEF FlushedBeforeDelete
<1>8. AskInv' /\ EndInv'
  BY <1>1, <1>2 DEF AskInv, NoLostData, EndInv, Listed
<1> QED BY <1>3, <1>4, <1>5, <1>6, <1>7, <1>8, Zenon DEF IInv

LEMMA TypesOf ==
    ASSUME IInv
    PROVE  /\ CondTypes /\ FlushInv /\ TypeOK /\ StepsInv /\ LocksInv /\ ReadInv
           /\ flush \in BOOLEAN /\ queueLock \in {"free", "main", "queue"}
           /\ space \in 0..Ring /\ decoded \in [Source -> 0..MaxDecoded]
           /\ \A s \in Source : decoded[s] <= decoded[s]
           /\ qpc \in {"read", "answer", "try", "run", "check", "wait", "exit",
                       "exited"}
           /\ msgFlush \in BOOLEAN /\ wrote \in BOOLEAN
           /\ needSpace \in BOOLEAN
<1>1. decoded \in [Source -> 0..MaxDecoded]
  BY DEF IInv, TypeOK
<1>2. \A s \in Source : decoded[s] <= decoded[s]
  BY <1>1, AudioAssumption
<1> QED BY <1>1, <1>2 DEF IInv, TypeOK, CondTypes

LEMMA ReadMessagesKeeps ==
    ASSUME IInv, QueueLeaves, ReadMessages
    PROVE  IInv'
<1>1. /\ qpc = "read" /\ inbox' = {} /\ qpc' = "answer"
      /\ flush' = flush /\ queueLock' = queueLock /\ space' = space
      /\ decoded' = decoded /\ msgFlush' = msgFlush /\ wrote' = wrote
      /\ needSpace' = needSpace /\ NoSignal /\ steps' = steps
  BY DEF ReadMessages, QueueLeaves, mainVars
<1>2. CondTypes' /\ SameFlush
  BY TypesOf, <1>1, NotSignalled
<1>3. FlushInv'
  <2>1. Flushing' <=> Flushing
    BY <1>1 DEF Flushing
  <2> QED BY TypesOf, <1>1, <1>2, <2>1 DEF FlushInv, SameFlush
<1>4. queueLock # "queue"
  BY TypesOf, <1>1 DEF LocksInv
<1> QED BY TypesOf, <1>1, <1>2, <1>3, <1>4, QueueKeeps

LEMMA QueueAnswerKeeps ==
    ASSUME IInv, QueueLeaves, QueueAnswer
    PROVE  IInv'
<1>1. /\ qpc = "answer" /\ inbox' = inbox /\ qpc' = "try"
      /\ queueLock' = queueLock /\ space' = space
      /\ decoded' = decoded /\ msgFlush' = msgFlush /\ wrote' = wrote
      /\ needSpace' = needSpace /\ steps' = steps
      /\ IF msgFlush /\ flush THEN flush' = FALSE /\ Signal({"MessagesFlushed"})
         ELSE flush' = flush /\ NoSignal
  BY DEF QueueAnswer, QueueLeaves, mainVars
<1>2. Flushing' <=> Flushing
  BY <1>1 DEF Flushing
<1>3. CASE msgFlush /\ flush
  <2>1. /\ CondTypes' /\ flush' = FALSE
        /\ wait'["MessagesFlushed"] = "no" <=> wait["MessagesFlushed"] = "no"
    BY TypesOf, <1>1, <1>3, Signalled
  <2>2. inbox = {} /\ Flushing
    BY TypesOf, <1>1, <1>3 DEF FlushInv
  <2>3. ~(~In(steps, "awaitFlush") /\ wait["MessagesFlushed"] = "no")
    BY TypesOf, <1>3, <2>2 DEF FlushInv
  <2>4. FlushInv'
    BY <1>1, <1>2, <2>1, <2>2, <2>3 DEF FlushInv
  <2>5. queueLock # "queue"
    BY TypesOf, <1>1 DEF LocksInv
  <2> QED BY TypesOf, <1>1, <2>1, <2>4, <2>5, QueueKeeps
<1>4. CASE ~(msgFlush /\ flush)
  <2>1. CondTypes' /\ SameFlush /\ flush' = flush
    BY TypesOf, <1>1, <1>4, NotSignalled
  <2>2. FlushInv'
    BY TypesOf, <1>1, <1>2, <2>1 DEF FlushInv, SameFlush
  <2>3. queueLock # "queue"
    BY TypesOf, <1>1 DEF LocksInv
  <2> QED BY TypesOf, <1>1, <2>1, <2>2, <2>3, QueueKeeps
<1> QED BY <1>3, <1>4

LEMMA QueueTryKeeps ==
    ASSUME IInv, QueueLeaves, QueueTry
    PROVE  IInv'
<1>1. /\ qpc = "try" /\ msgFlush' = FALSE
      /\ IF queueLock # "free" \/ msgFlush
         THEN qpc' = "check" /\ queueLock' = queueLock /\ needSpace' = needSpace
         ELSE IF down THEN /\ qpc' = "exit" /\ queueLock' = queueLock
                           /\ needSpace' = needSpace
         ELSE qpc' = "run" /\ queueLock' = "queue" /\ needSpace' = FALSE
      /\ inbox' = inbox /\ flush' = flush /\ space' = space
      /\ decoded' = decoded /\ wrote' = wrote /\ NoSignal /\ steps' = steps
  BY DEF QueueTry, QueueLeaves, mainVars
<1>2. CondTypes' /\ SameFlush
  BY TypesOf, <1>1, NotSignalled
<1>3. Flushing' <=> Flushing
  BY <1>1 DEF Flushing
<1>4. /\ qpc' \in {"check", "exit", "run"} /\ needSpace' \in BOOLEAN
      /\ queueLock' \in {"free", "main", "queue"}
      /\ qpc' = "run" <=> queueLock' = "queue"
      /\ queueLock = "main" => queueLock' = "main"
  BY TypesOf, <1>1 DEF LocksInv
<1>5. FlushInv'
  BY TypesOf, <1>1, <1>2, <1>3, <1>4 DEF FlushInv, SameFlush
<1> QED BY TypesOf, <1>1, <1>2, <1>4, <1>5, QueueKeeps

LEMMA QueueRunKeeps ==
    ASSUME IInv, QueueLeaves, QueueRun
    PROVE  IInv'
<1>1. /\ qpc = "run" /\ inbox' = inbox /\ flush' = flush
      /\ msgFlush' = msgFlush /\ steps' = steps
  BY DEF QueueRun, QueueLeaves, mainVars
<1>2. queueLock = "queue" /\ (Flushing' <=> Flushing)
  BY TypesOf, <1>1 DEF LocksInv, Flushing
<1>3. CASE space > 0 /\ ~freeLock /\ Ready # {}
  <2>1. /\ space' = space - 1 /\ wrote' = TRUE /\ qpc' = qpc
        /\ needSpace' = needSpace /\ queueLock' = queueLock /\ NoSignal
        /\ decoded' = [s \in Source |-> IF s \in Ready THEN decoded[s] - 1
                                        ELSE decoded[s]]
    BY <1>3 DEF QueueRun
  <2>2. CondTypes' /\ SameFlush
    BY TypesOf, <2>1, NotSignalled
  <2>3. space' \in 0..Ring
    BY TypesOf, <1>3, <2>1, AudioAssumption
  <2>4. \A s \in Ready : decoded[s] > 0
    BY DEF Ready
  <2>5. /\ decoded' \in [Source -> 0..MaxDecoded]
        /\ \A s \in Source : decoded'[s] <= decoded[s]
    BY TypesOf, <2>1, <2>4, AudioAssumption
  <2>6. FlushInv'
    BY TypesOf, <1>1, <1>2, <2>1, <2>2 DEF FlushInv, SameFlush
  <2> QED BY TypesOf, <1>1, <1>2, <2>1, <2>2, <2>3, <2>5, <2>6, QueueKeeps
<1>4. CASE ~(space > 0 /\ ~freeLock /\ Ready # {})
  <2>1. /\ needSpace' = (space = 0)
        /\ IF wrote THEN Signal({"NeedData"}) ELSE NoSignal
        /\ queueLock' = "free" /\ wrote' = FALSE /\ qpc' = "check"
        /\ space' = space /\ decoded' = decoded
    BY <1>4 DEF QueueRun
  <2>2. CondTypes' /\ SameFlush
    BY TypesOf, <2>1, NotSignalled, Signalled
  <2>3. needSpace' \in BOOLEAN
    BY <2>1
  <2>4. FlushInv'
    BY TypesOf, <1>1, <1>2, <2>1, <2>2 DEF FlushInv, SameFlush
  <2> QED BY TypesOf, <1>1, <1>2, <2>1, <2>2, <2>3, <2>4, QueueKeeps
<1> QED BY <1>3, <1>4

LEMMA QueueCheckKeeps ==
    ASSUME IInv, QueueLeaves, QueueCheck
    PROVE  IInv'
<1>1. /\ qpc = "check" /\ inbox' = inbox /\ flush' = flush
      /\ queueLock' = queueLock /\ space' = space /\ decoded' = decoded
      /\ msgFlush' = msgFlush /\ wrote' = wrote /\ needSpace' = needSpace
      /\ steps' = steps
      /\ IF down THEN qpc' = "exit" /\ NoSignal
         ELSE qpc' = "wait" /\ WaitFor(QueueCond)
  BY DEF QueueCheck, QueueLeaves, mainVars
<1>2. QueueCond \in Cond /\ QueueCond # "MessagesFlushed"
  BY DEF QueueCond, Cond
<1>3. CondTypes' /\ SameFlush
  BY TypesOf, <1>1, <1>2, NotSignalled, Waits
<1>4. Flushing' <=> Flushing
  BY <1>1 DEF Flushing
<1>5. FlushInv'
  BY TypesOf, <1>1, <1>3, <1>4 DEF FlushInv, SameFlush
<1>6. queueLock # "queue"
  BY TypesOf, <1>1 DEF LocksInv
<1> QED BY TypesOf, <1>1, <1>3, <1>5, <1>6, QueueKeeps

LEMMA QueueWaitedKeeps ==
    ASSUME IInv, QueueLeaves, QueueWaited
    PROVE  IInv'
<1>1. /\ qpc = "wait" /\ inbox' = inbox /\ flush' = flush
      /\ queueLock' = queueLock /\ space' = space /\ decoded' = decoded
      /\ msgFlush' = flush /\ wrote' = wrote /\ needSpace' = needSpace
      /\ steps' = steps /\ NoSignal
      /\ qpc' \in {"exit", "read"}
  BY DEF QueueWaited, QueueLeaves, mainVars
<1>2. CondTypes' /\ SameFlush
  BY TypesOf, <1>1, NotSignalled
<1>3. Flushing' <=> Flushing
  BY <1>1 DEF Flushing
<1>4. FlushInv'
  BY TypesOf, <1>1, <1>2, <1>3 DEF FlushInv, SameFlush
<1>5. queueLock # "queue"
  BY TypesOf, <1>1 DEF LocksInv
<1> QED BY TypesOf, <1>1, <1>2, <1>4, <1>5, QueueKeeps

LEMMA QueueExitKeeps ==
    ASSUME IInv, QueueLeaves, QueueExit
    PROVE  IInv'
<1>1. /\ qpc = "exit" /\ inbox' = {} /\ qpc' = "exited"
      /\ flush' = flush /\ queueLock' = queueLock /\ space' = space
      /\ decoded' = decoded /\ msgFlush' = msgFlush /\ wrote' = wrote
      /\ needSpace' = needSpace /\ NoSignal /\ steps' = steps
  BY DEF QueueExit, QueueLeaves, mainVars
<1>2. CondTypes' /\ SameFlush
  BY TypesOf, <1>1, NotSignalled
<1>3. Flushing' <=> Flushing
  BY <1>1 DEF Flushing
<1>4. FlushInv'
  BY TypesOf, <1>1, <1>2, <1>3 DEF FlushInv, SameFlush
<1>5. queueLock # "queue"
  BY TypesOf, <1>1 DEF LocksInv
<1> QED BY TypesOf, <1>1, <1>2, <1>4, <1>5, QueueKeeps
-----------------------------------------------------------------------------
(* Audio::decodeThread(). *)

\* What is left to show of a step of the decode thread.
LEMMA DecodeKeeps ==
    ASSUME IInv, DecodeOthers, CondTypes', SameFlush,
           needWork' \in BOOLEAN, sourcesLock' \in {"free", "main", "decode"},
           decoded' \in [Source -> 0..MaxDecoded],
           pending' \in [Source -> BOOLEAN],
           needWakeup' \in [Source -> BOOLEAN],
           request' \in [Source -> BOOLEAN], answer' \in [Source -> BOOLEAN],
           dpc' \in {"lock", "work", "post", "await", "decide", "wait",
                     "exited"},
           cur' \in Source \cup {NoSource}, LocksInv', ReadInv',
           AskInv', EndInv', sourcesLock = "main" => sourcesLock' = "main"
    PROVE  IInv'
<1>1. /\ freeLock' = freeLock /\ flush' = flush /\ down' = down
      /\ queueLock' = queueLock /\ inbox' = inbox /\ space' = space
      /\ life' = life /\ reader' = reader /\ packet' = packet
      /\ haveData' = haveData /\ err' = err /\ qpc' = qpc
      /\ msgFlush' = msgFlush /\ wrote' = wrote /\ needSpace' = needSpace
      /\ steps' = steps /\ node' = node
  BY DEF DecodeOthers, queueVars, mainVars
<1>2. /\ TypeOK /\ StepsInv /\ FlushInv /\ FlushedBeforeDelete
  BY DEF IInv
<1>3. todo' \subseteq Source
  BY DEF LocksInv, Listed
<1>4. TypeOK'
  BY <1>1, <1>2, <1>3 DEF TypeOK, CondTypes
<1>5. StepsInv'
  BY <1>1, <1>2, KeepsSteps
<1>6. FlushInv'
  BY <1>1, <1>2, KeepsFlush
<1>7. FlushedBeforeDelete'
  BY <1>1, <1>2 DEF FlushedBeforeDelete
<1> QED BY <1>4, <1>5, <1>6, <1>7, Zenon DEF IInv

LEMMA DecodeTypes ==
    ASSUME IInv
    PROVE  /\ CondTypes /\ LocksInv /\ ReadInv /\ AskInv /\ EndInv
           /\ needWork \in BOOLEAN
           /\ sourcesLock \in {"free", "main", "decode"}
           /\ decoded \in [Source -> 0..MaxDecoded]
           /\ pending \in [Source -> BOOLEAN]
           /\ needWakeup \in [Source -> BOOLEAN]
           /\ request \in [Source -> BOOLEAN] /\ answer \in [Source -> BOOLEAN]
           /\ packet \in [Source -> BOOLEAN] /\ haveData \in [Source -> BOOLEAN]
           /\ cur \in Source \cup {NoSource}
  BY DEF IInv, TypeOK, CondTypes

\* An operation that closes is about a source.
LEMMA NodeOf ==
    ASSUME IInv, NEW x, In(steps, x)
    PROVE  node \in Source
<1>1. steps # <<>>
  BY DEF In
<1> QED BY <1>1 DEF IInv, StepsInv

LEMMA DecodeLeaves ==
    ASSUME DecodeOthers
    PROVE  /\ queueLock' = queueLock /\ life' = life /\ reader' = reader
           /\ packet' = packet /\ haveData' = haveData /\ err' = err
           /\ qpc' = qpc /\ Listed' = Listed
           /\ steps' = steps /\ node' = node
  BY DEF DecodeOthers, queueVars, mainVars, Listed

LEMMA DecodeLockKeeps ==
    ASSUME IInv, DecodeOthers, DecodeLock
    PROVE  IInv'
<1>1. /\ dpc = "lock" /\ sourcesLock = "free" /\ sourcesLock' = "decode"
      /\ todo' = Listed /\ dpc' = "work" /\ needWork' = needWork
      /\ decoded' = decoded /\ pending' = pending
      /\ needWakeup' = needWakeup /\ request' = request /\ answer' = answer
      /\ cur' = cur /\ NoSignal
  BY DEF DecodeLock
<1>2. CondTypes' /\ SameFlush
  BY DecodeTypes, <1>1, NotSignalled
<1>3. LocksInv'
  BY DecodeTypes, DecodeLeaves, <1>1 DEF LocksInv
<1>4. ReadInv' /\ AskInv' /\ EndInv'
  BY DecodeTypes, DecodeLeaves, <1>1
     DEF ReadInv, AskInv, NoLostData, EndInv
<1> QED BY DecodeTypes, <1>1, <1>2, <1>3, <1>4, DecodeKeeps

LEMMA SkipKeeps ==
    ASSUME IInv, DecodeOthers, NEW s \in Source, Skip(s)
    PROVE  IInv'
<1>1. /\ dpc = "work" /\ s \in todo /\ todo' = todo \ {s}
      /\ needWork' = needWork /\ decoded' = decoded /\ pending' = pending
      /\ needWakeup' = needWakeup /\ request' = request /\ answer' = answer
      /\ sourcesLock' = sourcesLock /\ dpc' = dpc /\ cur' = cur /\ NoSignal
  BY DEF Skip, coroutine
<1>2. CondTypes' /\ SameFlush
  BY DecodeTypes, <1>1, NotSignalled
<1>3. LocksInv'
  BY DecodeTypes, DecodeLeaves, <1>1 DEF LocksInv
<1>4. ReadInv' /\ AskInv' /\ EndInv'
  BY DecodeTypes, DecodeLeaves, <1>1
     DEF ReadInv, AskInv, NoLostData, EndInv
<1>5. dpc \in {"lock", "work", "post", "await", "decide", "wait", "exited"}
  BY <1>1
<1> QED BY DecodeTypes, <1>1, <1>2, <1>3, <1>4, <1>5, DecodeKeeps

LEMMA WorkKeeps ==
    ASSUME IInv, DecodeOthers, NEW s \in Source, Work(s)
    PROVE  IInv'
<1>1. /\ dpc = "work" /\ s \in todo /\ reader[s] = "opened"
      /\ IF pending[s] THEN needWakeup[s]
         ELSE decoded[s] < MaxDecoded /\ err[s] # "exit"
      /\ pending' = [pending EXCEPT ![s] = FALSE]
      /\ needWakeup' = [needWakeup EXCEPT ![s] = FALSE]
      /\ cur' = s /\ dpc' = "post" /\ needWork' = needWork
      /\ decoded' = decoded /\ request' = request /\ answer' = answer
      /\ sourcesLock' = sourcesLock /\ todo' = todo /\ NoSignal
  BY DEF Work
<1>2. CondTypes' /\ SameFlush
  BY DecodeTypes, <1>1, NotSignalled
<1>3. s # NoSource /\ s \in Listed
  BY DecodeTypes, <1>1, AudioAssumption DEF LocksInv
<1>4. LocksInv'
  BY DecodeTypes, DecodeLeaves, <1>1, <1>3 DEF LocksInv
<1>5. /\ pending' \in [Source -> BOOLEAN] /\ needWakeup' \in [Source -> BOOLEAN]
      /\ ~pending'[s]
      /\ \A x \in Source : x # s => /\ pending'[x] = pending[x]
                                    /\ needWakeup'[x] = needWakeup[x]
  BY DecodeTypes, <1>1
<1>6. ReadInv'
  <2>1. decoded[s] < MaxDecoded
    BY DecodeTypes, <1>1 DEF ReadInv
  <2>2. life[s] = "listed"
    BY <1>3 DEF Listed
  <2> QED BY DecodeTypes, DecodeLeaves, <1>1, <1>5, <2>1, <2>2 DEF ReadInv
<1>7. AskInv'
  BY DecodeTypes, DecodeLeaves, <1>1, <1>5
     DEF AskInv, NoLostData
<1>8. EndInv'
  BY DecodeTypes, DecodeLeaves, NodeOf, <1>1, <1>5 DEF EndInv
<1> QED BY DecodeTypes, <1>1, <1>2, <1>4, <1>5, <1>6, <1>7, <1>8, DecodeKeeps

LEMMA PostReadKeeps ==
    ASSUME IInv, DecodeOthers, PostRead
    PROVE  IInv'
<1>1. /\ dpc = "post" /\ request' = [request EXCEPT ![cur] = TRUE]
      /\ dpc' = "await" /\ needWork' = needWork /\ decoded' = decoded
      /\ pending' = pending /\ needWakeup' = needWakeup /\ answer' = answer
      /\ sourcesLock' = sourcesLock /\ todo' = todo /\ cur' = cur /\ NoSignal
  BY DEF PostRead, coroutine
<1>2. CondTypes' /\ SameFlush
  BY DecodeTypes, <1>1, NotSignalled
<1>3. cur \in Source
  BY DecodeTypes, <1>1 DEF LocksInv
<1>4. LocksInv'
  BY DecodeTypes, DecodeLeaves, <1>1 DEF LocksInv
<1>5. request' \in [Source -> BOOLEAN] /\ request'[cur]
  BY DecodeTypes, <1>1, <1>3
<1>6. ReadInv' /\ AskInv' /\ EndInv'
  BY DecodeTypes, DecodeLeaves, <1>1, <1>5
     DEF ReadInv, AskInv, NoLostData, EndInv
<1> QED BY DecodeTypes, <1>1, <1>2, <1>4, <1>5, <1>6, DecodeKeeps

LEMMA ReadAnsweredKeeps ==
    ASSUME IInv, DecodeOthers, ReadAnswered
    PROVE  IInv'
<1>1. /\ dpc = "await" /\ answer' = [answer EXCEPT ![cur] = FALSE]
      /\ needWork' = needWork /\ needWakeup' = needWakeup
      /\ request' = request /\ sourcesLock' = sourcesLock /\ NoSignal
  BY DEF ReadAnswered
<1>2. CondTypes' /\ SameFlush
  BY DecodeTypes, <1>1, NotSignalled
<1>3. /\ cur \in Source /\ cur # NoSource /\ sourcesLock = "decode"
      /\ decoded[cur] < MaxDecoded
  BY DecodeTypes, <1>1 DEF LocksInv, ReadInv
<1>4. answer' \in [Source -> BOOLEAN]
  BY DecodeTypes, <1>1
<1>5. ~pending[cur]
  BY DecodeTypes, <1>3 DEF ReadInv
<1>6. ASSUME dpc' = "post" \/ (dpc' = "work" /\ cur' = NoSource),
             dpc' = "post" => cur' = cur,
             todo' \subseteq todo,
             decoded' \in [Source -> 0..MaxDecoded],
             \A s \in Source : s # cur => decoded'[s] = decoded[s],
             dpc' = "post" => decoded' = decoded,
             pending' \in [Source -> BOOLEAN],
             \A s \in Source : s # cur => pending'[s] = pending[s],
             dpc' = "post" => ~pending'[cur],
             pending'[cur] => ~haveData[cur] /\ decoded' = decoded,
             err[cur] = "exit" => cur' = NoSource /\ pending' = pending
      PROVE  IInv'
  <2>1. LocksInv'
    BY DecodeTypes, DecodeLeaves, <1>1, <1>3, <1>6, AudioAssumption DEF LocksInv
  <2>2. ReadInv'
    BY DecodeTypes, DecodeLeaves, <1>1, <1>3, <1>6 DEF ReadInv
  <2>3. AskInv'
    BY DecodeTypes, DecodeLeaves, <1>1, <1>3, <1>6
       DEF ReadInv, AskInv, NoLostData
  <2>4. EndInv'
    <3> SUFFICES ASSUME In(steps, "close"), ~In(steps, "finish"),
                        reader[node] # "none"
                 PROVE  /\ err[node] = "exit"
                        /\ answer'[node] \/ (cur' # node /\ ~pending'[node])
      BY DecodeTypes, DecodeLeaves DEF EndInv
    <3>1. /\ node \in Source /\ node # NoSource /\ err[node] = "exit"
          /\ answer[node] \/ (cur # node /\ ~pending[node])
      BY DecodeTypes, NodeOf, AudioAssumption DEF EndInv
    <3>2. CASE cur = node
      BY DecodeTypes, <1>5, <1>6, <3>1, <3>2
    <3>3. CASE cur # node
      BY DecodeTypes, <1>1, <1>3, <1>6, <3>1, <3>3
    <3> QED BY <3>2, <3>3
  <2> QED BY DecodeTypes, <1>1, <1>2, <1>3, <1>4, <1>6, <2>1, <2>2, <2>3,
             <2>4, DecodeKeeps
<1>7. CASE err[cur] = "again" /\ haveData[cur]
  <2>1. dpc' = "post" /\ cur' = cur /\ UNCHANGED <<pending, decoded, todo>>
    BY <1>7 DEF ReadAnswered
  <2> QED BY DecodeTypes, <1>3, <1>5, <1>6, <1>7, <2>1
<1>8. CASE err[cur] = "again" /\ ~haveData[cur]
  <2>1. /\ pending' = [pending EXCEPT ![cur] = TRUE] /\ decoded' = decoded
        /\ dpc' = "work" /\ todo' = todo \ {cur} /\ cur' = NoSource
    BY <1>8 DEF ReadAnswered
  <2> QED BY DecodeTypes, <1>3, <1>6, <1>8, <2>1
<1>9. CASE err[cur] = "data"
  <2>1. pending' = pending /\ todo' = todo /\ ~pending[cur]
    BY DecodeTypes, <1>3, <1>9 DEF ReadAnswered, ReadInv
  <2>2. \/ dpc' = "post" /\ UNCHANGED <<decoded, cur>>
        \/ /\ decoded' = [decoded EXCEPT ![cur] = @ + 1]
           /\ dpc' = "work" /\ cur' = NoSource
    BY <1>9 DEF ReadAnswered
  <2>3. /\ decoded' \in [Source -> 0..MaxDecoded]
        /\ \A s \in Source : s # cur => decoded'[s] = decoded[s]
    BY DecodeTypes, <1>3, <2>2, AudioAssumption
  <2> QED BY DecodeTypes, <1>6, <1>9, <2>1, <2>2, <2>3
<1>10. CASE err[cur] = "exit"
  <2>1. /\ pending' = pending /\ decoded' = decoded /\ ~pending[cur]
        /\ dpc' = "work" /\ todo' = todo \ {cur} /\ cur' = NoSource
    BY DecodeTypes, <1>3, <1>10 DEF ReadAnswered, ReadInv
  <2> QED BY DecodeTypes, <1>6, <2>1
<1> QED BY <1>7, <1>8, <1>9, <1>10 DEF ReadAnswered

LEMMA DecodeUnlockKeeps ==
    ASSUME IInv, DecodeOthers, DecodeUnlock
    PROVE  IInv'
<1>1. /\ dpc = "work" /\ todo = {} /\ sourcesLock' = "free"
      /\ needWork' = needWork /\ decoded' = decoded /\ pending' = pending
      /\ needWakeup' = needWakeup /\ request' = request /\ answer' = answer
      /\ todo' = todo /\ cur' = cur
      /\ dpc' \in {"exited", "decide"}
  BY DEF DecodeUnlock, coroutine
<1>2. CondTypes' /\ SameFlush
  BY DecodeTypes, NotSignalled, Signalled DEF DecodeUnlock
<1>3. LocksInv' /\ sourcesLock # "main"
  BY DecodeTypes, DecodeLeaves, <1>1 DEF LocksInv
<1>4. ReadInv' /\ AskInv' /\ EndInv'
  BY DecodeTypes, DecodeLeaves, <1>1
     DEF ReadInv, AskInv, NoLostData, EndInv
<1> QED BY DecodeTypes, <1>1, <1>2, <1>3, <1>4, DecodeKeeps

LEMMA DecodeDecideKeeps ==
    ASSUME IInv, DecodeOthers, DecodeDecide
    PROVE  IInv'
<1>1. /\ dpc = "decide" /\ dpc' = "wait" /\ sourcesLock' = sourcesLock
      /\ needWork' = needWork /\ decoded' = decoded /\ pending' = pending
      /\ needWakeup' = needWakeup /\ request' = request /\ answer' = answer
      /\ todo' = todo /\ cur' = cur
      /\ NoSignal \/ WaitFor("NeedData")
  BY DEF DecodeDecide, coroutine
<1>2. CondTypes' /\ SameFlush
  <2>1. "NeedData" \in Cond
    BY DEF Cond
  <2> QED BY DecodeTypes, <1>1, <2>1, NotSignalled, Waits
<1>3. LocksInv'
  BY DecodeTypes, DecodeLeaves, <1>1 DEF LocksInv
<1>4. ReadInv' /\ AskInv' /\ EndInv'
  BY DecodeTypes, DecodeLeaves, <1>1
     DEF ReadInv, AskInv, NoLostData, EndInv
<1> QED BY DecodeTypes, <1>1, <1>2, <1>3, <1>4, DecodeKeeps

LEMMA DecodeWaitedKeeps ==
    ASSUME IInv, DecodeOthers, DecodeWaited
    PROVE  IInv'
<1>1. /\ dpc = "wait" /\ dpc' \in {"exited", "lock"}
      /\ sourcesLock' = sourcesLock /\ needWork' = FALSE
      /\ decoded' = decoded /\ pending' = pending
      /\ needWakeup' = needWakeup /\ request' = request /\ answer' = answer
      /\ todo' = todo /\ cur' = cur /\ NoSignal
  BY DEF DecodeWaited, coroutine
<1>2. CondTypes' /\ SameFlush
  BY DecodeTypes, <1>1, NotSignalled
<1>3. LocksInv'
  BY DecodeTypes, DecodeLeaves, <1>1 DEF LocksInv
<1>4. ReadInv' /\ AskInv' /\ EndInv'
  BY DecodeTypes, DecodeLeaves, <1>1
     DEF ReadInv, AskInv, NoLostData, EndInv
<1> QED BY DecodeTypes, <1>1, <1>2, <1>3, <1>4, DecodeKeeps

LEMMA DecodeThreadKeeps ==
    ASSUME IInv, DecodeThread
    PROVE  IInv'
  BY DecodeLockKeeps, SkipKeeps, WorkKeeps, PostReadKeeps, ReadAnsweredKeeps,
     DecodeUnlockKeeps, DecodeDecideKeeps, DecodeWaitedKeeps DEF DecodeThread

LEMMA QueueThreadKeeps ==
    ASSUME IInv, QueueThread
    PROVE  IInv'
<1>1. QueueLeaves
  BY DEF QueueThread, QueueLeaves
<1> QED BY <1>1, ReadMessagesKeeps, QueueAnswerKeeps, QueueTryKeeps,
           QueueRunKeeps, QueueCheckKeeps, QueueWaitedKeeps, QueueExitKeeps
        DEF QueueThread
-----------------------------------------------------------------------------
(* PortAudio's callback, and the conditions. *)

LEMMA PlayBackKeeps ==
    ASSUME IInv, PlayBack
    PROVE  IInv'
<1>1. /\ Signal({"HaveSpace"})
      /\ UNCHANGED <<flags, locks, inbox, decoded, life, readerVars, queueVars,
                     decodeVars, mainVars>>
  BY DEF PlayBack
<1>2. space \in 0..Ring /\ space' \in space..Ring
  BY DEF PlayBack, IInv, TypeOK
<1>3. space' \in 0..Ring
  BY <1>2, AudioAssumption
<1>4. CondTypes' /\ SameFlush
  BY TypesOf, <1>1, Signalled
<1>5. FlushInv'
  BY TypesOf, <1>1, <1>4, KeepsFlush DEF flags, mainVars, queueVars
<1>6. QueueLeaves
  BY <1>1 DEF QueueLeaves, flags, locks
<1> QED BY TypesOf, <1>1, <1>3, <1>4, <1>5, <1>6, QueueKeeps
        DEF LocksInv, flags, locks, queueVars

LEMMA ConditionKeeps ==
    ASSUME IInv, NEW c \in Cond, Condition(c)
    PROVE  IInv'
<1>1. /\ Check(c) \/ Sleep(c)
      /\ UNCHANGED <<flags, locks, inbox, space, decoded, life, readerVars,
                     queueVars, decodeVars, mainVars>>
  BY DEF Condition
<1>2. /\ CondTypes'
      /\ cond'["MessagesFlushed"] => cond["MessagesFlushed"]
      /\ wait'["MessagesFlushed"] = "no" =>
            SameFlush \/ (cond["MessagesFlushed"] /\ ~cond'["MessagesFlushed"])
  BY TypesOf, <1>1, Looks
<1>3. /\ flush' = flush /\ inbox' = inbox /\ steps' = steps
      /\ msgFlush' = msgFlush /\ qpc' = qpc
  BY <1>1 DEF flags, mainVars, queueVars
<1>4. Flushing' <=> Flushing
  BY <1>3 DEF Flushing
<1>5. FlushInv'
  BY TypesOf, <1>2, <1>3, <1>4 DEF FlushInv, SameFlush
<1>6. QueueLeaves
  BY <1>1 DEF QueueLeaves, flags, locks
<1> QED BY TypesOf, <1>1, <1>2, <1>5, <1>6, QueueKeeps
        DEF LocksInv, flags, locks, queueVars
-----------------------------------------------------------------------------
(* The main thread. *)

\* What is known of what is left when a step is done.
LEMMA StepDone ==
    ASSUME StepsInv, steps # <<>>, Step
    PROVE  /\ Order(steps') /\ (steps' # <<>> <=> node' \in Source)
           /\ steps' = Tail(steps) /\ node \in Source
           /\ Head(steps) = steps[1] /\ Len(steps) \in Nat /\ Len(steps) >= 1
           /\ Len(steps') = Len(steps) - 1
           /\ \A i \in 1..Len(steps') :
                 /\ i + 1 \in 1..Len(steps) /\ steps'[i] = steps[i + 1]
                 /\ node' = node
           /\ \A x : In(steps, x) <=> steps[1] = x \/ In(steps', x)
           /\ \A x : \A i \in 1..Len(steps') :
                 Before(steps, i + 1, x)
                   <=> steps[1] = x \/ Before(steps', i, x)
<1>1. /\ steps' = Tail(steps) /\ Order(steps) /\ node \in Source
      /\ node' = IF Len(steps) = 1 THEN NoSource ELSE node
  BY DEF Step, StepsInv
<1>2. steps \in Seq(StepName)
  BY <1>1 DEF Order
<1>3. Order(steps')
  BY <1>1, OrderTail
<1>4. /\ Len(steps) \in Nat /\ Len(steps) >= 1 /\ Head(steps) = steps[1]
      /\ Len(steps') = Len(steps) - 1
  BY <1>1, <1>2, TailOf
<1>5. \A i \in 1..Len(steps') : i + 1 \in 1..Len(steps) /\ Len(steps) # 1
  BY <1>4
<1>6. 1..Len(steps') = 1..(Len(steps) - 1)
  BY <1>4
<1>7. /\ \A i \in 1..(Len(steps) - 1) : steps'[i] = steps[i + 1]
      /\ \A x : In(steps, x) <=> steps[1] = x \/ In(steps', x)
      /\ \A x : \A i \in 1..(Len(steps) - 1) :
            Before(steps, i + 1, x) <=> steps[1] = x \/ Before(steps', i, x)
  BY <1>1, <1>2, TailOf
<1>8. steps' # <<>> <=> Len(steps) # 1
  <2>1. steps' \in Seq(StepName)
    BY <1>3 DEF Order
  <2>2. steps' = <<>> <=> Len(steps') = 0
    BY <2>1
  <2> QED BY <1>4, <2>2
<1>9. steps' # <<>> <=> node' \in Source
  BY <1>1, <1>8, AudioAssumption
<1> QED BY <1>1, <1>3, <1>4, <1>5, <1>6, <1>7, <1>9

\* A step may do to the locks, the messages and the node what it is for.
StepLeaves ==
    /\ steps[1] # "give" /\ (queueLock = "main" \/ steps[1] = "takeQueue")
          => queueLock' = "main"
    /\ steps[1] \notin {"give", "giveSources"}
       /\ (sourcesLock = "main" \/ steps[1] = "takeSources")
          => sourcesLock' = "main"
    /\ steps[1] = "flushed" => inbox = {}
    /\ steps[1] # "post" => inbox' = inbox
    /\ steps[1] \notin {"list", "unlist", "delete"} => life' = life
    /\ steps[1] \notin {"open", "close"} => reader' = reader
    /\ steps[1] = "close" => reader'[node] = "none"

LEMMA StepKeeps ==
    ASSUME StepsInv, steps # <<>>, Step, StepLeaves
    PROVE  StepsInv'
<1> DEFINE p == steps
           t == steps'
           h == steps[1]
<1>1. /\ Order(t) /\ (t # <<>> <=> node' \in Source)
      /\ Len(p) \in Nat /\ Len(p) >= 1
      /\ \A i \in 1..Len(t) : /\ i + 1 \in 1..Len(p) /\ t[i] = p[i + 1]
                              /\ node' = node
      /\ \A x : In(p, x) <=> h = x \/ In(t, x)
      /\ \A x : \A i \in 1..Len(t) :
            Before(p, i + 1, x) <=> h = x \/ Before(t, i, x)
  BY StepDone
<1>2. \A i \in 1..Len(t) : 1 \in 1..Len(p) /\ 1 < i + 1
  <2>1. Order(t) /\ Len(t) \in Nat
    BY <1>1 DEF Order
  <2> QED BY <1>1, <2>1
<1>3. Order(p)
  BY DEF StepsInv
<1>4. \A i \in 1..Len(t) :
          /\ h = "give" => t[i] = "open"
          /\ h = "giveSources" => t[i] \notin NeedSources
          /\ h # "open"
  BY <1>1, <1>2, <1>3 DEF Order
<1>5. In(t, "post") => h \notin {"list", "unlist", "delete"}
  <2>1. 1 \in 1..Len(p)
    BY <1>1
  <2> QED BY <1>1, <1>3, <2>1 DEF Order
<1>6. \A i \in 1..Len(t) : t[i] = "delete" => h # "post"
  <2>1. h = "post" => In(p, "post")
    BY <1>1
  <2>2. In(p, "post") => \A i \in 1..Len(p) : p[i] # "delete"
    BY <1>3 DEF Order
  <2> QED BY <1>1, <2>1, <2>2
<1>7. "open" \notin NeedQueue /\ "open" \notin NeedSources
  BY DEF NeedQueue, NeedSources, Handles
<1>8. Locked(steps)'
  <2> SUFFICES ASSUME NEW i \in 1..Len(t)
               PROVE  /\ t[i] \in NeedQueue =>
                            queueLock' = "main" \/ Before(t, i, "takeQueue")
                      /\ t[i] \in NeedSources =>
                            sourcesLock' = "main" \/ Before(t, i, "takeSources")
    BY DEF Locked
  <2>1. /\ p[i + 1] \in NeedQueue =>
              queueLock = "main" \/ Before(p, i + 1, "takeQueue")
        /\ p[i + 1] \in NeedSources =>
              sourcesLock = "main" \/ Before(p, i + 1, "takeSources")
    BY <1>1 DEF StepsInv, Locked
  <2>2. /\ Before(p, i + 1, "takeQueue")
             => h = "takeQueue" \/ Before(t, i, "takeQueue")
        /\ Before(p, i + 1, "takeSources")
             => h = "takeSources" \/ Before(t, i, "takeSources")
    BY <1>1
  <2>3. t[i] = p[i + 1]
    BY <1>1
  <2> HIDE DEF p, t
  <2> QED BY <1>4, <1>7, <2>1, <2>2, <2>3 DEF StepLeaves
<1>9. ASSUME NEW i \in 1..Len(t), t[i] = "delete"
      PROVE  inbox' = {} \/ Before(t, i, "flushed")
  <2>1. inbox = {} \/ Before(p, i + 1, "flushed")
    BY <1>1, <1>9 DEF StepsInv, Prepared
  <2>2. Before(p, i + 1, "flushed") => h = "flushed" \/ Before(t, i, "flushed")
    BY <1>1
  <2> HIDE DEF p, t
  <2> QED BY <1>6, <1>9, <2>1, <2>2 DEF StepLeaves
<1>10. ASSUME NEW i \in 1..Len(t), t[i] = "open"
       PROVE  reader'[node'] = "none" \/ Before(t, i, "close")
  <2>1. reader[node] = "none" \/ Before(p, i + 1, "close")
    BY <1>1, <1>10 DEF StepsInv, Prepared
  <2>2. Before(p, i + 1, "close") => h = "close" \/ Before(t, i, "close")
    BY <1>1
  <2>3. node' = node
    BY <1>1
  <2> HIDE DEF p, t
  <2> QED BY <1>4, <2>1, <2>2, <2>3 DEF StepLeaves
<1>11. In(t, "post") => life'[node'] = "listed"
  <2>1. ASSUME In(t, "post") PROVE life'[node'] = "listed"
    <3>1. node' = node
      BY <1>1, <2>1 DEF In
    <3>2. life[node] = "listed"
      BY <1>1, <2>1 DEF StepsInv, Prepared
    <3> QED BY <1>5, <2>1, <3>1, <3>2 DEF StepLeaves
  <2> QED BY <2>1
<1>12. Prepared(steps)'
  BY <1>9, <1>10, <1>11 DEF Prepared
<1> QED BY <1>1, <1>8, <1>12 DEF StepsInv

\* A step that has nothing to do with a flush.
LEMMA FlushKept ==
    ASSUME IInv, steps # <<>>, Step, SameFlush,
           steps[1] \notin {"flush", "awaitFlush", "flushed"},
           UNCHANGED <<flush, msgFlush, qpc>>,
           steps[1] # "post" => inbox' = inbox
    PROVE  FlushInv'
<1>1. /\ StepsInv /\ FlushInv /\ Order(steps)
      /\ Len(steps) \in Nat /\ Len(steps) >= 1
      /\ \A x : In(steps, x) <=> steps[1] = x \/ In(steps', x)
  BY StepDone DEF IInv, StepsInv
<1>2. In(steps, "flushed") <=> In(steps', "flushed")
  BY <1>1
<1>3. In(steps, "flush") <=> In(steps', "flush")
  BY <1>1
<1>4. In(steps, "awaitFlush") <=> In(steps', "awaitFlush")
  BY <1>1
<1>5. steps[1] = "post" => ~In(steps, "flushed")
  <2>1. 1 \in 1..Len(steps)
    BY <1>1
  <2> QED BY <1>1, <2>1 DEF Order, In
<1> QED BY <1>1, <1>2, <1>3, <1>4, <1>5 DEF FlushInv, Flushing, SameFlush

\* What is left of an operation, for EndInv.
LEMMA EndKept ==
    ASSUME IInv, steps # <<>>, Step
    PROVE  /\ In(steps', "joinDecode") => /\ In(steps, "joinDecode")
                                          /\ steps[1] # "list" /\ Listed = {}
           /\ In(steps', "close") =>
                 /\ In(steps, "close") /\ node' = node
                 /\ steps[1] # "open"
           /\ ~In(steps', "finish") =>
                 ~In(steps, "finish") \/ steps[1] = "finish"
           /\ steps[1] = "finish" => ~In(steps, "close") \/ In(steps, "finish")
<1>1. /\ StepsInv /\ EndInv /\ Order(steps)
      /\ Len(steps) \in Nat /\ Len(steps) >= 1
      /\ \A x : In(steps, x) <=> steps[1] = x \/ In(steps', x)
      /\ \A i \in 1..Len(steps') : /\ i + 1 \in 1..Len(steps)
                                    /\ steps'[i] = steps[i + 1]
                                    /\ node' = node
      /\ Len(steps') \in Nat
  <2>1. StepsInv /\ EndInv /\ Order(steps)
    BY DEF IInv, StepsInv
  <2>2. Order(steps')
    BY <2>1, StepDone
  <2> QED BY <2>1, <2>2, StepDone DEF Order
<1>2. 1 \in 1..Len(steps)
  BY <1>1
<1>3. In(steps', "joinDecode") => /\ In(steps, "joinDecode")
                                  /\ steps[1] # "list" /\ Listed = {}
  BY <1>1, <1>2 DEF Order, EndInv
<1>4. ASSUME In(steps', "close")
      PROVE  In(steps, "close") /\ node' = node /\ steps[1] # "open"
  <2>1. PICK i \in 1..Len(steps') : steps'[i] = "close"
    BY <1>4 DEF In
  <2>2. 1 < i + 1 /\ i + 1 \in 1..Len(steps)
    BY <1>1, <2>1
  <2> QED BY <1>1, <1>2, <1>4, <2>1, <2>2 DEF Order
<1> QED BY <1>1, <1>3, <1>4

\* What is left to show of a step that changes flags, locks and messages.
MainLeaves ==
    /\ steps # <<>> /\ Step /\ MainOthers
    /\ UNCHANGED <<needWork, decoded, life, readerVars>>

LEMMA MainKeeps ==
    ASSUME IInv, MainLeaves, CondTypes', FlushInv',
           freeLock' \in BOOLEAN, flush' \in BOOLEAN, down' \in BOOLEAN,
           queueLock' \in {"free", "main", "queue"},
           sourcesLock' \in {"free", "main", "decode"},
           queueLock' = "queue" <=> queueLock = "queue",
           sourcesLock' = "decode" <=> sourcesLock = "decode",
           inbox' = inbox \/ (steps[1] = "post" /\ inbox' = inbox \cup {node}),
           steps[1] # "give" /\ (queueLock = "main" \/ steps[1] = "takeQueue")
              => queueLock' = "main",
           steps[1] \notin {"give", "giveSources"}
           /\ (sourcesLock = "main" \/ steps[1] = "takeSources")
              => sourcesLock' = "main",
           steps[1] = "flushed" => inbox = {},
           steps[1] \notin {"close", "open"},
           steps[1] = "finish" => reader[node] = "none"
    PROVE  IInv'
<1>1. /\ needWork' = needWork /\ decoded' = decoded /\ life' = life
      /\ reader' = reader /\ pending' = pending /\ needWakeup' = needWakeup
      /\ packet' = packet /\ haveData' = haveData /\ request' = request
      /\ answer' = answer /\ err' = err
      /\ space' = space /\ qpc' = qpc /\ msgFlush' = msgFlush
      /\ wrote' = wrote /\ needSpace' = needSpace /\ dpc' = dpc
      /\ todo' = todo /\ cur' = cur
      /\ steps # <<>> /\ Step
  BY DEF MainLeaves, MainOthers, readerVars, queueVars, decodeVars
<1>2. /\ TypeOK /\ StepsInv /\ LocksInv /\ ReadInv /\ FlushedBeforeDelete
      /\ AskInv /\ EndInv
  BY DEF IInv
<1>3. StepLeaves
  BY <1>1 DEF StepLeaves
<1>4. StepsInv'
  BY <1>1, <1>2, <1>3, StepKeeps
<1>5. node \in Source /\ node' \in Source \cup {NoSource}
  BY <1>1, <1>2 DEF StepsInv, Step
<1>6. inbox' \subseteq Source
  BY <1>2, <1>5 DEF TypeOK
<1>7. TypeOK'
  BY <1>1, <1>2, <1>5, <1>6 DEF TypeOK, CondTypes
<1>8. LocksInv'
  BY <1>1, <1>2 DEF LocksInv, Listed
<1>9. ReadInv'
  BY <1>1, <1>2 DEF ReadInv
<1>10. FlushedBeforeDelete'
  <2>1. steps[1] = "post" => life[node] = "listed"
    <3>1. 1 \in 1..Len(steps)
      BY <1>1, <1>2, StepDone
    <3> QED BY <1>2, <3>1 DEF StepsInv, Prepared, In
  <2> QED BY <1>1, <1>2, <2>1 DEF FlushedBeforeDelete
<1>11. AskInv'
  BY <1>1, <1>2 DEF AskInv, NoLostData
<1>12. EndInv'
  <2>1. Listed' = Listed
    BY <1>1 DEF Listed
  <2> QED BY <1>1, <1>2, <2>1, EndKept DEF EndInv
<1> QED BY <1>4, <1>7, <1>8, <1>9, <1>10, <1>11, <1>12, Zenon DEF IInv

LEMMA MainTypes ==
    ASSUME IInv, steps # <<>>
    PROVE  /\ CondTypes /\ freeLock \in BOOLEAN /\ flush \in BOOLEAN
           /\ down \in BOOLEAN /\ queueLock \in {"free", "main", "queue"}
           /\ sourcesLock \in {"free", "main", "decode"}
           /\ \A p : At(p) <=> steps[1] = p
           /\ 1 \in 1..Len(steps)
           /\ steps[1] \in NeedQueue => queueLock = "main"
           /\ steps[1] \in NeedSources => sourcesLock = "main"
<1>1. steps \in Seq(StepName)
  BY DEF IInv, StepsInv, Order
<1>2. Head(steps) = steps[1] /\ Len(steps) \in Nat /\ Len(steps) >= 1
  BY <1>1, TailOf
<1>3. \A x : ~Before(steps, 1, x)
  <2> SUFFICES ASSUME NEW j \in 1..Len(steps), j < 1 PROVE FALSE
    BY DEF Before
  <2> QED BY <1>2
<1>4. Locked(steps)
  BY DEF IInv, StepsInv
<1>5. /\ steps[1] \in NeedQueue => queueLock = "main"
      /\ steps[1] \in NeedSources => sourcesLock = "main"
  BY <1>2, <1>3, <1>4 DEF Locked
<1> QED BY <1>2, <1>5 DEF IInv, TypeOK, CondTypes, At, Idle

\* A step that changes neither the locks nor what a flush is about.
LEMMA PlainKeeps ==
    ASSUME IInv, MainLeaves, CondTypes', SameFlush, flush' = flush,
           freeLock' \in BOOLEAN, down' \in BOOLEAN,
           queueLock' = queueLock, sourcesLock' = sourcesLock, inbox' = inbox,
           steps[1] \notin {"takeQueue", "takeSources", "flush", "awaitFlush",
                            "flushed", "close", "open", "finish"}
    PROVE  IInv'
<1>1. steps # <<>> /\ Step /\ UNCHANGED <<msgFlush, qpc>>
  BY DEF MainLeaves, MainOthers, queueVars
<1>2. FlushInv'
  BY <1>1, FlushKept
<1>3. flush' \in BOOLEAN /\ queueLock' \in {"free", "main", "queue"}
      /\ sourcesLock' \in {"free", "main", "decode"}
  BY <1>1, MainTypes
<1>4. /\ queueLock' = "queue" <=> queueLock = "queue"
      /\ sourcesLock' = "decode" <=> sourcesLock = "decode"
      /\ steps[1] # "give" /\ (queueLock = "main" \/ steps[1] = "takeQueue")
            => queueLock' = "main"
      /\ steps[1] \notin {"give", "giveSources"}
         /\ (sourcesLock = "main" \/ steps[1] = "takeSources")
            => sourcesLock' = "main"
      /\ steps[1] = "flushed" => inbox = {}
      /\ steps[1] \notin {"close", "open"}
      /\ steps[1] = "finish" => reader[node] = "none"
  OBVIOUS
<1> QED BY <1>1, <1>2, <1>3, <1>4, MainKeeps

LEMMA LocksKeep ==
    ASSUME IInv, MainLeaves, NoSignal,
           freeLock' \in BOOLEAN, down' = down, flush' = flush, inbox' = inbox,
           queueLock' \in {"free", "main", "queue"},
           sourcesLock' \in {"free", "main", "decode"},
           queueLock' = "queue" <=> queueLock = "queue",
           sourcesLock' = "decode" <=> sourcesLock = "decode",
           steps[1] # "give" /\ (queueLock = "main" \/ steps[1] = "takeQueue")
              => queueLock' = "main",
           steps[1] \notin {"give", "giveSources"}
           /\ (sourcesLock = "main" \/ steps[1] = "takeSources")
              => sourcesLock' = "main",
           steps[1] \notin {"flush", "awaitFlush", "flushed", "close", "open"},
           steps[1] = "finish" => reader[node] = "none"
    PROVE  IInv'
<1>1. steps # <<>> /\ Step /\ UNCHANGED <<msgFlush, qpc>>
  BY DEF MainLeaves, MainOthers, queueVars
<1>2. CondTypes' /\ SameFlush
  BY <1>1, MainTypes, NotSignalled
<1>3. FlushInv'
  BY <1>1, <1>2, FlushKept
<1> QED BY <1>1, <1>2, <1>3, MainTypes, MainKeeps

\* A flush is asked for, awaited and over.
LEMMA FlushKeeps ==
    ASSUME IInv, MainLeaves, steps[1] = "flush", flush' = TRUE,
           UNCHANGED <<freeLock, down, queueLock, sourcesLock, inbox>>, NoSignal
    PROVE  IInv'
<1>1. steps # <<>> /\ Step /\ msgFlush' = msgFlush /\ qpc' = qpc
  BY DEF MainLeaves, MainOthers, queueVars
<1>2. CondTypes' /\ SameFlush
  BY <1>1, MainTypes, NotSignalled
<1>3. /\ Order(steps) /\ FlushInv /\ StepsInv
  BY DEF IInv, StepsInv
<1>4. /\ \A i \in 1..Len(steps') : i + 1 \in 1..Len(steps)
                                   /\ steps'[i] = steps[i + 1]
      /\ \A x : In(steps, x) <=> steps[1] = x \/ In(steps', x)
      /\ 1 \in 1..Len(steps) /\ Len(steps') \in Nat
  BY <1>1, <1>3, StepDone, MainTypes
<1>5. ~In(steps', "flush")
  <2>1. \A i \in 1..Len(steps') : 1 < i + 1
    BY <1>4
  <2> QED BY <1>3, <1>4, <2>1 DEF In, Order
<1>6. In(steps, "flushed") /\ In(steps, "awaitFlush")
  <2>1. After(steps, 1, "flushed") /\ After(steps, 1, "awaitFlush")
    BY <1>3, <1>4 DEF Order
  <2> QED BY <2>1 DEF In, After
<1>7. In(steps', "flushed") /\ In(steps', "awaitFlush")
  BY <1>4, <1>6
<1>8. Flushing' /\ ~Flushing
  BY <1>4, <1>5, <1>7 DEF Flushing
<1>9. FlushInv'
  BY <1>1, <1>2, <1>3, <1>7, <1>8 DEF FlushInv, SameFlush
<1> QED BY <1>1, <1>2, <1>9, MainTypes, MainKeeps

LEMMA AwaitFlushKeeps ==
    ASSUME IInv, MainLeaves, steps[1] = "awaitFlush",
           WaitFor("MessagesFlushed"),
           UNCHANGED <<freeLock, flush, down, queueLock, sourcesLock, inbox>>
    PROVE  IInv'
<1>1. steps # <<>> /\ Step /\ msgFlush' = msgFlush /\ qpc' = qpc
  BY DEF MainLeaves, MainOthers, queueVars
<1>2. "MessagesFlushed" \in Cond
  BY DEF Cond
<1>3. CondTypes' /\ cond' = cond /\ wait'["MessagesFlushed"] = "check"
  BY <1>1, <1>2, MainTypes, Waits
<1>4. StepsInv /\ FlushInv
  BY DEF IInv
<1>5. Flushing' <=> Flushing
  <2>1. \A x : In(steps, x) <=> steps[1] = x \/ In(steps', x)
    BY <1>1, <1>4, StepDone
  <2>2. In(steps, "flushed") <=> In(steps', "flushed")
    BY <2>1
  <2>3. In(steps, "flush") <=> In(steps', "flush")
    BY <2>1
  <2> QED BY <2>2, <2>3 DEF Flushing
<1>6. FlushInv'
  BY <1>1, <1>3, <1>4, <1>5 DEF FlushInv
<1> QED BY <1>1, <1>3, <1>6, MainTypes, MainKeeps

LEMMA FlushedKeeps ==
    ASSUME IInv, MainLeaves, steps[1] = "flushed", Waited("MessagesFlushed"),
           freeLock' = FALSE, NoSignal,
           UNCHANGED <<flush, down, queueLock, sourcesLock, inbox>>
    PROVE  IInv'
<1>1. steps # <<>> /\ Step /\ msgFlush' = msgFlush /\ qpc' = qpc
  BY DEF MainLeaves, MainOthers, queueVars
<1>2. CondTypes' /\ SameFlush
  BY <1>1, MainTypes, NotSignalled
<1>3. /\ Order(steps) /\ FlushInv /\ StepsInv
  BY DEF IInv, StepsInv
<1>4. /\ \A i \in 1..Len(steps') : i + 1 \in 1..Len(steps)
                                   /\ steps'[i] = steps[i + 1]
      /\ \A x : In(steps, x) <=> steps[1] = x \/ In(steps', x)
      /\ 1 \in 1..Len(steps) /\ Len(steps') \in Nat
  BY <1>1, <1>3, StepDone, MainTypes
<1>5. /\ ~In(steps', "flush") /\ ~In(steps', "awaitFlush")
      /\ ~In(steps', "flushed")
  <2>1. \A i \in 1..Len(steps') : 1 < i + 1
    BY <1>4
  <2> QED BY <1>3, <1>4, <2>1 DEF In, Order
<1>6. In(steps, "flushed") /\ ~In(steps, "flush") /\ ~In(steps, "awaitFlush")
  BY <1>4, <1>5
<1>7. ~flush /\ ~cond["MessagesFlushed"] /\ inbox = {}
  BY <1>3, <1>6 DEF FlushInv, Flushing, Waited
<1>8. ~Flushing'
  BY <1>5 DEF Flushing
<1>9. FlushInv'
  BY <1>1, <1>2, <1>3, <1>7, <1>8 DEF FlushInv, SameFlush
<1> QED BY <1>1, <1>2, <1>7, <1>9, MainTypes, MainKeeps

LEMMA MainStepKeeps ==
    ASSUME IInv, MainStep, MainOthers
    PROVE  IInv'
<1>1. steps # <<>> /\ MainLeaves
  BY DEF MainStep, MainLeaves, At, Idle
<1>2. ASSUME NEW p PROVE At(p) <=> steps[1] = p
  BY <1>1, MainTypes
<1>3. /\ CondTypes /\ freeLock \in BOOLEAN /\ flush \in BOOLEAN
      /\ down \in BOOLEAN /\ queueLock \in {"free", "main", "queue"}
      /\ sourcesLock \in {"free", "main", "decode"}
      /\ steps[1] \in NeedQueue => queueLock = "main"
      /\ steps[1] \in NeedSources => sourcesLock = "main"
  BY <1>1, MainTypes
<1>4. CASE /\ At("askQueue") /\ freeLock' = TRUE
           /\ UNCHANGED <<flush, down, locks, inbox>> /\ NoSignal
  BY <1>1, <1>2, <1>3, <1>4, NotSignalled, PlainKeeps DEF locks
<1>5. CASE /\ At("takeQueue") /\ queueLock = "free"
           /\ queueLock' = "main" /\ freeLock' = FALSE
           /\ UNCHANGED <<flush, down, sourcesLock, inbox>> /\ NoSignal
  BY <1>1, <1>2, <1>3, <1>5, LocksKeep
<1>6. CASE /\ At("give") /\ queueLock' = "free"
           /\ sourcesLock' = IF sourcesLock = "main" THEN "free"
                             ELSE sourcesLock
           /\ UNCHANGED <<freeLock, flush, down, inbox>> /\ NoSignal
  <2>1. queueLock = "main"
    BY <1>2, <1>3, <1>6 DEF NeedQueue
  <2> QED BY <1>1, <1>2, <1>3, <1>6, <2>1, LocksKeep
<1>7. CASE /\ At("takeSources") /\ sourcesLock = "free"
           /\ sourcesLock' = "main"
           /\ UNCHANGED <<freeLock, flush, down, queueLock, inbox>> /\ NoSignal
  BY <1>1, <1>2, <1>3, <1>7, LocksKeep
<1>8. CASE /\ At("giveSources") /\ sourcesLock' = "free"
           /\ UNCHANGED <<freeLock, flush, down, queueLock, inbox>> /\ NoSignal
  <2>1. sourcesLock = "main"
    BY <1>2, <1>3, <1>8 DEF NeedSources
  <2> QED BY <1>1, <1>2, <1>3, <1>8, <2>1, LocksKeep
<1>9. CASE /\ At("post") /\ inbox' = inbox \cup {node}
           /\ UNCHANGED <<freeLock, flush, down, locks>> /\ NoSignal
  <2>1. CondTypes' /\ SameFlush /\ UNCHANGED <<msgFlush, qpc>> /\ Step
    BY <1>1, <1>3, <1>9, NotSignalled DEF MainLeaves, MainOthers, queueVars
  <2>2. FlushInv'
    BY <1>1, <1>2, <1>9, <2>1, FlushKept
  <2> QED BY <1>1, <1>2, <1>3, <1>9, <2>1, <2>2, MainKeeps DEF locks
<1>10. CASE /\ At("flush") /\ flush' = TRUE
            /\ UNCHANGED <<freeLock, down, locks, inbox>> /\ NoSignal
  BY <1>1, <1>2, <1>10, FlushKeeps DEF locks
<1>11. CASE /\ At("wake") /\ freeLock' = TRUE
            /\ Signal({"HaveData", "HaveSpace"})
            /\ UNCHANGED <<flush, down, locks, inbox>>
  <2>1. CondTypes' /\ SameFlush
    BY <1>3, <1>11, Signalled
  <2> QED BY <1>1, <1>2, <1>3, <1>11, <2>1, PlainKeeps DEF locks
<1>12. CASE /\ At("awaitFlush") /\ WaitFor("MessagesFlushed")
            /\ UNCHANGED <<freeLock, flush, down, locks, inbox>>
  BY <1>1, <1>2, <1>12, AwaitFlushKeeps DEF locks
<1>13. CASE /\ At("unask") \/ (At("flushed") /\ Waited("MessagesFlushed"))
            /\ freeLock' = FALSE
            /\ UNCHANGED <<flush, down, locks, inbox>> /\ NoSignal
  <2>1. CASE At("unask")
    BY <1>1, <1>2, <1>3, <1>13, <2>1, NotSignalled, PlainKeeps DEF locks
  <2>2. CASE At("flushed") /\ Waited("MessagesFlushed")
    BY <1>1, <1>2, <1>13, <2>2, FlushedKeeps DEF locks
  <2> QED BY <1>13, <2>1, <2>2
<1>14. CASE /\ At("play") /\ Signal({"NeedData"})
            /\ UNCHANGED <<freeLock, flush, down, locks, inbox>>
  <2>1. CondTypes' /\ SameFlush
    BY <1>3, <1>14, Signalled
  <2> QED BY <1>1, <1>2, <1>3, <1>14, <2>1, PlainKeeps DEF locks
<1>15. CASE /\ At("down") /\ down' = TRUE
            /\ Signal({"HaveData", "HaveSpace", "NeedData"})
            /\ UNCHANGED <<freeLock, flush, locks, inbox>>
  <2>1. CondTypes' /\ SameFlush
    BY <1>3, <1>15, Signalled
  <2> QED BY <1>1, <1>2, <1>3, <1>15, <2>1, PlainKeeps DEF locks
<1>16. CASE /\ \/ At("joinQueue") /\ qpc = "exited"
               \/ At("joinDecode") /\ dpc = "exited"
            /\ UNCHANGED <<freeLock, flush, down, locks, inbox>> /\ NoSignal
  BY <1>1, <1>2, <1>3, <1>16, NotSignalled, PlainKeeps DEF locks
<1> QED BY <1>4, <1>5, <1>6, <1>7, <1>8, <1>9, <1>10, <1>11, <1>12, <1>13,
           <1>14, <1>15, <1>16 DEF MainStep

\* What is left to show of a step that changes the node.
NodeLeaves ==
    /\ steps # <<>> /\ Step /\ MainOthers
    /\ UNCHANGED <<condVars, flags, locks, inbox>>

LEMMA NodeFrame ==
    ASSUME NodeLeaves
    PROVE  /\ cond' = cond /\ wait' = wait /\ freeLock' = freeLock
           /\ flush' = flush /\ down' = down /\ needWork' = needWork
           /\ queueLock' = queueLock /\ sourcesLock' = sourcesLock
           /\ inbox' = inbox /\ space' = space /\ qpc' = qpc
           /\ msgFlush' = msgFlush /\ wrote' = wrote /\ needSpace' = needSpace
           /\ dpc' = dpc /\ todo' = todo /\ cur' = cur
           /\ steps # <<>> /\ Step
  BY DEF NodeLeaves, MainOthers, condVars, flags, locks, queueVars, decodeVars

LEMMA NodeKeeps ==
    ASSUME IInv, NodeLeaves,
           decoded' \in [Source -> 0..MaxDecoded],
           life' \in [Source -> {"new", "listed", "unlisted", "deleted"}],
           reader' \in [Source -> {"none", "fresh", "opened"}],
           pending' \in [Source -> BOOLEAN],
           needWakeup' \in [Source -> BOOLEAN],
           packet' \in [Source -> BOOLEAN], haveData' \in [Source -> BOOLEAN],
           request' \in [Source -> BOOLEAN], answer' \in [Source -> BOOLEAN],
           err' \in [Source -> {"none", "data", "again", "exit"}],
           StepLeaves, todo \subseteq Listed', ReadInv',
           FlushedBeforeDelete', AskInv', EndInv',
           steps[1] \notin {"flush", "awaitFlush", "flushed"}
    PROVE  IInv'
<1>1. /\ TypeOK /\ StepsInv /\ LocksInv /\ CondTypes
  BY DEF IInv, TypeOK, CondTypes
<1>2. SameFlush
  BY NodeFrame DEF SameFlush
<1>3. FlushInv'
  BY <1>2, NodeFrame, FlushKept
<1>4. StepsInv'
  BY <1>1, NodeFrame, StepKeeps
<1>5. LocksInv'
  BY <1>1, NodeFrame DEF LocksInv
<1>6. node' \in Source \cup {NoSource}
  BY <1>1, NodeFrame DEF Step, StepsInv
<1>7. TypeOK'
  BY <1>1, <1>6, NodeFrame DEF TypeOK
<1> QED BY <1>3, <1>4, <1>5, <1>7, Zenon DEF IInv

LEMMA NodeTypes ==
    ASSUME IInv, steps # <<>>
    PROVE  /\ node \in Source /\ Prepared(steps) /\ Order(steps)
           /\ LocksInv /\ ReadInv /\ FlushedBeforeDelete /\ AskInv
           /\ EndInv
           /\ decoded \in [Source -> 0..MaxDecoded]
           /\ life \in [Source -> {"new", "listed", "unlisted", "deleted"}]
           /\ reader \in [Source -> {"none", "fresh", "opened"}]
           /\ pending \in [Source -> BOOLEAN]
           /\ needWakeup \in [Source -> BOOLEAN]
           /\ packet \in [Source -> BOOLEAN] /\ haveData \in [Source -> BOOLEAN]
           /\ request \in [Source -> BOOLEAN] /\ answer \in [Source -> BOOLEAN]
           /\ err \in [Source -> {"none", "data", "again", "exit"}]
           /\ steps[1] \in Handles => cur = NoSource /\ todo = {}
<1>1. steps[1] \in Handles => sourcesLock = "main"
  BY MainTypes DEF NeedSources
<1>2. steps[1] \in Handles => cur = NoSource /\ todo = {}
  BY <1>1 DEF IInv, LocksInv
<1> QED BY <1>2 DEF IInv, StepsInv, TypeOK

\* The node is put in the list, taken out of it or deleted.
LEMMA BecomesKeeps ==
    ASSUME IInv, NodeLeaves, NEW l,
           \/ steps[1] = "list" /\ l = "listed"
           \/ steps[1] = "unlist" /\ l = "unlisted"
           \/ steps[1] = "delete" /\ l = "deleted",
           Becomes(l)
    PROVE  IInv'
<1>1. /\ life' = [life EXCEPT ![node] = l] /\ decoded' = decoded
      /\ reader' = reader /\ pending' = pending /\ needWakeup' = needWakeup
      /\ packet' = packet /\ haveData' = haveData /\ request' = request
      /\ answer' = answer /\ err' = err
  BY DEF Becomes, readerVars
<1>2. steps # <<>> /\ inbox' = inbox /\ cur' = cur /\ dpc' = dpc
  BY NodeFrame
<1>3. cur = NoSource /\ todo = {}
  BY <1>2, NodeTypes DEF Handles
<1>4. /\ l \in {"new", "listed", "unlisted", "deleted"}
      /\ life' \in [Source -> {"new", "listed", "unlisted", "deleted"}]
      /\ \A s \in Source : life'[s] = IF s = node THEN l ELSE life[s]
  BY <1>1, <1>2, NodeTypes
<1>5. ReadInv' /\ AskInv'
  BY <1>1, <1>2, <1>3, NodeTypes
     DEF ReadInv, AskInv, NoLostData
<1>6. l = "deleted" => inbox = {}
  <2>1. \A x : ~Before(steps, 1, x)
    <3> SUFFICES ASSUME NEW j \in 1..Len(steps), j < 1 PROVE FALSE
      BY DEF Before
    <3> QED OBVIOUS
  <2> QED BY <1>2, <2>1, MainTypes, NodeTypes DEF Prepared
<1>7. FlushedBeforeDelete'
  <2>1. inbox \subseteq Source
    BY DEF IInv, TypeOK
  <2> QED BY <1>2, <1>4, <1>6, <2>1, NodeTypes DEF FlushedBeforeDelete
<1>8. StepLeaves
  BY <1>1, NodeFrame DEF StepLeaves
<1>9. EndInv'
  <2>1. l # "listed" => Listed' \subseteq Listed
    BY <1>4 DEF Listed
  <2> QED BY <1>1, <1>2, <2>1, EndKept, NodeFrame, NodeTypes DEF EndInv
<1> QED BY <1>1, <1>2, <1>3, <1>4, <1>5, <1>7, <1>8, <1>9, NodeTypes,
           NodeKeeps

\* finish() answers whoever waits.
LEMMA FinishKeeps ==
    ASSUME IInv, NodeLeaves, steps[1] = "finish", FinishReader
    PROVE  IInv'
<1>1. /\ err' = [err EXCEPT ![node] = "exit"]
      /\ request' = [request EXCEPT ![node] = FALSE]
      /\ answer' = [answer EXCEPT ![node] = TRUE]
      /\ decoded' = decoded /\ life' = life /\ reader' = reader
      /\ pending' = pending /\ needWakeup' = needWakeup
      /\ packet' = packet /\ haveData' = haveData
  BY DEF FinishReader, coroutine
<1>2. steps # <<>> /\ inbox' = inbox /\ cur' = cur /\ dpc' = dpc
  BY NodeFrame
<1>3. /\ err' \in [Source -> {"none", "data", "again", "exit"}]
      /\ request' \in [Source -> BOOLEAN] /\ answer' \in [Source -> BOOLEAN]
      /\ answer'[node]
      /\ \A s \in Source : s # node => /\ request'[s] = request[s]
                                       /\ answer'[s] = answer[s]
  BY <1>1, <1>2, NodeTypes
<1>4. ReadInv' /\ FlushedBeforeDelete' /\ todo \subseteq Listed'
  BY <1>1, <1>2, NodeTypes DEF ReadInv, FlushedBeforeDelete, LocksInv, Listed
<1>5. AskInv'
  <2>1. dpc = "await" => cur \in Source
    BY <1>2, NodeTypes DEF LocksInv, IInv, TypeOK
  <2> QED BY <1>1, <1>2, <1>3, <2>1, NodeTypes
          DEF AskInv, NoLostData
<1>6. StepLeaves
  BY <1>1, NodeFrame DEF StepLeaves
<1>7. EndInv'
  <2>1. Listed' = Listed /\ err'[node] = "exit"
    BY <1>1, <1>2, NodeTypes DEF Listed
  <2> QED BY <1>1, <1>2, <1>3, <2>1, EndKept, NodeFrame, NodeTypes DEF EndInv
<1> QED BY <1>1, <1>2, <1>3, <1>4, <1>5, <1>6, <1>7, NodeTypes, NodeKeeps

\* The reader is taken away, or a new one is made where there is none.
LEMMA NewReaderKeeps ==
    ASSUME IInv, NodeLeaves, NEW r,
           \/ steps[1] = "close" /\ r = "none"
           \/ steps[1] = "open" /\ r = "fresh",
           NewReader(r)
    PROVE  IInv'
<1>1. steps # <<>> /\ inbox' = inbox /\ cur' = cur /\ dpc' = dpc
  BY NodeFrame
<1>2. cur # node
  <2>1. CASE steps[1] = "close"
    BY <1>1, <2>1, NodeTypes, AudioAssumption DEF Handles
  <2>2. CASE steps[1] = "open"
    <3>1. \A x : ~Before(steps, 1, x)
      <4> SUFFICES ASSUME NEW j \in 1..Len(steps), j < 1 PROVE FALSE
        BY DEF Before
      <4> QED OBVIOUS
    <3>2. reader[node] = "none"
      BY <1>1, <2>2, <3>1, MainTypes, NodeTypes DEF Prepared
    <3> QED BY <1>1, <3>2, NodeTypes, AudioAssumption DEF ReadInv
  <2> QED BY <2>1, <2>2
<1>3. /\ r \in {"none", "fresh", "opened"} /\ 0 \in 0..MaxDecoded
      /\ 0 < MaxDecoded
  BY AudioAssumption
<1>4. life' = life /\ reader' = [reader EXCEPT ![node] = r]
  BY DEF NewReader
<1>5. /\ decoded' \in [Source -> 0..MaxDecoded]
      /\ reader' \in [Source -> {"none", "fresh", "opened"}]
      /\ pending' \in [Source -> BOOLEAN]
      /\ needWakeup' \in [Source -> BOOLEAN]
      /\ packet' \in [Source -> BOOLEAN] /\ haveData' \in [Source -> BOOLEAN]
      /\ request' \in [Source -> BOOLEAN] /\ answer' \in [Source -> BOOLEAN]
      /\ err' \in [Source -> {"none", "data", "again", "exit"}]
  BY <1>1, <1>3, NodeTypes DEF NewReader
<1>6. \A s \in Source \ {node} :
          /\ decoded'[s] = decoded[s] /\ reader'[s] = reader[s]
          /\ pending'[s] = pending[s] /\ needWakeup'[s] = needWakeup[s]
          /\ packet'[s] = packet[s] /\ haveData'[s] = haveData[s]
          /\ request'[s] = request[s] /\ answer'[s] = answer[s]
  BY <1>1, NodeTypes DEF NewReader
<1>7. ~pending'[node] /\ ~packet'[node] /\ reader'[node] = r
  BY <1>1, NodeTypes DEF NewReader
<1>8. cur # NoSource => cur \in Source \ {node}
  BY <1>2 DEF IInv, TypeOK
<1>9. ReadInv'
  <2>1. ReadInv
    BY <1>1, NodeTypes
  <2>2. cur # NoSource =>
            /\ life[cur] = "listed" /\ reader'[cur] = "opened"
            /\ decoded'[cur] < MaxDecoded /\ ~pending'[cur]
    BY <1>6, <1>8, <2>1 DEF ReadInv
  <2>3. ASSUME NEW s \in Source
        PROVE  /\ pending'[s] => decoded'[s] < MaxDecoded
               /\ packet'[s] => haveData'[s]
    <3>1. CASE s = node
      BY <1>7, <3>1
    <3>2. CASE s # node
      BY <1>6, <2>1, <3>2 DEF ReadInv
    <3> QED BY <3>1, <3>2
  <2> QED BY <1>1, <1>4, <2>2, <2>3 DEF ReadInv
<1>10. AskInv'
  <2>1. dpc = "await" => cur # NoSource
    BY <1>1, NodeTypes DEF LocksInv
  <2>2. AskInv /\ NoLostData /\ dpc' = dpc /\ cur' = cur
    BY <1>1, NodeTypes DEF AskInv
  <2>3. dpc' = "await" => request'[cur'] \/ answer'[cur']
    BY <1>6, <1>8, <2>1, <2>2 DEF AskInv
  <2>4. ASSUME NEW s \in Source
        PROVE  pending'[s] /\ packet'[s] => needWakeup'[s]
    <3>1. CASE s = node
      BY <1>7, <3>1
    <3>2. CASE s # node
      BY <1>6, <2>2, <3>2 DEF NoLostData
    <3> QED BY <3>1, <3>2
  <2> QED BY <2>3, <2>4 DEF AskInv, NoLostData
<1>11. FlushedBeforeDelete' /\ todo \subseteq Listed'
  BY <1>1, <1>4, NodeTypes DEF FlushedBeforeDelete, LocksInv, Listed
<1>12. StepLeaves
  BY <1>4, <1>7, NodeFrame DEF StepLeaves
<1>13. EndInv'
  <2>1. Listed' = Listed
    BY <1>4 DEF Listed
  <2> QED BY <1>1, <1>4, <1>7, <2>1, EndKept, NodeFrame, NodeTypes DEF EndInv
<1> QED BY <1>1, <1>4, <1>5, <1>9, <1>10, <1>11, <1>12, <1>13, NodeTypes,
           NodeKeeps

LEMMA NodeStepKeeps ==
    ASSUME IInv, NodeStep, MainOthers
    PROVE  IInv'
<1>1. NodeLeaves /\ steps # <<>>
  BY DEF NodeStep, NodeLeaves, At, Idle
<1>2. ASSUME NEW p PROVE At(p) <=> steps[1] = p
  BY <1>1, MainTypes
<1>3. CASE At("list") /\ Becomes("listed")
  BY <1>1, <1>2, <1>3, BecomesKeeps
<1>4. CASE At("unlist") /\ Becomes("unlisted")
  BY <1>1, <1>2, <1>4, BecomesKeeps
<1>5. CASE At("delete") /\ Becomes("deleted")
  BY <1>1, <1>2, <1>5, BecomesKeeps
<1>6. CASE At("finish") /\ FinishReader
  BY <1>1, <1>2, <1>6, FinishKeeps
<1>7. CASE /\ At("finish") /\ reader[node] = "none"
           /\ UNCHANGED <<decoded, life, readerVars>>
  <2>1. MainLeaves
    BY <1>1, <1>7, NodeFrame DEF MainLeaves, NodeLeaves
  <2>2. /\ NoSignal /\ freeLock' = freeLock /\ down' = down /\ flush' = flush
        /\ inbox' = inbox /\ queueLock' = queueLock
        /\ sourcesLock' = sourcesLock
    BY <1>1, NodeFrame DEF NoSignal, condVars
  <2> QED BY <1>1, <1>2, <1>7, <2>1, <2>2, MainTypes, LocksKeep
<1>8. CASE At("close") /\ NewReader("none")
  BY <1>1, <1>2, <1>8, NewReaderKeeps
<1>9. CASE At("open") /\ NewReader("fresh")
  BY <1>1, <1>2, <1>9, NewReaderKeeps
<1> QED BY <1>3, <1>4, <1>5, <1>6, <1>7, <1>8, <1>9 DEF NodeStep
-----------------------------------------------------------------------------
(* The main thread between its operations. *)

\* What is left to show of a step of the event loop.
LEMMA IdleKeeps ==
    ASSUME IInv, steps = <<>>, MainOthers,
           UNCHANGED <<freeLock, flush, down, locks, inbox, decoded, life,
                       pending, mainVars>>,
           CondTypes', SameFlush, needWork' \in BOOLEAN,
           reader' \in [Source -> {"none", "fresh", "opened"}],
           needWakeup' \in [Source -> BOOLEAN],
           packet' \in [Source -> BOOLEAN], haveData' \in [Source -> BOOLEAN],
           request' \in [Source -> BOOLEAN], answer' \in [Source -> BOOLEAN],
           err' \in [Source -> {"none", "data", "again", "exit"}],
           ReadInv', AskInv'
    PROVE  IInv'
<1>1. /\ freeLock' = freeLock /\ flush' = flush /\ down' = down
      /\ queueLock' = queueLock /\ sourcesLock' = sourcesLock
      /\ inbox' = inbox /\ space' = space /\ decoded' = decoded
      /\ life' = life /\ pending' = pending /\ qpc' = qpc
      /\ msgFlush' = msgFlush /\ wrote' = wrote /\ needSpace' = needSpace
      /\ dpc' = dpc /\ todo' = todo /\ cur' = cur
      /\ steps' = steps /\ node' = node
  BY DEF locks, mainVars, MainOthers, queueVars, decodeVars
<1>2. /\ TypeOK /\ StepsInv /\ LocksInv /\ FlushInv /\ FlushedBeforeDelete
  BY DEF IInv
<1>3. TypeOK'
  BY <1>1, <1>2 DEF TypeOK, CondTypes
<1>4. StepsInv'
  BY <1>1, <1>2, KeepsSteps
<1>5. LocksInv' /\ FlushedBeforeDelete'
  BY <1>1, <1>2 DEF LocksInv, Listed, FlushedBeforeDelete
<1>6. FlushInv'
  BY <1>1, <1>2, KeepsFlush
<1>7. EndInv'
  BY <1>1 DEF EndInv, In
<1> QED BY <1>3, <1>4, <1>5, <1>6, <1>7, Zenon DEF IInv

LEMMA IdleTypes ==
    ASSUME IInv
    PROVE  /\ CondTypes /\ needWork \in BOOLEAN
           /\ cur \in Source \cup {NoSource}
           /\ LocksInv /\ ReadInv /\ AskInv
           /\ reader \in [Source -> {"none", "fresh", "opened"}]
           /\ needWakeup \in [Source -> BOOLEAN]
           /\ packet \in [Source -> BOOLEAN] /\ haveData \in [Source -> BOOLEAN]
           /\ request \in [Source -> BOOLEAN] /\ answer \in [Source -> BOOLEAN]
           /\ err \in [Source -> {"none", "data", "again", "exit"}]
  BY DEF IInv, TypeOK, CondTypes

LEMMA AnswerReadKeeps ==
    ASSUME IInv, MainOthers, NEW s \in Source, AnswerRead(s)
    PROVE  IInv'
<1>1. /\ steps = <<>> /\ request' = [request EXCEPT ![s] = FALSE]
      /\ err' = [err EXCEPT ![s] = IF packet[s] THEN "data" ELSE "again"]
      /\ packet' = [packet EXCEPT ![s] = FALSE]
      /\ haveData' = [haveData EXCEPT ![s] = FALSE]
      /\ answer' = [answer EXCEPT ![s] = TRUE]
      /\ UNCHANGED <<freeLock, flush, down, locks, inbox, decoded, life,
                     pending, mainVars>>
      /\ needWork' = needWork /\ reader' = reader /\ needWakeup' = needWakeup
      /\ NoSignal
  BY DEF AnswerRead, Idle, flags, coroutine, NoSignal
<1>2. cur' = cur /\ dpc' = dpc /\ life' = life /\ decoded' = decoded
      /\ pending' = pending
  BY <1>1 DEF MainOthers, decodeVars
<1>3. CondTypes' /\ SameFlush
  BY <1>1, IdleTypes, NotSignalled
<1>4. /\ request' \in [Source -> BOOLEAN] /\ answer' \in [Source -> BOOLEAN]
      /\ packet' \in [Source -> BOOLEAN] /\ haveData' \in [Source -> BOOLEAN]
      /\ err' \in [Source -> {"none", "data", "again", "exit"}]
  BY <1>1, IdleTypes
<1>5. /\ answer'[s] /\ ~packet'[s]
      /\ \A x \in Source \ {s} :
            /\ request'[x] = request[x] /\ answer'[x] = answer[x]
            /\ packet'[x] = packet[x] /\ haveData'[x] = haveData[x]
  BY <1>1, IdleTypes
<1>6. ReadInv'
  BY <1>1, <1>2, <1>5, IdleTypes DEF ReadInv
<1>7. AskInv'
  <2>1. dpc = "await" => cur \in Source
    BY IdleTypes DEF LocksInv
  <2> QED BY <1>1, <1>2, <1>5, <2>1, IdleTypes
          DEF AskInv, NoLostData
<1> QED BY <1>1, <1>3, <1>4, <1>6, <1>7, IdleTypes, IdleKeeps

LEMMA OnAvailableDataKeeps ==
    ASSUME IInv, MainOthers, NEW s \in Source, OnAvailableData(s)
    PROVE  IInv'
<1>1. /\ steps = <<>> /\ packet' = [packet EXCEPT ![s] = TRUE]
      /\ haveData' = [haveData EXCEPT ![s] = TRUE]
      /\ UNCHANGED <<freeLock, flush, down, locks, inbox, decoded, life,
                     pending, mainVars>>
      /\ request' = request /\ answer' = answer /\ err' = err
  BY DEF OnAvailableData, Idle
<1>2. cur' = cur /\ dpc' = dpc /\ life' = life /\ decoded' = decoded
      /\ pending' = pending
  BY <1>1 DEF MainOthers, decodeVars
<1>3. /\ packet' \in [Source -> BOOLEAN] /\ haveData' \in [Source -> BOOLEAN]
      /\ haveData'[s]
      /\ \A x \in Source \ {s} : /\ packet'[x] = packet[x]
                                 /\ haveData'[x] = haveData[x]
  BY <1>1, IdleTypes
<1>4. CondTypes' /\ SameFlush
  <2>1. Signal({"NeedData"}) \/ NoSignal
    BY DEF OnAvailableData
  <2> QED BY <2>1, IdleTypes, Signalled, NotSignalled
<1>5. /\ needWork' \in BOOLEAN /\ needWakeup' \in [Source -> BOOLEAN]
      /\ reader' \in [Source -> {"none", "fresh", "opened"}]
      /\ \A x \in Source : reader[x] = "opened" => reader'[x] = "opened"
      /\ pending[s] => needWakeup'[s]
      /\ \A x \in Source : needWakeup[x] => needWakeup'[x]
  <2>1. CASE pending[s]
    <3>1. /\ needWakeup' = [needWakeup EXCEPT ![s] = TRUE] /\ needWork' = TRUE
          /\ reader' = reader
      BY <2>1 DEF OnAvailableData
    <3> QED BY <3>1, IdleTypes
  <2>2. CASE ~pending[s] /\ reader[s] = "fresh"
    <3>1. /\ reader' = [reader EXCEPT ![s] = "opened"] /\ needWork' = needWork
          /\ needWakeup' = needWakeup
      BY <2>2 DEF OnAvailableData
    <3> QED BY <2>2, <3>1, IdleTypes
  <2>3. CASE ~pending[s] /\ reader[s] # "fresh"
    <3>1. reader' = reader /\ needWork' = needWork /\ needWakeup' = needWakeup
      BY <2>3 DEF OnAvailableData
    <3> QED BY <2>3, <3>1, IdleTypes
  <2> QED BY <2>1, <2>2, <2>3
<1>6. ReadInv'
  BY <1>1, <1>2, <1>3, <1>5, IdleTypes, AudioAssumption DEF ReadInv
<1>7. AskInv'
  BY <1>1, <1>2, <1>3, <1>5, IdleTypes
     DEF AskInv, NoLostData
<1> QED BY <1>1, <1>3, <1>4, <1>5, <1>6, <1>7, IdleTypes, IdleKeeps

\* An operation begins.
LEMMA CallKeeps ==
    ASSUME IInv, MainOthers, Call
    PROVE  IInv'
<1>1. PICK op \in Ops, s \in Source :
          Allowed(op, s) /\ steps' = Program(op, s) /\ node' = s
  BY DEF Call
<1>2. /\ steps = <<>>
      /\ cond' = cond /\ wait' = wait /\ freeLock' = freeLock /\ flush' = flush
      /\ down' = down /\ needWork' = needWork /\ queueLock' = queueLock
      /\ sourcesLock' = sourcesLock /\ inbox' = inbox /\ decoded' = decoded
      /\ life' = life /\ reader' = reader /\ pending' = pending
      /\ needWakeup' = needWakeup /\ packet' = packet /\ haveData' = haveData
      /\ request' = request /\ answer' = answer /\ err' = err
      /\ space' = space /\ qpc' = qpc /\ msgFlush' = msgFlush
      /\ wrote' = wrote /\ needSpace' = needSpace /\ dpc' = dpc
      /\ todo' = todo /\ cur' = cur
  BY DEF Call, Idle, condVars, flags, locks, readerVars, MainOthers, queueVars,
         decodeVars
<1>3. /\ TypeOK /\ StepsInv /\ LocksInv /\ FlushInv /\ ReadInv
      /\ FlushedBeforeDelete /\ AskInv
  BY DEF IInv
<1>4. Begins(steps', reader[s], life[s])
  BY <1>1, <1>3, ProgramBegins
<1>5. StepsInv'
  <2>1. Order(steps') /\ steps' # <<>>
    BY <1>4 DEF Begins
  <2>2. Locked(steps)'
    BY <1>4 DEF Begins, Locked
  <2>3. Prepared(steps)'
    BY <1>1, <1>2, <1>4 DEF Begins, Prepared
  <2> QED BY <1>1, <2>1, <2>2, <2>3 DEF StepsInv
<1>6. FlushInv'
  <2>1. ~Flushing
    BY <1>2 DEF Flushing, In
  <2>2. ~Flushing'
    BY <1>4 DEF Begins, Flushing
  <2> QED BY <1>2, <1>3, <2>1, <2>2 DEF FlushInv
<1>7. TypeOK'
  BY <1>1, <1>2, <1>3 DEF TypeOK
<1>8. LocksInv' /\ ReadInv' /\ FlushedBeforeDelete'
  BY <1>2, <1>3 DEF LocksInv, Listed, ReadInv, FlushedBeforeDelete
<1>9. AskInv' /\ EndInv'
  BY <1>2, <1>3, <1>4 DEF AskInv, NoLostData, EndInv, Begins
<1> QED BY <1>5, <1>6, <1>7, <1>8, <1>9, Zenon DEF IInv

\* ~JSAudioContext() goes on: the locks are held.
LEMMA NextBegins ==
    ASSUME NEW p \in {DeleteNext, EndThreads}
    PROVE  /\ Order(p) /\ p # <<>> /\ ~In(p, "post") /\ ~In(p, "open")
           /\ \A i \in 1..Len(p) : p[i] = "delete" => Before(p, i, "flushed")
           /\ In(p, "flush")
           /\ p = DeleteNext => ~In(p, "joinDecode") /\ In(p, "finish")
           /\ p = EndThreads => ~In(p, "close")
<1>1. CASE p = DeleteNext
  <2>1. Len(p) = 9 /\ p \in Seq(StepName) /\ p # <<>>
    BY <1>1 DEF StepName, DeleteNext
  <2>2. Order(p)
    BY <1>1, <2>1 DEF Order, In, After, NeedSources, Handles, DeleteNext
  <2> QED BY <1>1, <2>1, <2>2 DEF In, Before, DeleteNext, EndThreads
<1>2. CASE p = EndThreads
  <2>1. Len(p) = 9 /\ p \in Seq(StepName) /\ p # <<>>
    BY <1>2 DEF StepName, EndThreads
  <2>2. Order(p)
    BY <1>2, <2>1 DEF Order, In, After, NeedSources, Handles, EndThreads
  <2> QED BY <1>2, <2>1, <2>2 DEF In, Before, DeleteNext, EndThreads
<1> QED BY <1>1, <1>2

LEMMA NextNodeKeeps ==
    ASSUME IInv, MainOthers, NextNode
    PROVE  IInv'
<1>1. /\ steps # <<>> /\ At("next")
      /\ cond' = cond /\ wait' = wait /\ freeLock' = freeLock /\ flush' = flush
      /\ down' = down /\ needWork' = needWork /\ queueLock' = queueLock
      /\ sourcesLock' = sourcesLock /\ inbox' = inbox /\ decoded' = decoded
      /\ life' = life /\ reader' = reader /\ pending' = pending
      /\ needWakeup' = needWakeup /\ packet' = packet /\ haveData' = haveData
      /\ request' = request /\ answer' = answer /\ err' = err
      /\ space' = space /\ qpc' = qpc /\ msgFlush' = msgFlush
      /\ wrote' = wrote /\ needSpace' = needSpace /\ dpc' = dpc
      /\ todo' = todo /\ cur' = cur
  BY DEF NextNode, At, Idle, condVars, flags, locks, readerVars, MainOthers,
         queueVars, decodeVars
<1>2. /\ TypeOK /\ StepsInv /\ LocksInv /\ FlushInv /\ ReadInv
      /\ FlushedBeforeDelete /\ AskInv /\ EndInv
  BY DEF IInv
<1>3. queueLock = "main" /\ sourcesLock = "main"
  BY <1>1, MainTypes DEF NeedQueue, NeedSources
<1>4. /\ steps' \in {DeleteNext, EndThreads} /\ node' \in Source
      /\ steps' = EndThreads => Listed = {}
  <2>1. CASE Listed = {}
    BY <1>1, <1>2, <2>1 DEF NextNode, StepsInv
  <2>2. CASE Listed # {}
    <3>1. steps' = DeleteNext /\ node' \in Listed
      BY <2>2 DEF NextNode
    <3>2. DeleteNext # EndThreads
      BY DEF DeleteNext, EndThreads
    <3> QED BY <3>1, <3>2 DEF Listed
  <2> QED BY <2>1, <2>2
<1>5. StepsInv'
  <2>1. Order(steps') /\ steps' # <<>>
    BY <1>4, NextBegins
  <2>2. Locked(steps)'
    BY <1>1, <1>3 DEF Locked
  <2>3. Prepared(steps)'
    <3>1. \A i \in 1..Len(steps') : steps'[i] # "open"
      BY <1>4, NextBegins DEF In
    <3> QED BY <1>4, <3>1, NextBegins DEF Prepared
  <2> QED BY <1>4, <2>1, <2>2, <2>3 DEF StepsInv
<1>6. FlushInv'
  <2>1. ~Flushing'
    BY <1>4, NextBegins DEF Flushing
  <2>2. ~Flushing
    <3>1. /\ steps[1] = "next" /\ 1 \in 1..Len(steps) /\ Order(steps)
          /\ Len(steps) \in Nat
      BY <1>1, <1>2, MainTypes DEF StepsInv, Order
    <3>2. \A j \in 1..Len(steps) : j = 1 \/ 1 < j
      BY <3>1
    <3>3. \A j \in 1..Len(steps) : steps[j] = "next"
      BY <3>1, <3>2 DEF Order
    <3> QED BY <3>3 DEF Flushing, In
  <2> QED BY <1>1, <1>2, <2>1, <2>2 DEF FlushInv
<1>7. TypeOK'
  BY <1>1, <1>2, <1>4 DEF TypeOK
<1>8. LocksInv' /\ ReadInv' /\ FlushedBeforeDelete'
  BY <1>1, <1>2 DEF LocksInv, Listed, ReadInv, FlushedBeforeDelete
<1>9. AskInv'
  BY <1>1, <1>2 DEF AskInv, NoLostData
<1>10. EndInv'
  <2>1. Listed' = Listed
    BY <1>1 DEF Listed
  <2> QED BY <1>4, <2>1, NextBegins DEF EndInv
<1> QED BY <1>5, <1>6, <1>7, <1>8, <1>9, <1>10, Zenon DEF IInv

LEMMA MainThreadKeeps ==
    ASSUME IInv, MainThread
    PROVE  IInv'
  BY CallKeeps, MainStepKeeps, NodeStepKeeps, NextNodeKeeps, AnswerReadKeeps,
     OnAvailableDataKeeps DEF MainThread
-----------------------------------------------------------------------------
(* The theorems about Audio. *)

LEMMA InitIInv == Init => IInv
<1> SUFFICES ASSUME Init PROVE IInv
  OBVIOUS
<1>1. TypeOK
  <2>1. cond \in [Cond -> BOOLEAN] /\ {pending, needWakeup, packet, haveData,
                                       request, answer}
                                         \subseteq [Source -> BOOLEAN]
    BY DEF Init
  <2>2. /\ wait \in [Cond -> {"no", "check", "unset", "asleep"}]
        /\ life \in [Source -> {"new", "listed", "unlisted", "deleted"}]
        /\ reader \in [Source -> {"none", "fresh", "opened"}]
        /\ err \in [Source -> {"none", "data", "again", "exit"}]
    BY DEF Init
  <2>3. space \in 0..Ring /\ decoded \in [Source -> 0..MaxDecoded]
    BY AudioAssumption DEF Init
  <2> QED BY <2>1, <2>2, <2>3 DEF Init, TypeOK
<1>2. steps = <<>> /\ Len(steps) = 0 /\ node = NoSource
  BY DEF Init
<1>3. \A x : ~In(steps, x)
  BY <1>2 DEF In
<1>4. StepsInv
  <2>1. Order(steps)
    BY <1>2, <1>3 DEF Order
  <2>2. Locked(steps) /\ Prepared(steps)
    BY <1>2, <1>3 DEF Locked, Prepared
  <2> QED BY <1>2, <2>1, <2>2, AudioAssumption DEF StepsInv
<1>5. LocksInv
  BY DEF Init, LocksInv
<1>6. FlushInv
  <2>1. "MessagesFlushed" \in Cond
    BY DEF Cond
  <2> QED BY <1>3, <2>1 DEF Init, FlushInv, Flushing
<1>7. ReadInv /\ FlushedBeforeDelete /\ AskInv /\ EndInv
  BY AudioAssumption DEF Init, ReadInv, FlushedBeforeDelete,
     AskInv, NoLostData, EndInv, In
<1> QED BY <1>1, <1>4, <1>5, <1>6, <1>7 DEF IInv

LEMMA NextIInv == IInv /\ [Next]_vars => IInv'
<1> SUFFICES ASSUME IInv, [Next]_vars PROVE IInv'
  OBVIOUS
<1>1. CASE Next
  BY <1>1, QueueThreadKeeps, DecodeThreadKeeps, PlayBackKeeps, MainThreadKeeps,
     ConditionKeeps DEF Next
<1>2. CASE UNCHANGED vars
  <2>1. /\ cond' = cond /\ wait' = wait /\ flush' = flush /\ down' = down
        /\ queueLock' = queueLock /\ space' = space /\ inbox' = inbox
        /\ decoded' = decoded /\ qpc' = qpc /\ msgFlush' = msgFlush
        /\ wrote' = wrote /\ needSpace' = needSpace /\ QueueLeaves
        /\ steps' = steps
    BY <1>2 DEF vars, condVars, flags, locks, queueVars, QueueLeaves, mainVars
  <2>2. CondTypes' /\ SameFlush
    BY <2>1, TypesOf DEF CondTypes, SameFlush
  <2>3. FlushInv'
    BY <2>1, <2>2, TypesOf, KeepsFlush
  <2> QED BY <2>1, <2>2, <2>3, TypesOf, QueueKeeps DEF LocksInv
<1> QED BY <1>1, <1>2

\* The invariant that the others follow from.
THEOREM Invariance == Spec => []IInv
<1> QED BY InitIInv, NextIInv, PTL DEF Spec

\* Every variable keeps to its type: for one, no ring buffer overflows.
THEOREM TypeCorrect == Spec => []TypeOK
<1>1. IInv => TypeOK
  BY DEF IInv
<1> QED BY <1>1, Invariance, PTL

\* Nobody works with a node that the main thread is taking apart, and no
\* message is left for one that is deleted.
THEOREM Peace == Spec => []DeletedInPeace
<1>1. IInv => DeletedInPeace
  <2> SUFFICES ASSUME IInv PROVE DeletedInPeace
    OBVIOUS
  <2>1. LocksInv /\ ReadInv /\ FlushedBeforeDelete
    BY DEF IInv
  <2>2. ASSUME NEW p \in Handles, At(p) PROVE qpc # "run"
    <3>1. steps # <<>>
      BY <2>2 DEF At, Idle
    <3>2. queueLock = "main"
      BY <2>2, <3>1, MainTypes DEF NeedQueue
    <3> QED BY <2>1, <3>2 DEF LocksInv
  <2>3. HandsOff
    BY <2>1, <2>2 DEF HandsOff, Handles, ReadInv
  <2> QED BY <2>1, <2>3 DEF DeletedInPeace
<1> QED BY <1>1, Invariance, PTL

\* Whoever waits for an answer is owed one, by a main thread that waits neither
\* for the decode thread's end nor to close the very source; and a coroutine that
\* waits for data that has come has been woken.
THEOREM Answered == Spec => []NobodyWaitsInVain
<1>1. IInv => NobodyWaitsInVain
  <2> SUFFICES ASSUME IInv, dpc = "await", ~answer[cur]
               PROVE  request[cur] /\ ~At("joinDecode") /\ ~ClosesTheAsker
    BY DEF IInv, AskInv, NobodyWaitsInVain, NoLostAnswer
  <2>1. /\ StepsInv /\ LocksInv /\ ReadInv /\ AskInv /\ EndInv
        /\ cur \in Source \cup {NoSource}
    BY DEF IInv, TypeOK
  <2>2. request[cur] /\ cur \in Source /\ cur # NoSource
    BY <2>1, AudioAssumption DEF AskInv, LocksInv
  <2>3. life[cur] = "listed" /\ reader[cur] = "opened" /\ ~pending[cur]
    BY <2>1, <2>2 DEF ReadInv
  <2>4. ~At("joinDecode")
    <3> SUFFICES ASSUME At("joinDecode") PROVE FALSE
      OBVIOUS
    <3>1. steps[1] = "joinDecode" /\ 1 \in 1..Len(steps)
      BY MainTypes DEF At, Idle
    <3>2. Listed = {}
      BY <2>1, <3>1 DEF EndInv, In
    <3> QED BY <2>2, <2>3, <3>2 DEF Listed
  <2>5. ~ClosesTheAsker
    <3> SUFFICES ASSUME ClosesTheAsker PROVE FALSE
      OBVIOUS
    <3>1. node = cur
      BY DEF ClosesTheAsker
    <3>2. \/ steps = <<"takeSources", "close", "give">>
          \/ steps = <<"takeSources", "close", "give", "open">>
      BY DEF ClosesTheAsker, WaitsToClose
    <3>3. In(steps, "close") /\ ~In(steps, "finish")
      <4>1. CASE steps = <<"takeSources", "close", "give">>
        <5>1. Len(steps) = 3 /\ steps[2] = "close"
              /\ \A i \in 1..3 : steps[i] # "finish"
          BY <4>1
        <5> QED BY <5>1 DEF In
      <4>2. CASE steps = <<"takeSources", "close", "give", "open">>
        <5>1. Len(steps) = 4 /\ steps[2] = "close"
              /\ \A i \in 1..4 : steps[i] # "finish"
          BY <4>2
        <5> QED BY <5>1 DEF In
      <4> QED BY <3>2, <4>1, <4>2
    <3> QED BY <2>1, <2>3, <3>1, <3>3 DEF EndInv
  <2> QED BY <2>2, <2>4, <2>5
<1> QED BY <1>1, Invariance, PTL
-----------------------------------------------------------------------------
(***************************************************************************)
(* The threads of Video, for every size of the ring buffer and every script: *)
(* what is shown, that it goes on, and that it ends.                        *)
(***************************************************************************)

\* The conditions of a video, and what is in its ring buffer.
VCond == {"Buffer", "NotInDisplay"}
Frame == [slot : V!Slot, of : V!Pos]

\* Every variable's type, in groups.
OpenOK ==
    /\ opened \in BOOLEAN /\ container \in BOOLEAN /\ doOpen \in BOOLEAN
    /\ shutdown \in BOOLEAN /\ closeMsg \in BOOLEAN /\ reopen \in BOOLEAN
PlayOK ==
    /\ playing \in BOOLEAN /\ playWhenReady \in BOOLEAN
    /\ two \in BOOLEAN /\ told \in BOOLEAN /\ raced \in BOOLEAN
FlagsOK ==
    /\ doSetSize \in BOOLEAN /\ noDisplay \in BOOLEAN /\ inDisplay \in BOOLEAN
    /\ eof \in BOOLEAN /\ inSeek \in BOOLEAN /\ inHandler \in BOOLEAN
PlacesOK ==
    /\ doSeek \in {"no", "exact", "keyframe", "previous"}
    /\ error \in {"none", "eof", "reading"}
    /\ pos \in V!Pos
    /\ vpc \in {"none", "lock", "seek", "previous", "buffer", "seeked",
                "process", "resize", "write", "open", "ready", "unlock", "wait",
                "exited"}
    /\ mpc \in {"idle", "display", "frame", "crashed", "playLater", "seekFlush",
                "stopSeek", "stopFlush", "closeLock", "closeSignal",
                "closeJoin", "closed", "pauseClear", "twoThreads"}
BuffersOK ==
    /\ packets \in 0..MaxPackets
    /\ ring \in Seq(Frame) /\ Len(ring) <= Samples
    /\ framesIdx \in V!Slot /\ slot \in V!Slot
TimersOK == timers \subseteq V!Slot /\ stray \in Nat /\ timerIdx \in V!Slot
CondOK ==
    /\ vcond \in [VCond -> BOOLEAN]
    /\ vwait \in [VCond -> {"no", "check", "unset", "asleep"}]
    /\ lost \subseteq VCond

Closing == {"closeLock", "closeSignal", "closeJoin", "closed"}

\* How far each thread is tells what the other may do: display() is being called
\* exactly while its steps are taken, a closing main thread waits for a decode
\* thread that has been told to end, and there is no decode thread but when
\* something is open or is about to be.
ThreadInv ==
    /\ inHandler =>
          mpc \in {"playLater", "pauseClear", "seekFlush", "stopSeek",
                   "stopFlush", "twoThreads"}
                  \cup Closing
    /\ inDisplay <=> mpc \in {"display", "frame", "crashed"} \/ inHandler
    /\ mpc \in {"closeSignal", "closeJoin"} =>
           \/ vpc = "exited"
           \/ shutdown /\ vpc \in {"lock", "wait", "unlock"}
    /\ mpc = "closed" => vpc = "none"
    /\ vpc = "none" /\ opened => mpc = "closed"
    /\ vpc = "ready" \/ playing \/ mpc \in {"seekFlush", "stopSeek"} => opened

\* A source that could not be opened is closed soon, or MSG_CLOSE is on its way;
\* until then the decode thread has nothing to do.
SourceInv ==
    /\ ~container => /\ vpc \in {"none", "unlock", "wait", "lock", "exited"}
                     /\ ~opened /\ ~doOpen
                     /\ vpc = "none" \/ closeMsg \/ mpc \in Closing
    /\ vpc = "open" => ~opened /\ ~doOpen
    /\ mpc = "twoThreads" => closeMsg

\* What a seek has come to: until the decoder looks at it, what it decodes is of
\* before; then it is what was sought, or, if the seek failed or met the decoder
\* in processVideo(), anything.
SeekInv ==
    /\ inSeek =>
          vpc \in {"process", "resize", "write", "seeked"} /\ pos # "before"
    /\ vpc = "seek" => V!Sought
    /\ vpc = "seeked" => pos # "before" /\ (inSeek \/ V!Sought)
    /\ vpc = "previous" => pos # "before" /\ doSeek = "previous"
    /\ pos = "before" =>
          V!Sought /\ (V!InProcess => mpc \in {"seekFlush", "stopSeek"})
    /\ V!Sought /\ pos = "sought" => vpc \notin {"process", "resize", "write"}

\* The place d frames before the place k.
SlotBefore(k, d) == IF k >= d THEN k - d ELSE k - d + Samples
\* No frame of q is p.
None(p, q) == \A i \in 1..Len(q) : q[i].of # p

\* From the first frame on that was sought the frames of q lie one after the
\* other, up to the place before k.
Chain(q, k) ==
    \A i, j \in 1..Len(q) : q[i].of = "sought" /\ i <= j =>
        q[j].slot = SlotBefore(k, Len(q) + 1 - j)

\* Frames of before are gone with the flush, and frames that were sought come
\* with the end of the seek; they lie where the index has passed, and a frame
\* that is written goes where it points to.
RingInv ==
    /\ mpc \notin {"seekFlush", "stopSeek"} => None("before", ring)
    /\ V!Sought => None("sought", ring)
    /\ Chain(ring, framesIdx)
    /\ vpc = "write" => /\ Len(ring) < Samples
                        /\ slot = framesIdx \/ (ring = <<>> /\ pos # "sought")
    /\ vpc = "previous" => slot = framesIdx \/ pos = "any"

\* A frame that is shown was there before those in the ring buffer: while a
\* place is free its buffer comes before theirs, and a seek that was asked for
\* since has emptied the ring buffer, or is about to.
Shown == mpc = "frame" \/ (inHandler /\ mpc \in {"playLater", "pauseClear"})
FrameInv ==
    /\ frame \in Frame \cup {V!NoFrame}
    /\ mpc = "frame" \/ inHandler => frame.of # "before"
    /\ Shown /\ frame.of = "sought" =>
          /\ ~V!Sought
          /\ vpc = "write" => slot = framesIdx
          /\ Len(ring) < Samples => Chain(<<frame>> \o ring, framesIdx)

\* Unless two timers run, one does, in its place, and none while display() runs.
\* A video that plays has a timer, or something that is going on starts one.
TimerInv ==
    /\ ~two => /\ stray = 0
               /\ \A a, b \in timers : a = b
               /\ mpc = "display" => timers = {}
    /\ mpc \in {"stopSeek", "stopFlush", "pauseClear"} /\ playing => raced
    /\ playing => \/ V!Live > 0 \/ told \/ raced
                  \/ mpc \in {"display", "seekFlush"} \cup Closing
    /\ mpc \in Closing \/ vpc = "none" => V!Live = 0 \/ two \/ raced

\* c's thread goes on: it does not wait, it will see the flag, or it was called
\* and did not hear it.
Woken(c) == \/ vwait[c] = "no" \/ (vwait[c] = "check" /\ vcond[c])
            \/ c \in lost

\* The decode thread waits in one place at a time, and has been called once
\* there is nothing left to wait for.
WakeInv ==
    /\ vwait["Buffer"] # "no" => vpc = "wait"
    /\ vwait["NotInDisplay"] # "no" => vpc = "resize"
    /\ mpc = "closeJoin" => Woken("Buffer")
    /\ ~inDisplay => Woken("NotInDisplay")

\* The three kinds of seeks.
SomeSeek == \E f \in {"exact", "keyframe", "previous"} : V!Seek(f)
-----------------------------------------------------------------------------
\* The places of the ring buffer go round.
LEMMA Places == ASSUME NEW i \in V!Slot PROVE
    /\ 0 \in V!Slot
    /\ V!NextSlot(i) = IF i = Samples - 1 THEN 0 ELSE i + 1
    /\ V!PrevSlot(i) = IF i = 0 THEN Samples - 1 ELSE i - 1
    /\ V!NextSlot(i) \in V!Slot /\ V!PrevSlot(i) \in V!Slot
<1>1. V!NextSlot(i) = IF i = Samples - 1 THEN 0 ELSE i + 1
  BY VideoAssumption DEF V!Slot, V!NextSlot
<1>2. V!PrevSlot(i) = IF i = 0 THEN Samples - 1 ELSE i - 1
  BY VideoAssumption DEF V!Slot, V!PrevSlot
<1> QED BY <1>1, <1>2, VideoAssumption DEF V!Slot

\* A signal wakes who waits, or is lost; the others wait on.
LEMMA Waking ==
    ASSUME CondOK, NEW cs \in SUBSET VCond, V!Wake(cs)
    PROVE  /\ CondOK'
           /\ \A c \in VCond :
                /\ (vwait[c])' = "no" <=> vwait[c] = "no"
                /\ c \in cs \/ Woken(c) => Woken(c)'
<1>1. CondOK'
  BY DEF CondOK, V!Wake, V!Signal, VCond
<1>2. ASSUME NEW c \in VCond
      PROVE  /\ vcond'[c] = (c \in cs \/ vcond[c])
             /\ vwait'[c] = IF c \in cs /\ vwait[c] = "asleep" THEN "check"
                           ELSE vwait[c]
             /\ c \in lost' <=> IF c \in cs THEN vwait[c] = "unset"
                              ELSE c \in lost
             /\ vwait[c] \in {"no", "check", "unset", "asleep"}
  BY <1>2 DEF CondOK, V!Wake, V!Signal, VCond
<1>3. ASSUME NEW c \in VCond
      PROVE  /\ (vwait[c])' = "no" <=> vwait[c] = "no"
             /\ c \in cs \/ Woken(c) => Woken(c)'
  BY <1>2, <1>3 DEF Woken
<1> QED BY <1>1, <1>3

\* There are timers if some are in their places or elsewhere.
LEMMA LiveOf ==
    \A ts \in SUBSET V!Slot, n \in Nat :
        /\ n + Cardinality(ts) \in Nat
        /\ n + Cardinality(ts) > 0 <=> n > 0 \/ ts # {}
<1> SUFFICES ASSUME NEW ts \in SUBSET V!Slot, NEW n \in Nat
             PROVE  /\ n + Cardinality(ts) \in Nat
                    /\ n + Cardinality(ts) > 0 <=> n > 0 \/ ts # {}
  OBVIOUS
<1>1. IsFiniteSet(ts)
  <2>1. IsFiniteSet(V!Slot)
    BY VideoAssumption, FS_Interval DEF V!Slot
  <2> QED BY <2>1, FS_Subset
<1>2. Cardinality(ts) \in Nat /\ (Cardinality(ts) = 0 <=> ts = {})
  BY <1>1, FS_CardinalityType, FS_EmptySet
<1> QED BY <1>2

\* Video counts as FiniteSets does.
LEMMA SizeIs == \A ts : V!Cardinality(ts) = Cardinality(ts)
  BY DEF V!Cardinality, Cardinality

\* There are timers if there are, before and after a step.
LEMMA LiveIs ==
    /\ TimersOK =>
          V!Live \in Nat /\ (V!Live > 0 <=> stray > 0 \/ timers # {})
    /\ TimersOK' =>
          V!Live' \in Nat /\ (V!Live' > 0 <=> stray' > 0 \/ timers' # {})
<1>1. ASSUME TimersOK
      PROVE  V!Live \in Nat /\ (V!Live > 0 <=> stray > 0 \/ timers # {})
  <2>1. timers \in SUBSET V!Slot /\ stray \in Nat
    BY <1>1 DEF TimersOK
  <2> QED BY <2>1, LiveOf, SizeIs DEF V!Live
<1>2. ASSUME TimersOK'
      PROVE  V!Live' \in Nat /\ (V!Live' > 0 <=> stray' > 0 \/ timers' # {})
  <2>1. timers' \in SUBSET V!Slot /\ stray' \in Nat
    BY <1>2 DEF TimersOK
  <2>2. V!Live' = stray' + Cardinality(timers')
    BY SizeIs DEF V!Live
  <2> QED BY <2>1, <2>2, LiveOf
<1> QED BY <1>1, <1>2

-----------------------------------------------------------------------------
(* The ring buffer. *)

\* What is left of a sequence of frames.
LEMMA FramesTail ==
    ASSUME NEW q \in Seq(Frame), q # <<>>
    PROVE  /\ Tail(q) \in Seq(Frame) /\ Head(q) \in Frame /\ Head(q) = q[1]
           /\ Len(q) \in Nat \ {0} /\ Len(Tail(q)) = Len(q) - 1
           /\ \A i \in 1..Len(q) - 1 : Tail(q)[i] = q[i + 1]
  OBVIOUS

\* Reading takes the oldest frame away.
LEMMA RingRead ==
    ASSUME NEW q \in Seq(Frame), NEW k \in V!Slot, q # <<>>
    PROVE  /\ Chain(q, k) => Chain(Tail(q), k)
           /\ \A p \in V!Pos : None(p, q) => None(p, Tail(q)) /\ Head(q).of # p
<1> DEFINE n == Len(q)
           t == Tail(q)
<1>1. /\ n \in Nat \ {0} /\ Len(t) = n - 1 /\ Head(q) = q[1]
      /\ \A i \in 1..n - 1 : t[i] = q[i + 1]
  BY FramesTail
<1>2. ASSUME NEW p \in V!Pos, None(p, q) PROVE None(p, t) /\ Head(q).of # p
  <2>1. \A i \in 1..n : q[i].of # p
    BY <1>2 DEF None
  <2> HIDE DEF n, t
  <2> QED BY <1>1, <2>1 DEF None
<1>3. ASSUME Chain(q, k) PROVE Chain(t, k)
  <2>1. \A i, j \in 1..n : q[i].of = "sought" /\ i <= j =>
            q[j].slot = SlotBefore(k, n + 1 - j)
    BY <1>3 DEF Chain
  <2> HIDE DEF n, t
  <2>2. ASSUME NEW i \in 1..n - 1, NEW j \in 1..n - 1,
               t[i].of = "sought", i <= j
        PROVE  t[j].slot = SlotBefore(k, n - 1 + 1 - j)
    <3>1. /\ i + 1 \in 1..n /\ j + 1 \in 1..n /\ i + 1 <= j + 1
          /\ n + 1 - (j + 1) = n - 1 + 1 - j
      BY <1>1, <2>2
    <3>2. q[i + 1].of = "sought"
      BY <1>1, <2>2
    <3>3. q[j + 1].slot = SlotBefore(k, n + 1 - (j + 1))
      BY <2>1, <3>1, <3>2
    <3>4. t[j] = q[j + 1]
      BY <1>1, <2>2
    <3> QED BY <3>1, <3>3, <3>4
  <2> QED BY <1>1, <2>2 DEF Chain
<1> QED BY <1>2, <1>3

\* A seek makes every frame one of before.
LEMMA RingStale ==
    ASSUME NEW q \in Seq(Frame), NEW k \in V!Slot
    PROVE  /\ V!Stale(q) \in Seq(Frame) /\ Len(V!Stale(q)) = Len(q)
           /\ Chain(V!Stale(q), k) /\ None("sought", V!Stale(q))
           /\ q = <<>> => V!Stale(q) = <<>>
<1> DEFINE n == Len(q)
           before(i) == [q[i] EXCEPT !.of = "before"]
           s == V!Stale(q)
<1>1. n \in Nat /\ DOMAIN q = 1..n
  OBVIOUS
<1>2. \A i \in 1..n : q[i] \in Frame
  OBVIOUS
<1>3. \A i \in 1..n : before(i) \in Frame /\ before(i).of = "before"
  BY <1>2 DEF Frame, V!Pos
<1>4. s = [i \in 1..n |-> before(i)]
  BY <1>1 DEF V!Stale
<1>5. q = <<>> => n = 0
  OBVIOUS
<1>6. s \in Seq(Frame) /\ Len(s) = n /\ \A i \in 1..n : s[i].of = "before"
  <2> HIDE DEF n, before, s
  <2>1. s \in Seq(Frame) /\ Len(s) = n
    BY <1>1, <1>3, <1>4
  <2> QED BY <1>3, <1>4, <2>1
<1> HIDE DEF n, s
<1>7. n = 0 => s = <<>>
  BY <1>6
<1>8. Chain(s, k) /\ None("sought", s)
  BY <1>6 DEF Chain, None
<1> QED BY <1>5, <1>6, <1>7, <1>8 DEF n, s

\* Writing adds a frame in the place that the index names, or one that is not
\* what was sought when there is none that is.
LEMMA RingWrite ==
    ASSUME NEW q \in Seq(Frame), NEW k \in V!Slot, NEW f \in Frame,
           Len(q) < Samples
    PROVE  /\ Append(q, f) \in Seq(Frame) /\ Len(Append(q, f)) = Len(q) + 1
           /\ \A p \in V!Pos : None(p, q) /\ f.of # p => None(p, Append(q, f))
           /\ /\ Chain(q, k)
              /\ f.slot = k \/ (None("sought", q) /\ f.of # "sought")
              => Chain(Append(q, f), V!NextSlot(k))
<1> DEFINE n == Len(q)
           a == Append(q, f)
<1>0. V!NextSlot(k) = IF k = Samples - 1 THEN 0 ELSE k + 1
  BY Places
<1>1. /\ n \in Nat /\ a \in Seq(Frame) /\ Len(a) = n + 1
      /\ \A i \in 1..n : a[i] = q[i]
      /\ a[n + 1] = f
  OBVIOUS
<1>2. ASSUME NEW p \in V!Pos, None(p, q), f.of # p PROVE None(p, a)
  <2>1. \A i \in 1..n : q[i].of # p
    BY <1>2 DEF None
  <2> HIDE DEF n, a
  <2>2. \A i \in 1..n + 1 : i \in 1..n \/ i = n + 1
    BY <1>1
  <2> QED BY <1>1, <1>2, <2>1, <2>2 DEF None
<1>3. ASSUME Chain(q, k), f.slot = k PROVE Chain(a, V!NextSlot(k))
  <2>1. \A i, j \in 1..n : q[i].of = "sought" /\ i <= j =>
            q[j].slot = SlotBefore(k, n + 1 - j)
    BY <1>3 DEF Chain
  <2>2. n < Samples
    OBVIOUS
  <2> HIDE DEF n, a
  <2>3. ASSUME NEW i \in 1..n + 1, NEW j \in 1..n + 1,
               a[i].of = "sought", i <= j
        PROVE  a[j].slot = SlotBefore(V!NextSlot(k), n + 1 + 1 - j)
    <3>1. CASE j = n + 1
      <4>1. a[j].slot = k /\ n + 1 + 1 - j = 1
        BY <1>1, <1>3, <3>1
      <4>2. SlotBefore(V!NextSlot(k), 1) = k
        BY <1>0, VideoAssumption DEF SlotBefore, V!Slot
      <4> QED BY <4>1, <4>2
    <3>2. CASE j # n + 1
      <4>1. i \in 1..n /\ j \in 1..n
        BY <1>1, <2>3, <3>2
      <4>2. a[j].slot = SlotBefore(k, n + 1 - j)
        BY <1>1, <2>1, <2>3, <4>1
      <4>3. /\ n + 1 + 1 - j = (n + 1 - j) + 1
            /\ n + 1 - j \in 1..Samples - 1
        BY <1>1, <2>2, <4>1, VideoAssumption
      <4>4. \A d \in 1..Samples - 1 :
                SlotBefore(V!NextSlot(k), d + 1) = SlotBefore(k, d)
        BY <1>0, VideoAssumption DEF SlotBefore, V!Slot
      <4> QED BY <4>2, <4>3, <4>4
    <3> QED BY <3>1, <3>2
  <2> QED BY <1>1, <2>3 DEF Chain
<1>4. ASSUME None("sought", q), f.of # "sought" PROVE Chain(a, V!NextSlot(k))
  <2>1. None("sought", a)
    BY <1>2, <1>4 DEF V!Pos
  <2> QED BY <2>1 DEF Chain, None
<1> QED BY <1>1, <1>2, <1>3, <1>4

\* The buffer of the oldest frame is no other one's.
LEMMA RingShows ==
    ASSUME NEW q \in Seq(Frame), NEW k \in V!Slot, Chain(q, k),
           q # <<>>, Head(q).of = "sought", Len(q) <= Samples
    PROVE  /\ Len(q) < Samples => k # Head(q).slot
           /\ \A i \in 1..Len(Tail(q)) : Tail(q)[i].slot # Head(q).slot
<1> DEFINE n == Len(q)
           t == Tail(q)
           h == Head(q)
<1>1. /\ n \in Nat \ {0} /\ Len(t) = n - 1 /\ h = q[1]
      /\ \A i \in 1..n - 1 : t[i] = q[i + 1]
  BY FramesTail
<1>2. n <= Samples /\ h.of = "sought"
  OBVIOUS
<1>3. \A i, j \in 1..n : q[i].of = "sought" /\ i <= j =>
            q[j].slot = SlotBefore(k, n + 1 - j)
  BY DEF Chain
<1> HIDE DEF n, t, h
<1>4. \A j \in 1..n : q[j].slot = SlotBefore(k, n + 1 - j)
  <2>1. 1 \in 1..n /\ \A j \in 1..n : 1 <= j
    BY <1>1
  <2> QED BY <1>1, <1>2, <1>3, <2>1
<1>5. h.slot = SlotBefore(k, n)
  <2>1. 1 \in 1..n /\ n + 1 - 1 = n
    BY <1>1
  <2> QED BY <1>1, <1>4, <2>1
<1>6. ASSUME n < Samples PROVE k # h.slot
  BY <1>1, <1>5, <1>6, VideoAssumption DEF SlotBefore, V!Slot
<1>7. ASSUME NEW i \in 1..n - 1 PROVE t[i].slot # h.slot
  <2>1. i + 1 \in 1..n /\ n + 1 - (i + 1) = n - i /\ n - i \in 1..n - 1
    BY <1>1, <1>7
  <2>2. t[i].slot = SlotBefore(k, n - i)
    BY <1>1, <1>4, <1>7, <2>1
  <2>3. \A d \in 1..n - 1 : SlotBefore(k, d) # SlotBefore(k, n)
    BY <1>1, <1>2, VideoAssumption DEF SlotBefore, V!Slot
  <2> QED BY <1>5, <2>1, <2>2, <2>3
<1> QED BY <1>1, <1>6, <1>7 DEF n, t, h

\* A frame and the sequence that it came before.
LEMMA FrameBefore ==
    ASSUME NEW f \in Frame, NEW q \in Seq(Frame)
    PROVE  /\ <<f>> \o q \in Seq(Frame) /\ Len(<<f>> \o q) = Len(q) + 1
           /\ Head(<<f>> \o q) = f /\ Tail(<<f>> \o q) = q
           /\ <<f>> \o q # <<>>
           /\ q # <<>> => <<Head(q)>> \o Tail(q) = q
           /\ \A g \in Frame : <<f>> \o Append(q, g) = Append(<<f>> \o q, g)
<1> DEFINE s == <<f>> \o q
<1>1. /\ s \in Seq(Frame) /\ Len(s) = Len(q) + 1 /\ Len(q) \in Nat
      /\ s[1] = f /\ \A i \in 1..Len(q) : s[i + 1] = q[i]
  OBVIOUS
<1>2. Head(s) = f /\ s # <<>>
  BY <1>1
<1>3. Tail(s) = q
  <2>1. /\ Tail(s) \in Seq(Frame) /\ Len(Tail(s)) = Len(q)
        /\ \A i \in 1..Len(q) : Tail(s)[i] = q[i]
    BY <1>1, <1>2, FramesTail
  <2> QED BY <2>1
<1>4. ASSUME q # <<>> PROVE <<Head(q)>> \o Tail(q) = q
  <2>1. /\ Tail(q) \in Seq(Frame) /\ Head(q) = q[1]
        /\ Len(q) \in Nat \ {0} /\ Len(Tail(q)) = Len(q) - 1
        /\ \A i \in 1..Len(q) - 1 : Tail(q)[i] = q[i + 1]
    BY <1>4, FramesTail
  <2> QED BY <2>1
<1>5. ASSUME NEW g \in Frame PROVE <<f>> \o Append(q, g) = Append(s, g)
  OBVIOUS
<1> QED BY <1>1, <1>2, <1>3, <1>4, <1>5

\* There is nothing to say of an empty ring buffer, ...
LEMMA RingEmpty == /\ \A p : None(p, <<>>)
                   /\ \A k : Chain(<<>>, k)
                   /\ <<>> \in Seq(Frame) /\ Len(<<>>) = 0
  BY DEF Chain, None

\* ... and an index may be anywhere when no frame in it was sought.
LEMMA RingSkips ==
    ASSUME NEW q \in Seq(Frame), NEW k \in V!Slot, None("sought", q)
    PROVE  Chain(q, k)
  BY DEF Chain, None
-----------------------------------------------------------------------------
(* Every variable keeps to its type. *)

\* Each group of types, step by step.
LEMMA OpenKeeps ==
    ASSUME OpenOK, V!Next
    PROVE  OpenOK'
<1>1. ASSUME V!DecodeThread PROVE OpenOK'
  <2>0. UNCHANGED <<inDisplay, mpc, inHandler, frame, reopen>>
    BY <1>1 DEF V!DecodeThread, V!mainVars
  <2>1. CASE V!Ready
    BY <2>0, <2>1 DEF V!Ready, V!openVars, V!closing, V!mainVars, OpenOK
  <2>2. CASE (V!Lock \/ V!OpenInitInternal \/ V!Unlock) /\ UNCHANGED raced
    BY <2>0, <2>2 DEF V!Lock, V!OpenInitInternal, V!Unlock, V!openVars,
       V!closing, V!mainVars, OpenOK
  <2>3. CASE (V!SeekInternal \/ V!Seeked \/ V!Buffer) /\ UNCHANGED raced
    BY <2>0, <2>3 DEF V!SeekInternal, V!Seeked, V!Buffer, V!openVars,
       V!closing, V!mainVars, OpenOK
  <2>4. CASE (V!Resize \/ V!Resized \/ V!ProcessPacket \/ V!ProcessEnds
             \/ V!ProcessFrame) /\ UNCHANGED raced
    BY <2>0, <2>4 DEF V!Resize, V!Resized, V!ProcessPacket, V!ProcessEnds,
       V!ProcessFrame, V!openVars, V!closing, V!mainVars, OpenOK
  <2> QED BY <1>1, <2>1, <2>2, <2>3, <2>4 DEF V!DecodeThread
<1>2. ASSUME V!Display PROVE OpenOK'
  BY <1>2 DEF V!Display, V!openVars, V!closing, V!mainVars, OpenOK
<1>3. ASSUME V!Script PROVE OpenOK'
  <2>0. /\ UNCHANGED <<noDisplay, inDisplay>>
        /\ raced' = (raced /\ IF mpc = "closed" THEN V!Live > 0
                             ELSE playing' = playing)
    BY <1>3 DEF V!Script, V!mainVars
  <2>1. CASE V!Open \/ V!OpenTwice \/ V!Closed
    BY <2>0, <2>1 DEF V!Open, V!OpenTwice, V!Calls, V!MayCall, V!NoTimer,
       V!Start, V!Closed, V!openVars, V!closing, V!mainVars, OpenOK
  <2>2. CASE V!Play \/ V!PlayLater \/ V!NextFrame
    BY <2>0, <2>2 DEF V!Play, V!PlayLater, V!NextFrame, V!openVars, V!closing,
       V!mainVars, OpenOK
  <2>3. CASE V!Pause \/ V!PauseClear \/ V!SetSize \/ V!Close \/ V!OnMessage
    BY <2>0, <2>3 DEF V!Pause, V!PauseClear, V!Goes, V!Back, V!NoTimer,
       V!ClearAll, V!ClearTimers, V!Calls, V!MayCall, V!SetSize, V!Close,
       V!CloseAsked, V!OnMessage, V!openVars, V!closing, V!mainVars, OpenOK
  <2>4. CASE SomeSeek \/ V!Stop
    BY <2>0, <2>4 DEF SomeSeek, V!Seek, V!Stop, V!openVars, V!closing,
       V!mainVars, OpenOK
  <2>5. CASE V!SeekFlush \/ V!StopFlush
    BY <2>0, <2>5 DEF V!SeekFlush, V!StopFlush, V!openVars, V!closing,
       V!mainVars, OpenOK
  <2>6. CASE V!ClosingStep
    BY <2>0, <2>6 DEF V!ClosingStep, V!CloseLock, V!CloseSignal, V!CloseJoin,
       V!openVars, V!closing, V!mainVars, OpenOK
  <2> QED BY <1>3, <2>1, <2>2, <2>3, <2>4, <2>5, <2>6 DEF V!Script,
             V!SeekFrame, SomeSeek
<1>4. ASSUME NEW c \in VCond, V!Condition(c) PROVE OpenOK'
  BY <1>4 DEF V!Condition, V!openVars, V!closing, V!mainVars, OpenOK
<1> QED BY <1>1, <1>2, <1>3, <1>4 DEF V!Next, VCond

LEMMA PlayKeeps ==
    ASSUME OpenOK, FlagsOK, PlayOK, V!Next
    PROVE  PlayOK'
<1>1. ASSUME V!DecodeThread PROVE PlayOK'
  <2>0. UNCHANGED <<inDisplay, mpc, inHandler, frame, reopen>>
    BY <1>1 DEF V!DecodeThread, V!mainVars
  <2>1. CASE V!Ready
    <3>1. raced' \in BOOLEAN
      BY <2>1 DEF V!Ready, PlayOK
    <3>2. two' \in BOOLEAN /\ told' \in BOOLEAN
      BY <2>1 DEF V!Ready, V!NoTimer, V!timerVars, PlayOK
    <3>3. playing' \in BOOLEAN /\ playWhenReady' \in BOOLEAN
      BY <2>1 DEF V!Ready, PlayOK
    <3> QED BY <3>1, <3>2, <3>3 DEF PlayOK
  <2>2. CASE (V!Lock \/ V!OpenInitInternal \/ V!Unlock) /\ UNCHANGED raced
    BY <2>0, <2>2 DEF V!Lock, V!OpenInitInternal, V!Unlock, V!openVars,
       V!timerVars, PlayOK
  <2>3. CASE (V!SeekInternal \/ V!Seeked \/ V!Buffer) /\ UNCHANGED raced
    BY <2>0, <2>3 DEF V!SeekInternal, V!Seeked, V!Buffer, V!openVars,
       V!timerVars, PlayOK
  <2>4. CASE (V!Resize \/ V!Resized \/ V!ProcessPacket \/ V!ProcessEnds
             \/ V!ProcessFrame) /\ UNCHANGED raced
    BY <2>0, <2>4 DEF V!Resize, V!Resized, V!ProcessPacket, V!ProcessEnds,
       V!ProcessFrame, V!openVars, V!timerVars, PlayOK
  <2> QED BY <1>1, <2>1, <2>2, <2>3, <2>4 DEF V!DecodeThread
<1>2. ASSUME V!Display PROVE PlayOK'
  <2>0. UNCHANGED <<V!openVars, V!closing, doSeek, doSetSize, noDisplay,
                   V!source, framesIdx, V!decodeVars, inHandler, reopen,
                   raced>>
    BY <1>2 DEF V!Display, V!mainVars
  <2>1. CASE V!TimerFires \/ V!DropFrame
    BY <2>0, <2>1 DEF V!TimerFires, V!Enter, V!DropFrame, V!openVars,
       V!timerVars, PlayOK
  <2>2. CASE V!DisplayNothing \/ V!ShowFrame
    BY <2>0, <2>2 DEF V!DisplayNothing, V!Schedule, V!ShowFrame, V!NoTimer,
       V!openVars, V!timerVars, PlayOK
  <2>3. CASE V!DisplayEnds \/ V!DisplayClosed
    BY <2>0, <2>3 DEF V!DisplayEnds, V!NoTimer, V!DisplayClosed, V!openVars,
       V!timerVars, PlayOK
  <2> QED BY <1>2, <2>1, <2>2, <2>3 DEF V!Display
<1>3. ASSUME V!Script PROVE PlayOK'
  <2>0. /\ UNCHANGED <<noDisplay, inDisplay>>
        /\ raced' = (raced /\ IF mpc = "closed" THEN V!Live > 0
                             ELSE playing' = playing)
    BY <1>3 DEF V!Script, V!mainVars
  <2>1. CASE V!Open \/ V!OpenTwice \/ V!Closed
    BY <2>0, <2>1 DEF V!Open, V!OpenTwice, V!Calls, V!MayCall, V!NoTimer,
       V!Start, V!ClearAll, V!Closed, V!openVars, V!timerVars, PlayOK
  <2>2. CASE V!Play \/ V!PlayLater \/ V!NextFrame
    BY <2>0, <2>2 DEF V!Play, V!Schedule, V!NoTimer, V!PlayLater, V!NextFrame,
       V!openVars, V!timerVars, PlayOK
  <2>3. CASE V!Pause \/ V!PauseClear \/ V!SetSize \/ V!Close \/ V!OnMessage
    BY <2>0, <2>3 DEF V!Pause, V!PauseClear, V!Goes, V!Back, V!ClearTimers,
       V!Calls, V!MayCall, V!ClearAll, V!SetSize, V!NoTimer, V!Close,
       V!CloseAsked, V!OnMessage, V!openVars, V!timerVars, PlayOK
  <2>4. CASE SomeSeek \/ V!Stop
    BY <2>0, <2>4 DEF SomeSeek, V!Seek, V!AskSeek, V!ClearAll, V!Stop,
       V!openVars, V!timerVars, PlayOK
  <2>5. CASE V!SeekFlush \/ V!StopFlush
    BY <2>0, <2>5 DEF V!SeekFlush, V!Schedule, V!StopFlush, V!ClearAll,
       V!openVars, V!timerVars, PlayOK
  <2>6. CASE V!ClosingStep
    BY <2>0, <2>6 DEF V!ClosingStep, V!openVars, V!timerVars, PlayOK
  <2> QED BY <1>3, <2>1, <2>2, <2>3, <2>4, <2>5, <2>6 DEF V!Script,
             V!SeekFrame, SomeSeek
<1>4. ASSUME NEW c \in VCond, V!Condition(c) PROVE PlayOK'
  BY <1>4 DEF V!Condition, V!openVars, V!timerVars, PlayOK
<1> QED BY <1>1, <1>2, <1>3, <1>4 DEF V!Next, VCond

LEMMA FlagsKeep ==
    ASSUME FlagsOK, V!Next
    PROVE  FlagsOK'
<1>1. ASSUME V!DecodeThread PROVE FlagsOK'
  <2>0. UNCHANGED <<inDisplay, mpc, inHandler, frame, reopen>>
    BY <1>1 DEF V!DecodeThread, V!mainVars
  <2>1. CASE V!Ready
    BY <2>0, <2>1 DEF V!Ready, V!sizeVars, V!source, V!decodeVars, V!mainVars,
       FlagsOK
  <2>2. CASE (V!Lock \/ V!OpenInitInternal \/ V!Unlock) /\ UNCHANGED raced
    BY <2>0, <2>2 DEF V!Lock, V!OpenInitInternal, V!Unlock, V!sizeVars,
       V!source, V!decodeVars, V!mainVars, FlagsOK
  <2>3. CASE (V!SeekInternal \/ V!Seeked \/ V!Buffer) /\ UNCHANGED raced
    BY <2>0, <2>3 DEF V!SeekInternal, V!Seeked, V!Buffer, V!sizeVars, V!source,
       V!decodeVars, V!mainVars, FlagsOK
  <2>4. CASE (V!Resize \/ V!Resized \/ V!ProcessPacket \/ V!ProcessEnds
             \/ V!ProcessFrame) /\ UNCHANGED raced
    BY <2>0, <2>4 DEF V!Resize, V!Resized, V!ProcessPacket, V!ProcessEnds,
       V!ProcessFrame, V!sizeVars, V!source, V!decodeVars, V!mainVars, FlagsOK
  <2> QED BY <1>1, <2>1, <2>2, <2>3, <2>4 DEF V!DecodeThread
<1>2. ASSUME V!Display PROVE FlagsOK'
  <2>0. UNCHANGED <<V!openVars, V!closing, doSeek, doSetSize, noDisplay,
                   V!source, framesIdx, V!decodeVars, inHandler, reopen,
                   raced>>
    BY <1>2 DEF V!Display, V!mainVars
  <2>1. CASE V!TimerFires \/ V!DropFrame
    BY <2>0, <2>1 DEF V!TimerFires, V!Enter, V!DropFrame, V!sizeVars, V!source,
       V!decodeVars, V!mainVars, FlagsOK
  <2>2. CASE V!DisplayNothing \/ V!ShowFrame
    BY <2>0, <2>2 DEF V!DisplayNothing, V!Return, V!ShowFrame, V!sizeVars,
       V!source, V!decodeVars, V!mainVars, FlagsOK
  <2>3. CASE V!DisplayEnds \/ V!DisplayClosed
    BY <2>0, <2>3 DEF V!DisplayEnds, V!Return, V!DisplayClosed, V!sizeVars,
       V!source, V!decodeVars, V!mainVars, FlagsOK
  <2> QED BY <1>2, <2>1, <2>2, <2>3 DEF V!Display
<1>3. ASSUME V!Script PROVE FlagsOK'
  <2>0. /\ UNCHANGED <<noDisplay, inDisplay>>
        /\ raced' = (raced /\ IF mpc = "closed" THEN V!Live > 0
                             ELSE playing' = playing)
    BY <1>3 DEF V!Script, V!mainVars
  <2>1. CASE V!Open \/ V!OpenTwice \/ V!Closed
    BY <2>0, <2>1 DEF V!Open, V!OpenTwice, V!Calls, V!MayCall, V!NoTimer,
       V!Start, V!Goes, V!Closed, V!Back, V!sizeVars, V!source, V!decodeVars,
       V!mainVars, FlagsOK
  <2>2. CASE V!Play \/ V!PlayLater \/ V!NextFrame
    BY <2>0, <2>2 DEF V!Play, V!Goes, V!PlayLater, V!Back, V!NextFrame,
       V!sizeVars, V!source, V!decodeVars, V!mainVars, FlagsOK
  <2>3. CASE V!Pause \/ V!PauseClear \/ V!SetSize \/ V!Close \/ V!OnMessage
    BY <2>0, <2>3 DEF V!Pause, V!PauseClear, V!Back, V!NoTimer, V!ClearAll,
       V!ClearTimers, V!Calls, V!MayCall, V!SetSize, V!Close, V!CloseAsked,
       V!Goes, V!OnMessage, V!sizeVars, V!source, V!decodeVars, V!mainVars,
       FlagsOK
  <2>4. CASE SomeSeek \/ V!Stop
    BY <2>0, <2>4 DEF SomeSeek, V!Seek, V!AskSeek, V!Goes, V!Stop, V!sizeVars,
       V!source, V!decodeVars, V!mainVars, FlagsOK
  <2>5. CASE V!SeekFlush \/ V!StopFlush
    BY <2>0, <2>5 DEF V!SeekFlush, V!Back, V!StopFlush, V!sizeVars, V!source,
       V!decodeVars, V!mainVars, FlagsOK
  <2>6. CASE V!ClosingStep
    BY <2>0, <2>6 DEF V!ClosingStep, V!sizeVars, V!source, V!decodeVars,
       V!mainVars, FlagsOK
  <2> QED BY <1>3, <2>1, <2>2, <2>3, <2>4, <2>5, <2>6 DEF V!Script,
             V!SeekFrame, SomeSeek
<1>4. ASSUME NEW c \in VCond, V!Condition(c) PROVE FlagsOK'
  BY <1>4 DEF V!Condition, V!sizeVars, V!source, V!decodeVars, V!mainVars,
     FlagsOK
<1> QED BY <1>1, <1>2, <1>3, <1>4 DEF V!Next, VCond

LEMMA PlacesKeep ==
    ASSUME PlacesOK, V!Next
    PROVE  PlacesOK'
<1>1. ASSUME V!DecodeThread PROVE PlacesOK'
  <2>0. UNCHANGED <<inDisplay, mpc, inHandler, frame, reopen>>
    BY <1>1 DEF V!DecodeThread, V!mainVars
  <2>1. CASE V!Ready
    BY <2>0, <2>1 DEF V!Ready, V!source, V!decodeVars, V!mainVars, PlacesOK,
       V!Pos
  <2>2. CASE (V!Lock \/ V!OpenInitInternal \/ V!Unlock) /\ UNCHANGED raced
    BY <2>0, <2>2 DEF V!Lock, V!Sought, V!OpenInitInternal, V!Unlock, V!source,
       V!decodeVars, V!mainVars, PlacesOK, V!Pos
  <2>3. CASE (V!SeekInternal \/ V!Seeked \/ V!Buffer) /\ UNCHANGED raced
    BY <2>0, <2>3 DEF V!SeekInternal, V!Seeked, V!Buffer, V!Sought, V!source,
       V!decodeVars, V!mainVars, PlacesOK, V!Pos
  <2>4. CASE (V!Resize \/ V!Resized \/ V!ProcessPacket \/ V!ProcessEnds
             \/ V!ProcessFrame) /\ UNCHANGED raced
    BY <2>0, <2>4 DEF V!Resize, V!Resized, V!ProcessPacket, V!ProcessEnds,
       V!ProcessFrame, V!source, V!decodeVars, V!mainVars, PlacesOK, V!Pos
  <2> QED BY <1>1, <2>1, <2>2, <2>3, <2>4 DEF V!DecodeThread
<1>2. ASSUME V!Display PROVE PlacesOK'
  <2>0. UNCHANGED <<V!openVars, V!closing, doSeek, doSetSize, noDisplay,
                   V!source, framesIdx, V!decodeVars, inHandler, reopen,
                   raced>>
    BY <1>2 DEF V!Display, V!mainVars
  <2>1. CASE V!TimerFires \/ V!DropFrame
    BY <2>0, <2>1 DEF V!TimerFires, V!Enter, V!DropFrame, V!source,
       V!decodeVars, V!mainVars, PlacesOK, V!Pos
  <2>2. CASE V!DisplayNothing \/ V!ShowFrame
    BY <2>0, <2>2 DEF V!DisplayNothing, V!Return, V!ShowFrame, V!source,
       V!decodeVars, V!mainVars, PlacesOK, V!Pos
  <2>3. CASE V!DisplayEnds \/ V!DisplayClosed
    BY <2>0, <2>3 DEF V!DisplayEnds, V!Return, V!DisplayClosed, V!source,
       V!decodeVars, V!mainVars, PlacesOK, V!Pos
  <2> QED BY <1>2, <2>1, <2>2, <2>3 DEF V!Display
<1>3. ASSUME V!Script PROVE PlacesOK'
  <2>0. /\ UNCHANGED <<noDisplay, inDisplay>>
        /\ raced' = (raced /\ IF mpc = "closed" THEN V!Live > 0
                             ELSE playing' = playing)
    BY <1>3 DEF V!Script, V!mainVars
  <2>1. CASE V!Open \/ V!OpenTwice \/ V!Closed
    BY <2>0, <2>1 DEF V!Open, V!OpenTwice, V!NoTimer, V!Start, V!MayCall,
       V!Goes, V!Calls, V!Closed, V!Back, V!source, V!decodeVars, V!mainVars,
       PlacesOK, V!Pos
  <2>2. CASE V!Play \/ V!PlayLater \/ V!NextFrame
    BY <2>0, <2>2 DEF V!Play, V!Calls, V!MayCall, V!Goes, V!PlayLater, V!Back,
       V!NextFrame, V!source, V!decodeVars, V!mainVars, PlacesOK, V!Pos
  <2>3. CASE V!Pause \/ V!PauseClear \/ V!SetSize \/ V!Close \/ V!OnMessage
    BY <2>0, <2>3 DEF V!Pause, V!PauseClear, V!Back, V!NoTimer, V!ClearAll,
       V!ClearTimers, V!Calls, V!MayCall, V!SetSize, V!Close, V!CloseAsked,
       V!Goes, V!OnMessage, V!source, V!decodeVars, V!mainVars, PlacesOK, V!Pos
  <2>4. CASE SomeSeek \/ V!Stop
    BY <2>0, <2>4 DEF SomeSeek, V!Seek, V!AskSeek, V!MayCall, V!Sought, V!Goes,
       V!Stop, V!Calls, V!source, V!decodeVars, V!mainVars, PlacesOK, V!Pos
  <2>5. CASE V!SeekFlush \/ V!StopFlush
    BY <2>0, <2>5 DEF V!SeekFlush, V!Meet, V!InProcess, V!Back, V!StopFlush,
       V!source, V!decodeVars, V!mainVars, PlacesOK, V!Pos
  <2>6. CASE V!ClosingStep
    BY <2>0, <2>6 DEF V!ClosingStep, V!CloseLock, V!CloseSignal, V!CloseJoin,
       V!Locked, V!source, V!decodeVars, V!mainVars, PlacesOK, V!Pos
  <2> QED BY <1>3, <2>1, <2>2, <2>3, <2>4, <2>5, <2>6 DEF V!Script,
             V!SeekFrame, SomeSeek
<1>4. ASSUME NEW c \in VCond, V!Condition(c) PROVE PlacesOK'
  BY <1>4 DEF V!Condition, V!source, V!decodeVars, V!mainVars, PlacesOK, V!Pos
<1> QED BY <1>1, <1>2, <1>3, <1>4 DEF V!Next, VCond

\* The places of timers stay in the ring, whichever of them goes on.
LEMMA TimersKeep ==
    ASSUME TimersOK, V!Next
    PROVE  TimersOK'
<1>1. ASSUME V!DecodeThread PROVE TimersOK'
  <2>0. UNCHANGED <<inDisplay, mpc, inHandler, frame, reopen>>
    BY <1>1 DEF V!DecodeThread, V!mainVars
  <2>1. CASE V!Ready
    BY <2>0, <2>1, Places DEF V!Ready, V!NewTimer, V!NoTimer, V!timerVars,
       TimersOK
  <2>2. CASE (V!Lock \/ V!OpenInitInternal \/ V!Unlock) /\ UNCHANGED raced
    BY <2>0, <2>2, Places DEF V!Lock, V!OpenInitInternal, V!Unlock,
       V!timerVars, TimersOK
  <2>3. CASE (V!SeekInternal \/ V!Seeked \/ V!Buffer) /\ UNCHANGED raced
    BY <2>0, <2>3, Places DEF V!SeekInternal, V!Seeked, V!Buffer, V!timerVars,
       TimersOK
  <2>4. CASE (V!Resize \/ V!Resized \/ V!ProcessPacket \/ V!ProcessEnds
             \/ V!ProcessFrame) /\ UNCHANGED raced
    BY <2>0, <2>4, Places DEF V!Resize, V!Resized, V!ProcessPacket,
       V!ProcessEnds, V!ProcessFrame, V!timerVars, TimersOK
  <2> QED BY <1>1, <2>1, <2>2, <2>3, <2>4 DEF V!DecodeThread
<1>2. ASSUME V!Display PROVE TimersOK'
  <2>0. UNCHANGED <<V!openVars, V!closing, doSeek, doSetSize, noDisplay,
                   V!source, framesIdx, V!decodeVars, inHandler, reopen,
                   raced>>
    BY <1>2 DEF V!Display, V!mainVars
  <2>1. CASE V!TimerFires \/ V!DropFrame
    BY <2>0, <2>1, Places DEF V!TimerFires, V!Enter, V!DropFrame, V!timerVars,
       TimersOK
  <2>2. CASE V!DisplayNothing \/ V!ShowFrame
    BY <2>0, <2>2, Places DEF V!DisplayNothing, V!Schedule, V!NewTimer,
       V!ShowFrame, V!NoTimer, V!timerVars, TimersOK
  <2>3. CASE V!DisplayEnds \/ V!DisplayClosed
    BY <2>0, <2>3, Places DEF V!DisplayEnds, V!NoTimer, V!DisplayClosed,
       V!timerVars, TimersOK
  <2> QED BY <1>2, <2>1, <2>2, <2>3 DEF V!Display
<1>3. ASSUME V!Script PROVE TimersOK'
  <2>0. /\ UNCHANGED <<noDisplay, inDisplay>>
        /\ raced' = (raced /\ IF mpc = "closed" THEN V!Live > 0
                             ELSE playing' = playing)
    BY <1>3 DEF V!Script, V!mainVars
  <2>1. CASE V!Open \/ V!OpenTwice \/ V!Closed
    BY <2>0, <2>1, Places DEF V!Open, V!OpenTwice, V!Calls, V!MayCall,
       V!NoTimer, V!Start, V!ClearAll, V!ClearTimers, V!Closed, V!timerVars,
       TimersOK
  <2>2. CASE V!Play \/ V!PlayLater \/ V!NextFrame
    BY <2>0, <2>2, Places DEF V!Play, V!Schedule, V!NewTimer, V!NoTimer,
       V!PlayLater, V!NextFrame, V!timerVars, TimersOK
  <2>3. CASE V!Pause \/ V!PauseClear \/ V!SetSize \/ V!Close \/ V!OnMessage
    BY <2>0, <2>3, Places DEF V!Pause, V!PauseClear, V!Goes, V!Back, V!Calls,
       V!MayCall, V!ClearAll, V!ClearTimers, V!SetSize, V!NoTimer, V!Close,
       V!CloseAsked, V!OnMessage, V!timerVars, TimersOK
  <2>4. CASE SomeSeek \/ V!Stop
    BY <2>0, <2>4, Places DEF SomeSeek, V!Seek, V!AskSeek, V!ClearAll,
       V!ClearTimers, V!Stop, V!timerVars, TimersOK
  <2>5. CASE V!SeekFlush \/ V!StopFlush
    BY <2>0, <2>5, Places DEF V!SeekFlush, V!Schedule, V!NewTimer, V!StopFlush,
       V!ClearAll, V!ClearTimers, V!timerVars, TimersOK
  <2>6. CASE V!ClosingStep
    BY <2>0, <2>6, Places DEF V!ClosingStep, V!timerVars, TimersOK
  <2> QED BY <1>3, <2>1, <2>2, <2>3, <2>4, <2>5, <2>6 DEF V!Script,
             V!SeekFrame, SomeSeek
<1>4. ASSUME NEW c \in VCond, V!Condition(c) PROVE TimersOK'
  BY <1>4, Places DEF V!Condition, V!timerVars, TimersOK
<1> QED BY <1>1, <1>2, <1>3, <1>4 DEF V!Next, VCond

-----------------------------------------------------------------------------
(* The two threads. *)

\* The threads keep to their places.
LEMMA ThreadsKeep ==
    ASSUME FlagsOK, PlacesOK, ThreadInv, V!Next
    PROVE  ThreadInv'
<1>1. ASSUME V!DecodeThread PROVE ThreadInv'
  <2>0. UNCHANGED <<inDisplay, mpc, inHandler, frame, reopen>>
    BY <1>1 DEF V!DecodeThread, V!mainVars
  <2>1. CASE V!Ready
    BY <2>0, <2>1 DEF V!Ready, V!openVars, V!closing, V!sizeVars, V!decodeVars,
       V!mainVars, ThreadInv, Closing
  <2>2. CASE (V!Lock \/ V!OpenInitInternal \/ V!Unlock) /\ UNCHANGED raced
    BY <2>0, <2>2 DEF V!Lock, V!OpenInitInternal, V!Unlock, V!openVars,
       V!closing, V!sizeVars, V!decodeVars, V!mainVars, ThreadInv, Closing
  <2>3. CASE V!SeekInternal /\ UNCHANGED raced
    BY <2>0, <2>3 DEF V!SeekInternal, V!openVars, V!closing, V!sizeVars,
       V!decodeVars, V!mainVars, ThreadInv, Closing
  <2>4. CASE V!Seeked /\ UNCHANGED raced
    BY <2>0, <2>4 DEF V!Seeked, V!openVars, V!closing, V!sizeVars,
       V!decodeVars, V!mainVars, ThreadInv, Closing
  <2>5. CASE V!Buffer /\ UNCHANGED raced
    BY <2>0, <2>5 DEF V!Buffer, V!openVars, V!closing, V!sizeVars,
       V!decodeVars, V!mainVars, ThreadInv, Closing
  <2>6. CASE (V!Resize \/ V!Resized \/ V!ProcessPacket \/ V!ProcessEnds
             \/ V!ProcessFrame) /\ UNCHANGED raced
    BY <2>0, <2>6 DEF V!Resize, V!Resized, V!ProcessPacket, V!ProcessEnds,
       V!ProcessFrame, V!openVars, V!closing, V!sizeVars, V!decodeVars,
       V!mainVars, ThreadInv, Closing
  <2> QED BY <1>1, <2>1, <2>2, <2>3, <2>4, <2>5, <2>6 DEF V!DecodeThread
<1>2. ASSUME V!Display PROVE ThreadInv'
  <2>0. UNCHANGED <<V!openVars, V!closing, doSeek, doSetSize, noDisplay,
                   V!source, framesIdx, V!decodeVars, inHandler, reopen,
                   raced>>
    BY <1>2 DEF V!Display, V!mainVars
  <2>1. CASE V!TimerFires \/ V!DropFrame
    BY <2>0, <2>1 DEF V!TimerFires, V!Enter, V!DropFrame, V!openVars,
       V!closing, V!sizeVars, V!decodeVars, V!mainVars, ThreadInv, Closing
  <2>2. CASE V!DisplayNothing \/ V!ShowFrame
    BY <2>0, <2>2 DEF V!DisplayNothing, V!Return, V!ShowFrame, V!openVars,
       V!closing, V!sizeVars, V!decodeVars, V!mainVars, ThreadInv, Closing
  <2>3. CASE V!DisplayEnds \/ V!DisplayClosed
    BY <2>0, <2>3 DEF V!DisplayEnds, V!Return, V!DisplayClosed, V!openVars,
       V!closing, V!sizeVars, V!decodeVars, V!mainVars, ThreadInv, Closing
  <2> QED BY <1>2, <2>1, <2>2, <2>3 DEF V!Display
<1>3. ASSUME V!Script PROVE ThreadInv'
  <2>0. /\ UNCHANGED <<noDisplay, inDisplay>>
        /\ raced' = (raced /\ IF mpc = "closed" THEN V!Live > 0
                             ELSE playing' = playing)
    BY <1>3 DEF V!Script, V!mainVars
  <2>1. CASE V!Open \/ V!OpenTwice \/ V!Closed
    <3>1. CASE V!Open
      BY <2>0, <3>1 DEF V!Open, V!Start, V!MayCall, V!Goes, V!Calls,
         V!openVars, V!closing, V!decodeVars, ThreadInv, Closing
    <3>2. CASE V!OpenTwice
      <4>1. /\ mpc \in {"idle", "frame"} /\ mpc' = "twoThreads"
            /\ inHandler' = (mpc = "frame")
            /\ UNCHANGED <<opened, playing, shutdown, vpc, inDisplay>>
        BY <2>0, <3>2 DEF V!OpenTwice, V!MayCall, V!Goes, V!Calls, V!openVars,
           V!closing, V!decodeVars
      <4> QED BY <4>1 DEF ThreadInv, Closing
    <3>3. CASE V!Closed
      BY <2>0, <3>3 DEF V!Closed, V!Back, V!closing, ThreadInv, Closing
    <3> QED BY <2>1, <3>1, <3>2, <3>3
  <2>2. CASE V!Play
    BY <2>0, <2>2 DEF V!Play, V!Calls, V!MayCall, V!Goes, V!openVars,
       V!closing, V!sizeVars, V!decodeVars, V!mainVars, ThreadInv, Closing
  <2>3. CASE V!PlayLater
    BY <2>0, <2>3 DEF V!PlayLater, V!Back, V!openVars, V!closing, V!sizeVars,
       V!decodeVars, V!mainVars, ThreadInv, Closing
  <2>4. CASE V!NextFrame
    BY <2>0, <2>4 DEF V!NextFrame, V!Calls, V!MayCall, V!openVars, V!closing,
       V!sizeVars, V!decodeVars, V!mainVars, ThreadInv, Closing
  <2>5. CASE V!Pause \/ V!PauseClear
    <3>1. CASE V!Pause
      <4>1. /\ mpc \in {"idle", "frame"} /\ mpc' = "pauseClear"
            /\ inHandler' = (mpc = "frame") /\ ~playing'
            /\ UNCHANGED <<opened, shutdown, vpc, inDisplay>>
        BY <2>0, <3>1 DEF V!Pause, V!MayCall, V!Goes, V!Calls, V!closing,
           V!decodeVars
      <4> QED BY <4>1 DEF ThreadInv, Closing
    <3>2. CASE V!PauseClear
      BY <2>0, <3>2 DEF V!PauseClear, V!Back, V!openVars, V!closing,
         V!decodeVars, ThreadInv, Closing
    <3> QED BY <2>5, <3>1, <3>2
  <2>6. CASE V!SetSize
    BY <2>0, <2>6 DEF V!SetSize, V!Calls, V!MayCall, V!openVars, V!closing,
       V!sizeVars, V!decodeVars, V!mainVars, ThreadInv, Closing
  <2>7. CASE V!Close
    BY <2>0, <2>7 DEF V!Close, V!Calls, V!MayCall, V!CloseAsked, V!Goes,
       V!openVars, V!closing, V!sizeVars, V!decodeVars, V!mainVars, ThreadInv,
       Closing
  <2>8. CASE V!OnMessage
    <3>1. /\ mpc = "idle" /\ mpc' = "closeLock" /\ ~inHandler' /\ ~playing'
          /\ UNCHANGED <<opened, shutdown, vpc, inDisplay>>
      BY <2>0, <2>8 DEF V!OnMessage, V!CloseAsked, V!Goes, V!decodeVars
    <3> QED BY <3>1 DEF ThreadInv, Closing
  <2>9. CASE SomeSeek
    <3>1. /\ mpc \in {"idle", "frame"} /\ opened /\ mpc' = "seekFlush"
          /\ inHandler' = (mpc = "frame")
          /\ UNCHANGED <<V!openVars, V!closing, vpc>>
      BY <2>9 DEF SomeSeek, V!Seek, V!AskSeek, V!MayCall, V!Goes, V!decodeVars
    <3> QED BY <2>0, <3>1 DEF V!openVars, V!closing, ThreadInv, Closing
  <2>10. CASE V!Stop
    BY <2>0, <2>10 DEF V!Stop, V!Calls, V!MayCall, V!AskSeek, V!Goes,
       V!openVars, V!closing, V!sizeVars, V!decodeVars, V!mainVars, ThreadInv,
       Closing
  <2>11. CASE V!SeekFlush \/ V!StopFlush
    BY <2>0, <2>11 DEF V!SeekFlush, V!Meet, V!InProcess, V!Back, V!StopFlush,
       V!openVars, V!closing, V!sizeVars, V!decodeVars, V!mainVars, ThreadInv,
       Closing
  <2>12. CASE V!ClosingStep
    <3>1. CASE V!CloseLock
      BY <2>0, <2>12, <3>1 DEF V!ClosingStep, V!CloseLock, V!Locked,
         V!openVars, PlacesOK, ThreadInv, Closing
    <3>2. CASE V!CloseSignal
      BY <2>0, <2>12, <3>2 DEF V!ClosingStep, V!CloseSignal, V!openVars,
         ThreadInv, Closing
    <3>3. CASE V!CloseJoin
      BY <2>0, <2>12, <3>3 DEF V!ClosingStep, V!CloseJoin, V!openVars,
         ThreadInv, Closing
    <3> QED BY <2>12, <3>1, <3>2, <3>3 DEF V!ClosingStep
  <2> QED BY <1>3, <2>1, <2>2, <2>3, <2>4, <2>5, <2>6, <2>7, <2>8, <2>9,
       <2>10, <2>11, <2>12 DEF V!Script, V!SeekFrame,
             SomeSeek
<1>4. ASSUME NEW c \in VCond, V!Condition(c) PROVE ThreadInv'
  BY <1>4 DEF V!Condition, V!openVars, V!closing, V!sizeVars, V!decodeVars,
     V!mainVars, ThreadInv, Closing
<1> QED BY <1>1, <1>2, <1>3, <1>4 DEF V!Next, VCond

\* A failed source keeps to that.
LEMMA SourceKeeps ==
    ASSUME OpenOK, ThreadInv, SourceInv, V!Next
    PROVE  SourceInv'
<1>1. ASSUME V!DecodeThread PROVE SourceInv'
  <2>0. UNCHANGED <<mpc, inHandler>>
    BY <1>1 DEF V!DecodeThread, V!mainVars
  <2>1. CASE V!Ready
    BY <2>0, <2>1 DEF V!Ready, V!closing, SourceInv
  <2>2. CASE V!Lock
    <3>1. /\ UNCHANGED <<opened, container, closeMsg>>
          /\ vpc \in {"lock", "wait"}
          /\ doOpen' => doOpen
          /\ vpc' = "open" => ~opened /\ ~doOpen'
          /\ ~opened /\ ~doOpen => vpc' \in {"exited", "unlock"}
      BY <2>2 DEF V!Lock, OpenOK
    <3> QED BY <2>0, <3>1 DEF SourceInv
  <2>3. CASE V!OpenInitInternal
    BY <2>0, <2>3 DEF V!OpenInitInternal, SourceInv
  <2>4. CASE V!Unlock
    BY <2>0, <2>4 DEF V!Unlock, V!openVars, SourceInv
  <2>5. ASSUME UNCHANGED <<opened, container, doOpen, closeMsg>>,
               vpc \notin {"none", "unlock", "wait", "lock", "exited"},
               vpc' # "open"
        PROVE  SourceInv'
    BY <2>0, <2>5 DEF SourceInv
  <2>6. CASE V!SeekInternal \/ V!Seeked \/ V!Buffer
    BY <2>5, <2>6 DEF V!SeekInternal, V!Seeked, V!Buffer, V!openVars, V!closing
  <2>7. CASE V!Resize \/ V!Resized \/ V!ProcessPacket \/ V!ProcessEnds
             \/ V!ProcessFrame
    BY <2>5, <2>7 DEF V!Resize, V!Resized, V!ProcessPacket, V!ProcessEnds,
       V!ProcessFrame, V!openVars, V!closing
  <2> QED BY <1>1, <2>1, <2>2, <2>3, <2>4, <2>6, <2>7 DEF V!DecodeThread
<1>2. ASSUME UNCHANGED <<opened, container, doOpen, closeMsg, vpc>>,
             mpc' # "twoThreads", mpc \in Closing => mpc' \in Closing
      PROVE  SourceInv'
  BY <1>2 DEF SourceInv
<1>3. ASSUME V!Display PROVE SourceInv'
  BY <1>2, <1>3 DEF V!Display, V!TimerFires, V!Enter, V!DisplayNothing,
     V!Return, V!DropFrame, V!ShowFrame, V!DisplayEnds, V!DisplayClosed,
     V!openVars, V!closing, V!decodeVars, Closing
<1>4. ASSUME V!Script PROVE SourceInv'
  <2>1. CASE V!Open
    BY <2>1 DEF V!Open, V!Start, V!MayCall, V!Goes, V!openVars, V!closing,
       V!decodeVars, SourceInv, Closing
  <2>2. CASE V!OpenTwice
    BY <2>2 DEF V!OpenTwice, V!Goes, V!Calls, V!MayCall, V!openVars,
       V!closing, V!decodeVars, SourceInv, Closing
  <2>3. CASE V!Closed
    BY <2>3 DEF V!Closed, V!Back, V!closing, ThreadInv, SourceInv, Closing
  <2>4. CASE V!ClosingStep
    BY <2>4 DEF V!ClosingStep, V!CloseLock, V!CloseSignal, V!CloseJoin,
       V!openVars, SourceInv, Closing
  <2>5. CASE V!Close \/ V!OnMessage
    BY <2>5 DEF V!Close, V!OnMessage, V!CloseAsked, V!Goes, V!Calls,
       V!MayCall, V!openVars, V!decodeVars, SourceInv, Closing
  <2>6. CASE V!Play \/ V!PlayLater \/ V!NextFrame
    BY <1>2, <2>6 DEF V!Play, V!PlayLater, V!NextFrame, V!Goes, V!Back,
       V!Calls, V!MayCall, V!closing, V!openVars, V!decodeVars, Closing
  <2>7. CASE V!Pause \/ V!PauseClear \/ V!SetSize
    BY <1>2, <2>7 DEF V!Pause, V!PauseClear, V!SetSize, V!Goes, V!Back,
       V!Calls, V!MayCall, V!closing, V!openVars, V!decodeVars, Closing
  <2>8. CASE SomeSeek \/ V!Stop
    BY <1>2, <2>8 DEF SomeSeek, V!Seek, V!Stop, V!AskSeek, V!Goes, V!Calls,
       V!MayCall, V!closing, V!openVars, V!decodeVars, Closing
  <2>9. CASE V!SeekFlush \/ V!StopFlush
    BY <1>2, <2>9 DEF V!SeekFlush, V!StopFlush, V!Back, V!closing, V!openVars,
       V!decodeVars, Closing
  <2> QED BY <1>4, <2>1, <2>2, <2>3, <2>4, <2>5, <2>6, <2>7, <2>8, <2>9
          DEF V!Script, V!SeekFrame, SomeSeek
<1>5. ASSUME NEW c \in VCond, V!Condition(c) PROVE SourceInv'
  BY <1>5 DEF V!Condition, V!openVars, V!closing, V!decodeVars, V!mainVars,
     SourceInv
<1> QED BY <1>1, <1>3, <1>4, <1>5 DEF V!Next, VCond

\* A seek comes to its end.
LEMMA SeeksKeep ==
    ASSUME PlacesOK, ThreadInv, SeekInv, V!Next
    PROVE  SeekInv'
<1>1. ASSUME V!DecodeThread PROVE SeekInv'
  <2>0. UNCHANGED <<inDisplay, mpc, inHandler, frame, reopen>>
    BY <1>1 DEF V!DecodeThread, V!mainVars
  <2>1. CASE V!Ready
    BY <2>0, <2>1 DEF V!Ready, V!source, V!decodeVars, V!mainVars, SeekInv,
       V!Sought, V!InProcess
  <2>2. CASE (V!Lock \/ V!OpenInitInternal \/ V!Unlock) /\ UNCHANGED raced
    BY <2>0, <2>2 DEF V!Lock, V!Sought, V!OpenInitInternal, V!Unlock, V!source,
       V!decodeVars, V!mainVars, SeekInv, V!InProcess
  <2>3. CASE V!SeekInternal /\ UNCHANGED raced
    BY <2>0, <2>3 DEF V!SeekInternal, V!source, V!decodeVars, V!mainVars,
       SeekInv, V!Sought, V!InProcess
  <2>4. CASE (V!Seeked \/ V!Buffer) /\ UNCHANGED raced
    BY <2>0, <2>4 DEF V!Seeked, V!Buffer, V!Sought, V!source, V!decodeVars,
       V!mainVars, SeekInv, V!InProcess
  <2>5. CASE (V!Resize \/ V!Resized \/ V!ProcessPacket
             \/ V!ProcessEnds) /\ UNCHANGED raced
    BY <2>0, <2>5 DEF V!Resize, V!Resized, V!ProcessPacket, V!ProcessEnds,
       V!source, V!decodeVars, V!mainVars, SeekInv, V!Sought, V!InProcess
  <2>6. CASE V!ProcessFrame /\ UNCHANGED raced
    BY <2>0, <2>6 DEF V!ProcessFrame, V!source, V!decodeVars, V!mainVars,
       SeekInv, V!Sought, V!InProcess
  <2> QED BY <1>1, <2>1, <2>2, <2>3, <2>4, <2>5, <2>6 DEF V!DecodeThread
<1>2. ASSUME V!Display PROVE SeekInv'
  <2>0. UNCHANGED <<V!openVars, V!closing, doSeek, doSetSize, noDisplay,
                   V!source, framesIdx, V!decodeVars, inHandler, reopen,
                   raced>>
    BY <1>2 DEF V!Display, V!mainVars
  <2>1. CASE V!TimerFires \/ V!DropFrame
    BY <2>0, <2>1 DEF V!TimerFires, V!Enter, V!DropFrame, V!source,
       V!decodeVars, V!mainVars, SeekInv, V!Sought, V!InProcess
  <2>2. CASE V!DisplayNothing \/ V!ShowFrame
    BY <2>0, <2>2 DEF V!DisplayNothing, V!Return, V!ShowFrame, V!source,
       V!decodeVars, V!mainVars, SeekInv, V!Sought, V!InProcess
  <2>3. CASE V!DisplayEnds \/ V!DisplayClosed
    BY <2>0, <2>3 DEF V!DisplayEnds, V!Return, V!DisplayClosed, V!source,
       V!decodeVars, V!mainVars, SeekInv, V!Sought, V!InProcess
  <2> QED BY <1>2, <2>1, <2>2, <2>3 DEF V!Display
<1>3. ASSUME V!Script PROVE SeekInv'
  <2>0. /\ UNCHANGED <<noDisplay, inDisplay>>
        /\ raced' = (raced /\ IF mpc = "closed" THEN V!Live > 0
                             ELSE playing' = playing)
    BY <1>3 DEF V!Script, V!mainVars
  <2>1. CASE V!Open \/ V!OpenTwice \/ V!Closed
    BY <2>0, <2>1 DEF V!Open, V!OpenTwice, V!NoTimer, V!Start, V!MayCall,
       V!Goes, V!Calls, V!Closed, V!Back, V!source, V!decodeVars, V!mainVars,
       PlacesOK, ThreadInv, Closing, SeekInv, V!Sought, V!InProcess
  <2>2. CASE V!Play \/ V!PlayLater \/ V!NextFrame
    BY <2>0, <2>2 DEF V!Play, V!Calls, V!MayCall, V!Goes, V!PlayLater, V!Back,
       V!NextFrame, V!source, V!decodeVars, V!mainVars, SeekInv, V!Sought,
       V!InProcess
  <2>3. CASE V!Pause \/ V!PauseClear \/ V!SetSize \/ V!Close \/ V!OnMessage
    BY <2>0, <2>3 DEF V!Pause, V!PauseClear, V!Back, V!NoTimer, V!ClearAll,
       V!ClearTimers, V!Calls, V!MayCall, V!SetSize, V!Close, V!CloseAsked,
       V!Goes, V!OnMessage, V!source, V!decodeVars, V!mainVars, SeekInv,
       V!Sought, V!InProcess
  <2>4. CASE SomeSeek \/ V!Stop
    BY <2>0, <2>4 DEF SomeSeek, V!Seek, V!AskSeek, V!MayCall, V!Sought, V!Goes,
       V!Stop, V!Calls, V!source, V!decodeVars, V!mainVars, SeekInv,
       V!InProcess
  <2>5. CASE V!SeekFlush \/ V!StopFlush
    BY <2>0, <2>5 DEF V!SeekFlush, V!Meet, V!InProcess, V!Back, V!StopFlush,
       V!source, V!decodeVars, V!mainVars, SeekInv, V!Sought
  <2>6. CASE V!ClosingStep
    BY <2>0, <2>6 DEF V!ClosingStep, V!CloseLock, V!CloseSignal, V!CloseJoin,
       V!Locked, V!source, V!decodeVars, V!mainVars, SeekInv, V!Sought,
       V!InProcess
  <2> QED BY <1>3, <2>1, <2>2, <2>3, <2>4, <2>5, <2>6 DEF V!Script,
             V!SeekFrame, SomeSeek
<1>4. ASSUME NEW c \in VCond, V!Condition(c) PROVE SeekInv'
  BY <1>4 DEF V!Condition, V!source, V!decodeVars, V!mainVars, SeekInv,
     V!Sought, V!InProcess
<1> QED BY <1>1, <1>2, <1>3, <1>4 DEF V!Next, VCond

-----------------------------------------------------------------------------
(* The ring buffer, the timers and the signals. *)

\* Every write, read, seek and flush keeps the frames in their places.
LEMMA RingKeeps ==
    ASSUME PlacesOK, BuffersOK, ThreadInv, SeekInv, RingInv, V!Next
    PROVE  (BuffersOK /\ RingInv)'
<1>1. ASSUME V!DecodeThread PROVE (BuffersOK /\ RingInv)'
  <2>0. UNCHANGED <<inDisplay, mpc, inHandler, frame, reopen>>
    BY <1>1 DEF V!DecodeThread, V!mainVars
  <2>1. CASE V!Ready
    BY <2>0, <2>1, VideoAssumption, Places DEF V!Ready, V!source, V!buffers,
       V!decodeVars, V!mainVars, BuffersOK, RingInv, V!Sought, V!InProcess
  <2>2. CASE V!Lock /\ UNCHANGED raced
    BY <2>0, <2>2, VideoAssumption, Places DEF V!Lock, V!Sought, V!source,
       V!buffers, V!decodeVars, V!mainVars, BuffersOK, RingInv, V!InProcess
  <2>3. CASE V!OpenInitInternal /\ UNCHANGED raced
    BY <2>0, <2>3, VideoAssumption, Places DEF V!OpenInitInternal, V!source,
       V!buffers, V!decodeVars, V!mainVars, BuffersOK, RingInv, V!Sought,
       V!InProcess
  <2>4. CASE V!SeekInternal /\ UNCHANGED raced
    <3>1. /\ UNCHANGED <<ring, framesIdx>> /\ vpc = "seek"
          /\ packets' \in 0..MaxPackets
          /\ doSeek' \in {doSeek, "no"}
          /\ vpc' \in {"previous", "process", "seeked"}
          /\ slot' \in {slot, framesIdx}
          /\ vpc' = "previous" => slot' = framesIdx
      <4>1. packets' \in 0..MaxPackets
        <5>1. packets' \in 1..MaxPackets \/ packets' = 0
              \/ packets' \in 0..MaxPackets
          BY <2>4, Zenon DEF V!SeekInternal
        <5> QED BY <5>1, VideoAssumption
      <4>2. /\ UNCHANGED <<ring, framesIdx>> /\ vpc = "seek"
            /\ doSeek' \in {doSeek, "no"}
            /\ vpc' \in {"previous", "process", "seeked"}
            /\ slot' \in {slot, framesIdx}
            /\ vpc' = "previous" => slot' = framesIdx
        BY <2>4 DEF V!SeekInternal, V!buffers
      <4> QED BY <4>1, <4>2
    <3> QED BY <2>0, <3>1 DEF BuffersOK, RingInv, V!Sought
  <2>5. CASE V!Seeked /\ UNCHANGED raced
    BY <2>0, <2>5, VideoAssumption, Places DEF V!Seeked, V!source, V!buffers,
       V!decodeVars, V!mainVars, BuffersOK, RingInv, V!Sought, V!InProcess
  <2>6. CASE V!Buffer /\ UNCHANGED raced
    BY <2>0, <2>6, VideoAssumption, Places DEF V!Buffer, V!Sought, V!source,
       V!buffers, V!decodeVars, V!mainVars, BuffersOK, RingInv, V!InProcess
  <2>7. CASE V!Resize /\ UNCHANGED raced
    BY <2>0, <2>7, VideoAssumption, Places DEF V!Resize, V!source, V!buffers,
       V!decodeVars, V!mainVars, BuffersOK, RingInv, V!Sought, V!InProcess
  <2>8. CASE V!Resized /\ UNCHANGED raced
    BY <2>0, <2>8, VideoAssumption, Places DEF V!Resized, V!source, V!buffers,
       V!decodeVars, V!mainVars, BuffersOK, RingInv, V!Sought, V!InProcess
  <2>9. CASE V!ProcessPacket /\ UNCHANGED raced
    BY <2>0, <2>9, VideoAssumption, Places DEF V!ProcessPacket, V!HasSpace,
       V!source, V!buffers, V!decodeVars, V!mainVars, BuffersOK, RingInv,
       V!Sought, V!InProcess
  <2>10. CASE V!ProcessEnds /\ UNCHANGED raced
    BY <2>0, <2>10, VideoAssumption, Places DEF V!ProcessEnds, V!HasSpace,
       V!source, V!buffers, V!decodeVars, V!mainVars, BuffersOK, RingInv,
       V!Sought, V!InProcess
  <2>11. CASE V!ProcessFrame /\ UNCHANGED raced
    <3> DEFINE f == [slot |-> slot, of |-> pos]
    <3>1. /\ vpc \in {"write", "previous"} /\ vpc' = "process"
          /\ slot' = 0 /\ framesIdx' = V!NextSlot(framesIdx)
          /\ ring' = IF V!HasSpace THEN Append(ring, f) ELSE ring
          /\ vpc = "previous" => doSeek' = "no"
          /\ vpc # "previous" => doSeek' = doSeek
          /\ UNCHANGED <<pos, packets>>
      BY <2>11 DEF V!ProcessFrame, V!source
    <3>2. /\ f \in Frame /\ f.slot = slot /\ f.of = pos
          /\ framesIdx \in V!Slot /\ framesIdx' \in V!Slot /\ slot' \in V!Slot
          /\ ring \in Seq(Frame)
      BY <3>1, Places DEF BuffersOK, PlacesOK, Frame
    <3>3. /\ vpc = "write" => V!HasSpace
          /\ slot # framesIdx => None("sought", ring) /\ pos # "sought"
          /\ vpc = "previous" => None("sought", ring)
          /\ pos = "before" => mpc \in {"seekFlush", "stopSeek"}
          /\ V!Sought /\ vpc = "write" => pos # "sought"
      BY <3>1, RingEmpty DEF RingInv, SeekInv, V!Sought, V!InProcess,
         V!HasSpace, V!Pos
    <3> HIDE DEF f
    <3>4. CASE V!HasSpace
      <4>1. /\ ring' \in Seq(Frame) /\ Len(ring') = Len(ring) + 1
            /\ \A p \in V!Pos : None(p, ring) /\ pos # p => None(p, ring')
            /\ Chain(ring', framesIdx')
        BY <3>1, <3>2, <3>3, <3>4, RingWrite DEF RingInv, V!HasSpace
      <4>2. Len(ring') <= Samples
        BY <3>2, <3>4, <4>1, VideoAssumption DEF V!HasSpace
      <4> QED BY <2>0, <3>1, <3>2, <3>3, <4>1, <4>2 DEF BuffersOK, RingInv,
                 V!Sought, V!Pos
    <3>5. CASE ~V!HasSpace
      <4>1. Chain(ring', framesIdx')
        BY <3>1, <3>2, <3>3, <3>5, RingSkips
      <4> QED BY <2>0, <3>1, <3>2, <3>3, <3>5, <4>1 DEF BuffersOK, RingInv,
                 V!Sought
    <3> QED BY <3>4, <3>5
  <2>12. CASE V!Unlock /\ UNCHANGED raced
    BY <2>0, <2>12, VideoAssumption, Places DEF V!Unlock, V!Sought, V!source,
       V!buffers, V!decodeVars, V!mainVars, BuffersOK, RingInv, V!InProcess
  <2> QED BY <1>1, <2>1, <2>2, <2>3, <2>4, <2>5, <2>6, <2>7, <2>8, <2>9,
       <2>10, <2>11, <2>12 DEF V!DecodeThread
<1>2. ASSUME V!Display PROVE (BuffersOK /\ RingInv)'
  <2>0. UNCHANGED <<V!openVars, V!closing, doSeek, doSetSize, noDisplay,
                   V!source, framesIdx, V!decodeVars, inHandler, reopen,
                   raced>>
    BY <1>2 DEF V!Display, V!mainVars
  <2>1. CASE V!TimerFires
    BY <2>0, <2>1, VideoAssumption, Places DEF V!TimerFires, V!Enter, V!source,
       V!buffers, V!decodeVars, V!mainVars, BuffersOK, RingInv, V!Sought,
       V!InProcess
  <2>2. CASE V!DisplayNothing
    BY <2>0, <2>2, VideoAssumption, Places DEF V!DisplayNothing, V!Return,
       V!source, V!buffers, V!decodeVars, V!mainVars, BuffersOK, RingInv,
       V!Sought, V!InProcess
  <2>3. CASE V!DropFrame
    <3>1. /\ ring # <<>> /\ ring' = Tail(ring)
          /\ mpc = "display" /\ mpc' = "display"
      BY <2>3 DEF V!DropFrame, V!Enter
    <3>2. /\ Tail(ring) \in Seq(Frame) /\ Len(Tail(ring)) <= Len(ring)
          /\ Len(ring) \in Nat /\ Len(Tail(ring)) \in Nat
          /\ Chain(Tail(ring), framesIdx)
          /\ \A p \in V!Pos : None(p, ring) => None(p, Tail(ring))
      BY <3>1, FramesTail, RingRead DEF BuffersOK, RingInv
    <3> QED BY <2>0, <3>1, <3>2, VideoAssumption DEF BuffersOK, RingInv,
               V!decodeVars, V!source, V!Sought, V!Pos, ThreadInv, Closing
  <2>4. CASE V!ShowFrame
    <3>1. /\ ring # <<>> /\ ring' = Tail(ring)
          /\ mpc = "display" /\ mpc' = "frame"
      BY <2>4 DEF V!ShowFrame
    <3>2. /\ Tail(ring) \in Seq(Frame) /\ Len(Tail(ring)) <= Len(ring)
          /\ Len(ring) \in Nat /\ Len(Tail(ring)) \in Nat
          /\ Chain(Tail(ring), framesIdx)
          /\ \A p \in V!Pos : None(p, ring) => None(p, Tail(ring))
                                         /\ Head(ring).of # p
          /\ Head(ring) \in Frame
      BY <3>1, FramesTail, RingRead DEF BuffersOK, RingInv
    <3> QED BY <2>0, <3>1, <3>2, VideoAssumption DEF BuffersOK, RingInv,
               V!decodeVars, V!source, V!Sought, V!Pos, ThreadInv, Closing
  <2>5. CASE V!DisplayEnds
    <3>1. /\ mpc = "frame" /\ mpc' = "idle" /\ ring' = ring
      BY <2>5 DEF V!DisplayEnds, V!Return
    <3> QED BY <2>0, <3>1 DEF BuffersOK, RingInv, V!decodeVars, V!source,
               V!Sought
  <2>6. CASE V!DisplayClosed
    BY <2>0, <2>6, VideoAssumption, Places DEF V!DisplayClosed, V!source,
       V!buffers, V!decodeVars, V!mainVars, BuffersOK, RingInv, V!Sought,
       V!InProcess
  <2> QED BY <1>2, <2>1, <2>2, <2>3, <2>4, <2>5, <2>6 DEF V!Display
<1>3. ASSUME V!Script PROVE (BuffersOK /\ RingInv)'
  <2>0. /\ UNCHANGED <<noDisplay, inDisplay>>
        /\ raced' = (raced /\ IF mpc = "closed" THEN V!Live > 0
                             ELSE playing' = playing)
    BY <1>3 DEF V!Script, V!mainVars
  <2>1. CASE V!Open \/ V!OpenTwice
    BY <2>0, <2>1, VideoAssumption, Places DEF V!Open, V!OpenTwice, V!NoTimer,
       V!Start, V!MayCall, V!Goes, V!Calls, V!source, V!buffers, V!decodeVars,
       V!mainVars, BuffersOK, RingInv, V!Sought, V!InProcess
  <2>2. CASE V!Play
    BY <2>0, <2>2, VideoAssumption, Places DEF V!Play, V!Calls, V!MayCall,
       V!Goes, V!source, V!buffers, V!decodeVars, V!mainVars, BuffersOK,
       RingInv, V!Sought, V!InProcess
  <2>3. CASE V!PlayLater
    BY <2>0, <2>3, VideoAssumption, Places DEF V!PlayLater, V!Back, V!source,
       V!buffers, V!decodeVars, V!mainVars, BuffersOK, RingInv, V!Sought,
       V!InProcess
  <2>4. CASE V!Pause \/ V!PauseClear
    BY <2>0, <2>4, VideoAssumption, Places DEF V!Pause, V!PauseClear, V!Goes,
       V!Back, V!NoTimer, V!ClearAll, V!ClearTimers, V!Calls, V!MayCall,
       V!source, V!buffers, V!decodeVars, V!mainVars, BuffersOK, RingInv,
       V!Sought, V!InProcess
  <2>5. CASE V!SetSize
    BY <2>0, <2>5, VideoAssumption, Places DEF V!SetSize, V!Calls, V!MayCall,
       V!source, V!buffers, V!decodeVars, V!mainVars, BuffersOK, RingInv,
       V!Sought, V!InProcess
  <2>6. CASE SomeSeek
    <3>1. /\ doSeek' \in {"exact", "keyframe", "previous"}
          /\ ring' = V!Stale(ring)
          /\ pos' \in {"any", "before"} /\ mpc' \in {"seekFlush", "stopSeek"}
          /\ mpc \in {"idle", "frame"} /\ ~V!Sought
          /\ UNCHANGED <<packets, framesIdx, vpc, slot>>
          /\ inHandler' => mpc = "frame"
      BY <2>6 DEF SomeSeek, V!Seek, V!Stop, V!AskSeek, V!MayCall, V!Calls,
         V!Goes, V!decodeVars
    <3>2. /\ V!Stale(ring) \in Seq(Frame) /\ Len(V!Stale(ring)) = Len(ring)
          /\ Chain(V!Stale(ring), framesIdx) /\ None("sought", V!Stale(ring))
          /\ ring = <<>> => V!Stale(ring) = <<>>
      <4>1. ring \in Seq(Frame) /\ framesIdx \in V!Slot
        BY DEF BuffersOK
      <4> QED BY <4>1, RingStale
    <3>3. ~V!Sought => vpc # "previous"
      BY DEF SeekInv, V!Sought
    <3> QED BY <2>0, <3>1, <3>2, <3>3 DEF BuffersOK, RingInv
  <2>7. CASE V!SeekFlush
    <3>1. /\ ring' = <<>> /\ framesIdx' = 0 /\ packets' \in {packets, 0}
          /\ UNCHANGED <<doSeek, slot>>
          /\ mpc' = "frame" \/ inHandler' => inHandler
          /\ vpc' \in {"write", "previous"} => vpc' = vpc /\ pos' = "any"
      BY <2>7 DEF V!SeekFlush, V!FlushBuffers, V!Meet, V!InProcess, V!Back,
         V!decodeVars
    <3>2. /\ Chain(<<>>, 0) /\ (\A p \in V!Pos : None(p, <<>>)) /\ 0 \in V!Slot
          /\ <<>> \in Seq(Frame) /\ Len(<<>>) = 0
      BY RingEmpty, VideoAssumption DEF V!Slot
    <3> QED BY <2>0, <3>1, <3>2, VideoAssumption DEF BuffersOK, RingInv,
               V!Sought, V!Pos
  <2>8. CASE V!NextFrame
    BY <2>0, <2>8, VideoAssumption, Places DEF V!NextFrame, V!Calls, V!MayCall,
       V!source, V!buffers, V!decodeVars, V!mainVars, BuffersOK, RingInv,
       V!Sought, V!InProcess
  <2>9. CASE V!Stop
    <3>1. CASE opened /\ ~V!Sought
      <4>1. /\ doSeek' \in {"exact", "keyframe", "previous"}
            /\ ring' = V!Stale(ring)
            /\ pos' \in {"any", "before"} /\ mpc' \in {"seekFlush", "stopSeek"}
            /\ mpc \in {"idle", "frame"} /\ ~V!Sought
            /\ UNCHANGED <<packets, framesIdx, vpc, slot>>
            /\ inHandler' => mpc = "frame"
        BY <2>9, <3>1 DEF SomeSeek, V!Seek, V!Stop, V!AskSeek, V!MayCall,
           V!Calls, V!Goes, V!decodeVars
      <4>2. /\ V!Stale(ring) \in Seq(Frame) /\ Len(V!Stale(ring)) = Len(ring)
            /\ Chain(V!Stale(ring), framesIdx) /\ None("sought", V!Stale(ring))
            /\ ring = <<>> => V!Stale(ring) = <<>>
        <5>1. ring \in Seq(Frame) /\ framesIdx \in V!Slot
          BY DEF BuffersOK
        <5> QED BY <5>1, RingStale
      <4>3. ~V!Sought => vpc # "previous"
        BY DEF SeekInv, V!Sought
      <4> QED BY <2>0, <4>1, <4>2, <4>3 DEF BuffersOK, RingInv
    <3>2. CASE ~(opened /\ ~V!Sought)
      <4>1. /\ UNCHANGED <<doSeek, pos, ring, packets, framesIdx, vpc, slot>>
            /\ mpc' = "stopFlush" /\ mpc \in {"idle", "frame"}
            /\ inHandler' => mpc = "frame"
        BY <2>9, <3>2 DEF V!Stop, V!MayCall, V!Calls, V!Goes, V!decodeVars
      <4> QED BY <2>0, <4>1 DEF BuffersOK, RingInv, V!Sought
    <3> QED BY <3>1, <3>2
  <2>10. CASE V!StopFlush
    <3>1. /\ ring' = <<>> /\ framesIdx' = 0 /\ packets' \in {packets, 0}
          /\ UNCHANGED <<doSeek, slot>>
          /\ mpc' = "frame" \/ inHandler' => inHandler
          /\ vpc' \in {"write", "previous"} => vpc' = vpc /\ pos' = "any"
      BY <2>10 DEF V!StopFlush, V!FlushBuffers, V!Meet, V!InProcess, V!Back,
         V!decodeVars
    <3>2. /\ Chain(<<>>, 0) /\ (\A p \in V!Pos : None(p, <<>>)) /\ 0 \in V!Slot
          /\ <<>> \in Seq(Frame) /\ Len(<<>>) = 0
      BY RingEmpty, VideoAssumption DEF V!Slot
    <3> QED BY <2>0, <3>1, <3>2, VideoAssumption DEF BuffersOK, RingInv,
               V!Sought, V!Pos
  <2>11. CASE V!Close
    BY <2>0, <2>11, VideoAssumption, Places DEF V!Close, V!Calls, V!MayCall,
       V!CloseAsked, V!Goes, V!source, V!buffers, V!decodeVars, V!mainVars,
       BuffersOK, RingInv, V!Sought, V!InProcess
  <2>12. CASE V!OnMessage
    BY <2>0, <2>12, VideoAssumption, Places DEF V!OnMessage, V!CloseAsked,
       V!Goes, V!source, V!buffers, V!decodeVars, V!mainVars, BuffersOK,
       RingInv, V!Sought, V!InProcess
  <2>13. CASE V!ClosingStep
    BY <2>0, <2>13, VideoAssumption, Places DEF V!ClosingStep, V!CloseLock,
       V!CloseSignal, V!CloseJoin, V!Locked, V!source, V!buffers, V!decodeVars,
       V!mainVars, BuffersOK, RingInv, V!Sought, V!InProcess
  <2>14. CASE V!Closed
    <3>1. /\ ring' = <<>> /\ framesIdx' = 0 /\ packets' \in {packets, 0}
          /\ UNCHANGED <<doSeek, slot>>
          /\ mpc' = "frame" \/ inHandler' => inHandler
          /\ vpc' \in {"write", "previous"} => vpc' = vpc /\ pos' = "any"
      BY <2>14 DEF V!Closed, V!FlushBuffers, V!Back, ThreadInv
    <3>2. /\ Chain(<<>>, 0) /\ (\A p \in V!Pos : None(p, <<>>)) /\ 0 \in V!Slot
          /\ <<>> \in Seq(Frame) /\ Len(<<>>) = 0
      BY RingEmpty, VideoAssumption DEF V!Slot
    <3> QED BY <2>0, <3>1, <3>2, VideoAssumption DEF BuffersOK, RingInv,
               V!Sought, V!Pos
  <2> QED BY <1>3, <2>1, <2>2, <2>3, <2>4, <2>5, <2>6, <2>7, <2>8, <2>9,
       <2>10, <2>11, <2>12, <2>13, <2>14 DEF V!Script, V!SeekFrame,
             SomeSeek
<1>4. ASSUME NEW c \in {"Buffer", "NotInDisplay"}, V!Condition(c)
      PROVE  (BuffersOK /\ RingInv)'
  BY <1>4, VideoAssumption, Places DEF V!Condition, V!source, V!buffers,
     V!decodeVars, V!mainVars, BuffersOK, RingInv, V!Sought, V!InProcess
<1> QED BY <1>1, <1>2, <1>3, <1>4 DEF V!Next

\* The frame that is shown stays before those that are written meanwhile.
LEMMA FramesKeep ==
    ASSUME PlacesOK, BuffersOK, BuffersOK', ThreadInv, SeekInv, RingInv,
           FrameInv, V!Next
    PROVE  FrameInv'
<1>1. ASSUME V!DecodeThread PROVE FrameInv'
  <2>0. UNCHANGED <<mpc, inHandler, frame>>
    BY <1>1 DEF V!DecodeThread, V!mainVars
  <2>1. ASSUME UNCHANGED <<doSeek, ring, framesIdx>>,
               vpc' = "write" => vpc = "write" /\ UNCHANGED slot
        PROVE  FrameInv'
    BY <2>0, <2>1 DEF FrameInv, Shown, V!Sought
  <2>2. CASE V!Ready
    BY <2>1, <2>2 DEF V!Ready, V!buffers
  <2>3. CASE V!Lock \/ V!OpenInitInternal \/ V!Unlock
    BY <2>1, <2>3 DEF V!Lock, V!OpenInitInternal, V!Unlock, V!buffers
  <2>4. CASE V!SeekInternal \/ V!Seeked
    <3>1. /\ UNCHANGED <<ring, framesIdx>> /\ vpc' # "write"
          /\ doSeek' \in {doSeek, "no"}
      BY <2>4 DEF V!SeekInternal, V!Seeked, V!buffers
    <3> QED BY <2>0, <3>1 DEF FrameInv, Shown, V!Sought
  <2>5. CASE V!Buffer \/ V!Resize \/ V!Resized \/ V!ProcessEnds
    BY <2>1, <2>5 DEF V!Buffer, V!Resize, V!Resized, V!ProcessEnds, V!buffers
  <2>6. CASE V!ProcessPacket
    <3>1. /\ UNCHANGED <<doSeek, ring, framesIdx>>
          /\ vpc' = "write" => slot' = framesIdx
      BY <2>6 DEF V!ProcessPacket, V!buffers
    <3> QED BY <2>0, <3>1 DEF FrameInv, Shown, V!Sought
  <2>7. CASE V!ProcessFrame
    <3> DEFINE f == [slot |-> slot, of |-> pos]
               q == <<frame>> \o ring
    <3>1. /\ vpc \in {"write", "previous"} /\ vpc' = "process"
          /\ framesIdx' = V!NextSlot(framesIdx)
          /\ ring' = IF V!HasSpace THEN Append(ring, f) ELSE ring
          /\ doSeek' \in {doSeek, "no"}
      BY <2>7 DEF V!ProcessFrame
    <3>2. /\ f \in Frame /\ f.slot = slot
          /\ framesIdx \in V!Slot /\ ring \in Seq(Frame)
      BY <3>1 DEF BuffersOK, PlacesOK, Frame
    <3> HIDE DEF f
    <3>3. ASSUME Shown', frame.of = "sought", Len(ring') < Samples
          PROVE  Chain(<<frame>> \o ring', framesIdx')
      <4>1. Shown /\ ~V!Sought
        BY <2>0, <3>3 DEF FrameInv, Shown
      <4>2. vpc = "write" /\ slot = framesIdx
        BY <3>1, <3>3, <4>1 DEF SeekInv, V!Sought, FrameInv
      <4>3. V!HasSpace
        BY <4>2 DEF RingInv, V!HasSpace
      <4>4. ring' = Append(ring, f) /\ Len(ring') = Len(ring) + 1
        BY <3>1, <3>2, <4>3
      <4>5. frame \in Frame
        BY <3>3 DEF FrameInv, V!NoFrame
      <4>6. /\ q \in Seq(Frame) /\ Len(q) = Len(ring) + 1
            /\ <<frame>> \o ring' = Append(q, f)
        BY <3>2, <4>4, <4>5, FrameBefore
      <4>7. Chain(q, framesIdx) /\ Len(q) < Samples
        BY <3>2, <3>3, <4>1, <4>4, <4>6, VideoAssumption DEF FrameInv
      <4> HIDE DEF q
      <4> QED BY <3>1, <3>2, <4>2, <4>6, <4>7, RingWrite
    <3> QED BY <2>0, <3>1, <3>3 DEF FrameInv, Shown, V!Sought
  <2> QED BY <1>1, <2>2, <2>3, <2>4, <2>5, <2>6, <2>7 DEF V!DecodeThread
<1>2. ASSUME V!Display PROVE FrameInv'
  <2>0. ~inHandler \/ mpc = "frame"
    BY <1>2 DEF V!Display, V!TimerFires, V!DisplayNothing, V!DropFrame,
       V!ShowFrame, V!DisplayEnds, V!DisplayClosed, ThreadInv, Closing
  <2>1. /\ UNCHANGED <<doSeek, framesIdx, vpc, slot, inHandler>>
        /\ ~inHandler
    BY <1>2, <2>0 DEF V!Display, V!decodeVars, ThreadInv, Closing
  <2>2. CASE V!ShowFrame
    <3>1. /\ frame' = Head(ring) /\ ring' = Tail(ring) /\ ring # <<>>
          /\ mpc = "display"
      BY <2>2 DEF V!ShowFrame
    <3>2. /\ ring \in Seq(Frame) /\ framesIdx \in V!Slot
          /\ Len(ring) \in Nat /\ Len(Tail(ring)) = Len(ring) - 1
          /\ Head(ring) \in Frame /\ <<Head(ring)>> \o Tail(ring) = ring
      BY <3>1, FramesTail, FrameBefore DEF BuffersOK
    <3>3. \A p \in V!Pos : None(p, ring) => Head(ring).of # p
      BY <3>1, <3>2, RingRead
    <3>4. Head(ring).of # "before"
      BY <3>1, <3>3 DEF RingInv, V!Pos
    <3>5. ASSUME Head(ring).of = "sought"
          PROVE  ~V!Sought /\ (vpc = "write" => slot = framesIdx)
      BY <3>1, <3>3, <3>5 DEF RingInv, V!Pos
    <3> QED BY <2>1, <3>1, <3>2, <3>4, <3>5 DEF FrameInv, RingInv, V!Sought
  <2>3. CASE V!DisplayEnds
    BY <2>1, <2>3 DEF V!DisplayEnds, V!Return, FrameInv, Shown
  <2>4. CASE V!TimerFires \/ V!DisplayNothing \/ V!DropFrame \/ V!DisplayClosed
    BY <2>1, <2>4 DEF V!TimerFires, V!Enter, V!DisplayNothing, V!Return,
       V!DropFrame, V!DisplayClosed, FrameInv, Shown
  <2> QED BY <1>2, <2>2, <2>3, <2>4 DEF V!Display
<1>3. ASSUME V!Script PROVE FrameInv'
  <2>1. ASSUME UNCHANGED frame,
               Shown' => /\ Shown /\ UNCHANGED <<doSeek, ring, framesIdx>>
                         /\ vpc' = "write" => vpc = "write" /\ UNCHANGED slot,
               mpc' = "frame" \/ inHandler' => mpc = "frame" \/ inHandler
        PROVE  FrameInv'
    <3>1. CASE ~Shown'
      BY <2>1, <3>1 DEF FrameInv
    <3>2. CASE Shown'
      <4>1. /\ Shown /\ UNCHANGED <<doSeek, ring, framesIdx, frame>>
            /\ vpc' = "write" => vpc = "write" /\ UNCHANGED slot
        BY <2>1, <3>2
      <4>2. frame.of = "sought" =>
                /\ ~V!Sought'
                /\ vpc' = "write" => slot' = framesIdx'
                /\ Len(ring') < Samples => Chain(<<frame'>> \o ring', framesIdx')
        BY <4>1 DEF FrameInv, V!Sought
      <4> QED BY <2>1, <4>1, <4>2 DEF FrameInv
    <3> QED BY <3>1, <3>2
  <2>2. CASE V!Open \/ V!OpenTwice
    BY <2>1, <2>2 DEF V!Open, V!Start, V!OpenTwice, V!MayCall, V!Calls, V!Goes,
       V!decodeVars, V!buffers, Shown
  <2>3. CASE V!Play \/ V!PlayLater \/ V!NextFrame
    BY <2>1, <2>3 DEF V!Play, V!PlayLater, V!NextFrame, V!Calls, V!MayCall,
       V!Goes, V!Back, V!decodeVars, V!buffers, Shown
  <2>4. CASE V!Pause \/ V!PauseClear \/ V!SetSize
    BY <2>1, <2>4 DEF V!Pause, V!PauseClear, V!SetSize, V!Calls, V!MayCall,
       V!Goes, V!Back, V!decodeVars, V!buffers, Shown
  <2>5. CASE SomeSeek \/ V!Stop \/ V!Close \/ V!OnMessage
    BY <2>1, <2>5 DEF SomeSeek, V!Seek, V!AskSeek, V!Stop, V!Close,
       V!OnMessage, V!CloseAsked, V!Calls, V!MayCall, V!Goes, Shown
  <2>6. CASE V!SeekFlush \/ V!StopFlush \/ V!Closed
    <3>1. frame' = V!NoFrame
      BY <2>6 DEF V!SeekFlush, V!StopFlush, V!Closed, V!FlushBuffers
    <3> QED BY <3>1 DEF FrameInv, V!NoFrame
  <2>7. CASE V!ClosingStep
    BY <2>1, <2>7 DEF V!ClosingStep, V!CloseLock, V!CloseSignal, V!CloseJoin,
       Shown
  <2> QED BY <1>3, <2>2, <2>3, <2>4, <2>5, <2>6, <2>7 DEF V!Script,
             V!SeekFrame, SomeSeek
<1>4. ASSUME NEW c \in VCond, V!Condition(c) PROVE FrameInv'
  BY <1>4 DEF V!Condition, V!buffers, V!decodeVars, V!mainVars, FrameInv,
     Shown, V!Sought
<1> QED BY <1>1, <1>2, <1>3, <1>4 DEF V!Next, VCond

\* Every step that ends a timer starts another, stops the video or is one of an
\* operation that will.
LEMMA TimersRun ==
    ASSUME TimersOK, TimersOK', OpenOK, PlayOK, ThreadInv, TimerInv, V!Next
    PROVE  TimerInv'
<1>0. /\ V!Live \in Nat /\ (V!Live > 0 <=> stray > 0 \/ timers # {})
      /\ V!Live' \in Nat /\ (V!Live' > 0 <=> stray' > 0 \/ timers' # {})
  BY LiveIs
<1>1. ASSUME V!DecodeThread PROVE TimerInv'
  <2>0. UNCHANGED <<inDisplay, mpc, inHandler, frame, reopen>>
    BY <1>1 DEF V!DecodeThread, V!mainVars
  <2>1. CASE V!Ready
    BY <2>0, <2>1, <1>0 DEF V!Ready, V!NewTimer, V!NoTimer, V!openVars,
       V!timerVars, V!decodeVars, V!mainVars, TimersOK, OpenOK, PlayOK,
       TimerInv, ThreadInv, Closing
  <2>2. CASE (V!Lock \/ V!OpenInitInternal \/ V!Unlock) /\ UNCHANGED raced
    <3>1. /\ UNCHANGED <<timers, stray, two, told, playing>>
          /\ vpc # "none" /\ vpc' # "none"
      BY <2>2 DEF V!Lock, V!OpenInitInternal, V!Unlock, V!openVars, V!timerVars
    <3>2. V!Live' = V!Live
      BY <3>1 DEF V!Live
    <3> QED BY <2>0, <2>2, <3>1, <3>2 DEF TimerInv
  <2>3. CASE (V!SeekInternal \/ V!Seeked \/ V!Buffer) /\ UNCHANGED raced
    <3>1. /\ UNCHANGED <<timers, stray, two, told, playing>>
          /\ vpc # "none" /\ vpc' # "none"
      BY <2>3 DEF V!SeekInternal, V!Seeked, V!Buffer, V!openVars, V!timerVars
    <3>2. V!Live' = V!Live
      BY <3>1 DEF V!Live
    <3> QED BY <2>0, <2>3, <3>1, <3>2 DEF TimerInv
  <2>4. CASE (V!Resize \/ V!Resized \/ V!ProcessPacket \/ V!ProcessEnds
             \/ V!ProcessFrame) /\ UNCHANGED raced
    <3>1. /\ UNCHANGED <<timers, stray, two, told, playing>>
          /\ vpc # "none" /\ vpc' # "none"
      BY <2>4 DEF V!Resize, V!Resized, V!ProcessPacket, V!ProcessEnds,
         V!ProcessFrame, V!openVars, V!timerVars
    <3>2. V!Live' = V!Live
      BY <3>1 DEF V!Live
    <3> QED BY <2>0, <2>4, <3>1, <3>2 DEF TimerInv
  <2> QED BY <1>1, <2>1, <2>2, <2>3, <2>4 DEF V!DecodeThread
<1>2. ASSUME V!Display PROVE TimerInv'
  <2>0. UNCHANGED <<V!openVars, V!closing, doSeek, doSetSize, noDisplay,
                   V!source, framesIdx, V!decodeVars, inHandler, reopen,
                   raced>>
    BY <1>2 DEF V!Display, V!mainVars
  <2>1. CASE V!TimerFires \/ V!DropFrame
    BY <2>0, <2>1, <1>0 DEF V!TimerFires, V!Enter, V!DropFrame, V!openVars,
       V!timerVars, V!decodeVars, V!mainVars, TimerInv, Closing
  <2>2. CASE V!DisplayNothing \/ V!ShowFrame
    BY <2>0, <2>2, <1>0 DEF V!DisplayNothing, V!Schedule, V!NewTimer, V!Return,
       V!ShowFrame, V!NoTimer, V!openVars, V!timerVars, V!decodeVars,
       V!mainVars, TimersOK, OpenOK, PlayOK, TimerInv, ThreadInv, Closing
  <2>3. CASE V!DisplayEnds \/ V!DisplayClosed
    BY <2>0, <2>3, <1>0 DEF V!DisplayEnds, V!Return, V!NoTimer,
       V!DisplayClosed, V!openVars, V!timerVars, V!decodeVars, V!mainVars,
       TimersOK, OpenOK, PlayOK, TimerInv, ThreadInv, Closing
  <2> QED BY <1>2, <2>1, <2>2, <2>3 DEF V!Display
<1>3. ASSUME V!Script PROVE TimerInv'
  <2>0. /\ UNCHANGED <<noDisplay, inDisplay>>
        /\ raced' = (raced /\ IF mpc = "closed" THEN V!Live > 0
                             ELSE playing' = playing)
    BY <1>3 DEF V!Script, V!mainVars
  <2>1. CASE V!Open \/ V!OpenTwice
    BY <2>0, <2>1, <1>0 DEF V!Open, V!OpenTwice, V!NoTimer, V!Start, V!MayCall,
       V!ClearAll, V!ClearTimers, V!Goes, V!Calls, V!openVars, V!timerVars,
       V!decodeVars, V!mainVars, TimersOK, OpenOK, PlayOK, TimerInv, ThreadInv,
       Closing
  <2>2. CASE V!Closed
    BY <2>0, <2>2, <1>0 DEF V!Closed, V!Back, V!openVars, V!timerVars,
       V!decodeVars, V!mainVars, TimersOK, OpenOK, PlayOK, TimerInv, ThreadInv,
       Closing
  <2>3. CASE V!Play
    BY <2>0, <2>3, <1>0 DEF V!Play, V!Calls, V!MayCall, V!Schedule, V!NewTimer,
       V!NoTimer, V!Goes, V!openVars, V!timerVars, V!decodeVars, V!mainVars,
       TimersOK, OpenOK, PlayOK, TimerInv, ThreadInv, Closing
  <2>4. CASE V!PlayLater
    BY <2>0, <2>4, <1>0 DEF V!PlayLater, V!Back, V!NoTimer, V!openVars,
       V!timerVars, V!decodeVars, V!mainVars, TimersOK, OpenOK, PlayOK,
       TimerInv, ThreadInv, Closing
  <2>5. CASE V!NextFrame
    BY <2>0, <2>5, <1>0 DEF V!NextFrame, V!Calls, V!MayCall, V!Schedule,
       V!NewTimer, V!openVars, V!timerVars, V!decodeVars, V!mainVars, TimersOK,
       OpenOK, PlayOK, TimerInv, ThreadInv, Closing
  <2>6. CASE V!Pause \/ V!PauseClear
    <3>1. CASE V!Pause
      <4>1. /\ mpc \in {"idle", "frame"} /\ mpc' = "pauseClear"
            /\ playing' = FALSE
            /\ UNCHANGED <<opened, vpc, timers, stray, two, told>>
            /\ raced' = (raced /\ playing' = playing)
        BY <2>0, <3>1 DEF V!Pause, V!Calls, V!MayCall, V!Goes, V!NoTimer,
           V!decodeVars, V!timerVars
      <4>2. V!Live' = V!Live
        BY <4>1 DEF V!Live
      <4>3. vpc = "none" => raced' = raced
        BY <4>1 DEF ThreadInv, PlayOK
      <4> QED BY <4>1, <4>2, <4>3 DEF TimerInv, Closing
    <3>2. CASE V!PauseClear
      <4>1. /\ mpc = "pauseClear" /\ mpc' \in {"frame", "idle"}
            /\ timers' = {} /\ two' = (two /\ stray > 0)
            /\ UNCHANGED <<opened, vpc, stray, playing>>
            /\ raced' = raced
        BY <2>0, <3>2 DEF V!PauseClear, V!Back, V!ClearAll, V!ClearTimers,
           V!openVars, V!decodeVars, PlayOK
      <4> QED BY <4>1, <1>0 DEF TimerInv, TimersOK, PlayOK, Closing
    <3> QED BY <2>6, <3>1, <3>2
  <2>7. CASE V!SetSize
    BY <2>0, <2>7, <1>0 DEF V!SetSize, V!Calls, V!MayCall, V!NoTimer,
       V!openVars, V!timerVars, V!decodeVars, V!mainVars, TimersOK, OpenOK,
       PlayOK, TimerInv, ThreadInv, Closing
  <2>8. CASE V!Close
    BY <2>0, <2>8, <1>0 DEF V!Close, V!Calls, V!MayCall, V!CloseAsked,
       V!ClearAll, V!ClearTimers, V!Goes, V!openVars, V!timerVars,
       V!decodeVars, V!mainVars, TimersOK, OpenOK, PlayOK, TimerInv, ThreadInv,
       Closing
  <2>9. CASE V!OnMessage
    BY <2>0, <2>9, <1>0 DEF V!OnMessage, V!CloseAsked, V!ClearAll,
       V!ClearTimers, V!Goes, V!openVars, V!timerVars, V!decodeVars,
       V!mainVars, TimersOK, OpenOK, PlayOK, TimerInv, ThreadInv, Closing
  <2>10. CASE SomeSeek
    BY <2>0, <2>10, <1>0 DEF SomeSeek, V!Seek, V!AskSeek, V!MayCall,
       V!ClearAll, V!ClearTimers, V!Goes, V!openVars, V!timerVars,
       V!decodeVars, V!mainVars, TimersOK, OpenOK, PlayOK, TimerInv, ThreadInv,
       Closing
  <2>11. CASE V!Stop
    <3>1. /\ mpc \in {"idle", "frame"} /\ mpc' \in {"stopSeek", "stopFlush"}
          /\ playing' = FALSE /\ UNCHANGED <<opened, vpc>>
          /\ raced' = (raced /\ playing' = playing)
      BY <2>0, <2>11 DEF V!Stop, V!AskSeek, V!Calls, V!MayCall, V!Goes,
         V!decodeVars
    <3>2. \/ timers' = {} /\ stray' = stray /\ two' = (two /\ stray > 0)
          \/ UNCHANGED <<timers, stray, two>>
      BY <2>11 DEF V!Stop, V!AskSeek, V!ClearAll, V!ClearTimers, V!timerVars
    <3>3. ~two' => /\ stray' = 0
                   /\ \A a, b \in timers' : a = b
      BY <3>2 DEF TimerInv, TimersOK, PlayOK
    <3>4. ASSUME vpc = "none" PROVE V!Live' = 0 \/ two' \/ raced'
      <4>1. playing = FALSE
        BY <3>1, <3>4 DEF ThreadInv, PlayOK
      <4>2. (V!Live = 0 \/ two \/ raced) /\ raced' = raced
        BY <3>1, <3>4, <4>1 DEF TimerInv, PlayOK
      <4>3. V!Live' = 0 \/ two' \/ raced \/ V!Live # 0
        BY <1>0, <3>2 DEF TimersOK, PlayOK
      <4>4. two => two' \/ V!Live' = 0
        <5>1. ~(V!Live' > 0) => V!Live' = 0
          BY <1>0
        <5>2. two /\ ~two' => timers' = {} /\ stray' = stray /\ ~(stray > 0)
          BY <3>2 DEF PlayOK
        <5> QED BY <1>0, <5>1, <5>2
      <4> QED BY <4>2, <4>3, <4>4
    <3> QED BY <3>1, <3>3, <3>4 DEF TimerInv, Closing
  <2>12. CASE V!SeekFlush
    BY <2>0, <2>12, <1>0 DEF V!SeekFlush, V!Meet, V!InProcess, V!Schedule,
       V!NewTimer, V!Back, V!openVars, V!timerVars, V!decodeVars, V!mainVars,
       TimersOK, OpenOK, PlayOK, TimerInv, ThreadInv, Closing
  <2>13. CASE V!StopFlush
    BY <2>0, <2>13, <1>0 DEF V!StopFlush, V!Meet, V!InProcess, V!ClearAll,
       V!ClearTimers, V!Back, V!openVars, V!timerVars, V!decodeVars,
       V!mainVars, TimersOK, OpenOK, PlayOK, TimerInv, ThreadInv, Closing
  <2>14. CASE V!ClosingStep
    BY <2>0, <2>14, <1>0 DEF V!ClosingStep, V!CloseLock, V!CloseSignal,
       V!CloseJoin, V!Locked, V!openVars, V!timerVars, V!decodeVars,
       V!mainVars, TimersOK, OpenOK, PlayOK, TimerInv, ThreadInv, Closing
  <2> QED BY <1>3, <2>1, <2>2, <2>3, <2>4, <2>5, <2>6, <2>7, <2>8, <2>9,
       <2>10, <2>11, <2>12, <2>13, <2>14 DEF V!Script, V!SeekFrame,
             SomeSeek
<1>4. ASSUME NEW c \in VCond, V!Condition(c) PROVE TimerInv'
  BY <1>4, <1>0 DEF V!Condition, V!openVars, V!timerVars, V!decodeVars,
     V!mainVars, TimerInv, Closing
<1> QED BY <1>1, <1>2, <1>3, <1>4 DEF V!Next, VCond

\* What a signal changes, and what it leaves.
WaitsStay ==
    \A c \in VCond :
        /\ (vwait[c])' = "no" <=> vwait[c] = "no"
        /\ Woken(c) => Woken(c)'

\* Steps that signal, or leave the conditions alone, let no one fall asleep.
LEMMA WaitsKept ==
    ASSUME CondOK,
           \/ V!Still
           \/ V!Wake({"Buffer"}) \/ V!Wake({"NotInDisplay"})
           \/ V!Wake({"Buffer", "NotInDisplay"})
    PROVE  CondOK' /\ WaitsStay
<1>1. CASE V!Still
  BY <1>1 DEF V!Still, V!signals, V!condVars, CondOK, WaitsStay, Woken
<1>2. ASSUME NEW cs \in SUBSET VCond, V!Wake(cs) PROVE CondOK' /\ WaitsStay
  BY <1>2, Waking DEF WaitsStay
<1>3. /\ {"Buffer"} \in SUBSET VCond /\ {"NotInDisplay"} \in SUBSET VCond
      /\ {"Buffer", "NotInDisplay"} \in SUBSET VCond
  BY DEF VCond
<1> QED BY <1>1, <1>2, <1>3

\* The main thread calls before it waits.
LEMMA WakesKeep ==
    ASSUME CondOK, ThreadInv, WakeInv, V!Next
    PROVE  (CondOK /\ WakeInv)'
<1>1. ASSUME V!DecodeThread PROVE (CondOK /\ WakeInv)'
  <2>0. UNCHANGED <<inDisplay, mpc, inHandler, frame, reopen>>
    BY <1>1 DEF V!DecodeThread, V!mainVars
  <2>1. CASE V!Ready
    <3>1. CondOK' /\ WaitsStay
      <4>1. \/ V!Still \/ V!Wake({"Buffer"}) \/ V!Wake({"NotInDisplay"})
            \/ V!Wake({"Buffer", "NotInDisplay"})
        BY <2>1 DEF V!Ready
      <4> QED BY <4>1, WaitsKept
    <3> QED BY <2>0, <2>1, <3>1 DEF V!Ready, V!openVars, V!closing, V!sizeVars,
               V!decodeVars, V!mainVars, WaitsStay, VCond, WakeInv, ThreadInv,
               Closing
  <2>2. CASE (V!Lock \/ V!OpenInitInternal) /\ UNCHANGED raced
    <3>1. CondOK' /\ WaitsStay
      <4>1. \/ V!Still \/ V!Wake({"Buffer"}) \/ V!Wake({"NotInDisplay"})
            \/ V!Wake({"Buffer", "NotInDisplay"})
        BY <2>2 DEF V!Lock, V!OpenInitInternal
      <4> QED BY <4>1, WaitsKept
    <3> QED BY <2>0, <2>2, <3>1 DEF V!Lock, V!Waited, V!Sought,
               V!OpenInitInternal, V!openVars, V!closing, V!sizeVars,
               V!decodeVars, V!mainVars, WaitsStay, VCond, WakeInv, ThreadInv,
               Closing
  <2>3. CASE (V!SeekInternal \/ V!Seeked \/ V!Buffer) /\ UNCHANGED raced
    <3>1. CondOK' /\ WaitsStay
      <4>1. \/ V!Still \/ V!Wake({"Buffer"}) \/ V!Wake({"NotInDisplay"})
            \/ V!Wake({"Buffer", "NotInDisplay"})
        BY <2>3 DEF V!SeekInternal, V!Seeked, V!Buffer
      <4> QED BY <4>1, WaitsKept
    <3> QED BY <2>0, <2>3, <3>1 DEF V!SeekInternal, V!Seeked, V!Buffer,
               V!Sought, V!openVars, V!closing, V!sizeVars, V!decodeVars,
               V!mainVars, WaitsStay, VCond, WakeInv, ThreadInv, Closing
  <2>4. CASE V!Resize /\ UNCHANGED raced
    <3>1. /\ vpc = "process" /\ vpc' = "resize"
          /\ IF inDisplay THEN V!WaitFor("NotInDisplay") ELSE V!NoSignal
          /\ UNCHANGED lost
      BY <2>4 DEF V!Resize
    <3>2. vwait["Buffer"] = "no" /\ vwait["NotInDisplay"] = "no"
      BY <3>1 DEF WakeInv
    <3>3. /\ vwait'["Buffer"] = "no" /\ vcond' = vcond /\ CondOK'
          /\ ~inDisplay => vwait'["NotInDisplay"] = "no"
      BY <3>1, <3>2 DEF V!WaitFor, V!NoSignal, V!condVars, CondOK, VCond
    <3> QED BY <2>0, <3>1, <3>3 DEF WakeInv, Woken
  <2>5. CASE (V!Resized \/ V!ProcessPacket \/ V!ProcessFrame) /\ UNCHANGED raced
    <3>1. CondOK' /\ WaitsStay
      <4>1. \/ V!Still \/ V!Wake({"Buffer"}) \/ V!Wake({"NotInDisplay"})
            \/ V!Wake({"Buffer", "NotInDisplay"})
        BY <2>5 DEF V!Resized, V!ProcessPacket, V!ProcessFrame
      <4> QED BY <4>1, WaitsKept
    <3> QED BY <2>0, <2>5, <3>1 DEF V!Resized, V!Waited, V!ProcessPacket,
               V!ProcessFrame, V!openVars, V!closing, V!sizeVars, V!decodeVars,
               V!mainVars, WaitsStay, VCond, WakeInv, ThreadInv, Closing
  <2>6. CASE V!ProcessEnds /\ UNCHANGED raced
    <3>1. CondOK' /\ WaitsStay
      <4>1. \/ V!Still \/ V!Wake({"Buffer"}) \/ V!Wake({"NotInDisplay"})
            \/ V!Wake({"Buffer", "NotInDisplay"})
        BY <2>6 DEF V!ProcessEnds
      <4> QED BY <4>1, WaitsKept
    <3> QED BY <2>0, <2>6, <3>1 DEF V!ProcessEnds, V!openVars, V!closing,
               V!sizeVars, V!decodeVars, V!mainVars, WaitsStay, VCond, WakeInv,
               ThreadInv, Closing
  <2>7. CASE V!Unlock /\ UNCHANGED raced
    <3>1. /\ vpc = "unlock" /\ UNCHANGED lost
          /\ shutdown => V!NoSignal
          /\ ~shutdown => (V!WaitFor("Buffer") /\ vpc' = "wait") \/ V!NoSignal
      BY <2>7 DEF V!Unlock
    <3>2. vwait["Buffer"] = "no" /\ vwait["NotInDisplay"] = "no"
      BY <3>1 DEF WakeInv
    <3>3. /\ vwait'["NotInDisplay"] = "no" /\ vcond' = vcond /\ CondOK'
          /\ vwait'["Buffer"] = "no" \/ (vpc' = "wait" /\ ~shutdown)
      BY <3>1, <3>2 DEF V!WaitFor, V!NoSignal, V!condVars, CondOK, VCond
    <3> QED BY <2>0, <3>1, <3>3 DEF WakeInv, ThreadInv, Woken
  <2> QED BY <1>1, <2>1, <2>2, <2>3, <2>4, <2>5, <2>6, <2>7 DEF V!DecodeThread
<1>2. ASSUME V!Display PROVE (CondOK /\ WakeInv)'
  <2>0. UNCHANGED <<V!openVars, V!closing, doSeek, doSetSize, noDisplay,
                   V!source, framesIdx, V!decodeVars, inHandler, reopen,
                   raced>>
    BY <1>2 DEF V!Display, V!mainVars
  <2>1. CASE V!TimerFires \/ V!DropFrame
    <3>1. /\ vcond' = [vcond EXCEPT !["NotInDisplay"] = FALSE]
          /\ UNCHANGED <<vwait, lost, vpc>> /\ inDisplay' /\ mpc' = "display"
      BY <2>0, <2>1 DEF V!TimerFires, V!DropFrame, V!Enter, V!decodeVars
    <3>2. CondOK'
      BY <3>1 DEF CondOK, VCond
    <3> QED BY <3>1, <3>2 DEF WakeInv
  <2>2. CASE V!DisplayNothing
    <3>1. /\ V!Wake({"NotInDisplay"}) \/ V!Wake({"Buffer", "NotInDisplay"})
          /\ mpc' = "idle" /\ UNCHANGED vpc
      BY <2>0, <2>2 DEF V!DisplayNothing, V!Return, V!decodeVars
    <3>2. CondOK' /\ WaitsStay /\ Woken("NotInDisplay")'
      BY <3>1, WaitsKept, Waking DEF VCond
    <3> QED BY <3>1, <3>2 DEF WaitsStay, VCond, WakeInv
  <2>3. CASE V!ShowFrame
    <3>1. CondOK' /\ WaitsStay
      <4>1. \/ V!Still \/ V!Wake({"Buffer"}) \/ V!Wake({"NotInDisplay"})
            \/ V!Wake({"Buffer", "NotInDisplay"})
        BY <2>3 DEF V!ShowFrame, V!Still
      <4> QED BY <4>1, WaitsKept
    <3> QED BY <2>0, <2>3, <3>1 DEF V!ShowFrame, V!openVars, V!closing,
               V!sizeVars, V!decodeVars, V!mainVars, WaitsStay, VCond, WakeInv,
               ThreadInv, Closing
  <2>4. CASE V!DisplayEnds
    <3>1. /\ V!Wake({"NotInDisplay"}) \/ V!Wake({"Buffer", "NotInDisplay"})
          /\ mpc' = "idle" /\ UNCHANGED vpc
      BY <2>0, <2>4 DEF V!DisplayEnds, V!Return, V!decodeVars
    <3>2. CondOK' /\ WaitsStay /\ Woken("NotInDisplay")'
      BY <3>1, WaitsKept, Waking DEF VCond
    <3> QED BY <3>1, <3>2 DEF WaitsStay, VCond, WakeInv
  <2>5. CASE V!DisplayClosed
    <3>1. CondOK' /\ WaitsStay
      <4>1. \/ V!Still \/ V!Wake({"Buffer"}) \/ V!Wake({"NotInDisplay"})
            \/ V!Wake({"Buffer", "NotInDisplay"})
        BY <2>5 DEF V!DisplayClosed
      <4> QED BY <4>1, WaitsKept
    <3> QED BY <2>0, <2>5, <3>1 DEF V!DisplayClosed, V!openVars, V!closing,
               V!sizeVars, V!decodeVars, V!mainVars, WaitsStay, VCond, WakeInv,
               ThreadInv, Closing
  <2> QED BY <1>2, <2>1, <2>2, <2>3, <2>4, <2>5 DEF V!Display
<1>3. ASSUME V!Script PROVE (CondOK /\ WakeInv)'
  <2>0. /\ UNCHANGED <<noDisplay, inDisplay>>
        /\ raced' = (raced /\ IF mpc = "closed" THEN V!Live > 0
                             ELSE playing' = playing)
    BY <1>3 DEF V!Script, V!mainVars
  <2>1. CASE V!Open \/ V!OpenTwice \/ V!Closed
    <3>1. CondOK' /\ WaitsStay
      <4>1. \/ V!Still \/ V!Wake({"Buffer"}) \/ V!Wake({"NotInDisplay"})
            \/ V!Wake({"Buffer", "NotInDisplay"})
        BY <2>1 DEF V!Open, V!OpenTwice, V!Calls, V!MayCall, V!NoTimer,
           V!Closed, V!Start
      <4> QED BY <4>1, WaitsKept
    <3> QED BY <2>0, <2>1, <3>1 DEF V!Open, V!OpenTwice, V!NoTimer, V!Start,
               V!MayCall, V!Goes, V!Calls, V!Closed, V!Back, V!openVars,
               V!closing, V!sizeVars, V!decodeVars, V!mainVars, WaitsStay,
               VCond, WakeInv, ThreadInv, Closing
  <2>2. CASE V!Play \/ V!PlayLater \/ V!NextFrame
    <3>1. CondOK' /\ WaitsStay
      <4>1. \/ V!Still \/ V!Wake({"Buffer"}) \/ V!Wake({"NotInDisplay"})
            \/ V!Wake({"Buffer", "NotInDisplay"})
        BY <2>2 DEF V!Play, V!PlayLater, V!NextFrame
      <4> QED BY <4>1, WaitsKept
    <3> QED BY <2>0, <2>2, <3>1 DEF V!Play, V!Calls, V!MayCall, V!Goes,
               V!PlayLater, V!Back, V!NextFrame, V!openVars, V!closing,
               V!sizeVars, V!decodeVars, V!mainVars, WaitsStay, VCond, WakeInv,
               ThreadInv, Closing
  <2>3. CASE V!Pause \/ V!PauseClear \/ V!SetSize \/ V!Close \/ V!OnMessage
    <3>1. CondOK' /\ WaitsStay
      <4>1. \/ V!Still \/ V!Wake({"Buffer"}) \/ V!Wake({"NotInDisplay"})
            \/ V!Wake({"Buffer", "NotInDisplay"})
        BY <2>3 DEF V!Pause, V!PauseClear, V!Goes, V!Back, V!NoTimer,
           V!ClearAll, V!ClearTimers, V!Calls, V!MayCall, V!SetSize, V!Close,
           V!OnMessage, V!CloseAsked
      <4> QED BY <4>1, WaitsKept
    <3> QED BY <2>0, <2>3, <3>1 DEF V!Pause, V!PauseClear, V!Back, V!NoTimer,
               V!ClearAll, V!ClearTimers, V!Calls, V!MayCall, V!SetSize,
               V!Close, V!CloseAsked, V!Goes, V!OnMessage, V!openVars,
               V!closing, V!sizeVars, V!decodeVars, V!mainVars, WaitsStay,
               VCond, WakeInv, ThreadInv, Closing
  <2>4. CASE SomeSeek \/ V!Stop
    <3>1. CondOK' /\ WaitsStay
      <4>1. \/ V!Still \/ V!Wake({"Buffer"}) \/ V!Wake({"NotInDisplay"})
            \/ V!Wake({"Buffer", "NotInDisplay"})
        BY <2>4 DEF SomeSeek, V!Stop, V!Seek
      <4> QED BY <4>1, WaitsKept
    <3> QED BY <2>0, <2>4, <3>1 DEF SomeSeek, V!Seek, V!AskSeek, V!MayCall,
               V!Sought, V!Goes, V!Stop, V!Calls, V!openVars, V!closing,
               V!sizeVars, V!decodeVars, V!mainVars, WaitsStay, VCond, WakeInv,
               ThreadInv, Closing
  <2>5. CASE V!SeekFlush \/ V!StopFlush
    <3>1. CondOK' /\ WaitsStay
      <4>1. \/ V!Still \/ V!Wake({"Buffer"}) \/ V!Wake({"NotInDisplay"})
            \/ V!Wake({"Buffer", "NotInDisplay"})
        BY <2>5 DEF V!SeekFlush, V!StopFlush
      <4> QED BY <4>1, WaitsKept
    <3> QED BY <2>0, <2>5, <3>1 DEF V!SeekFlush, V!Meet, V!InProcess, V!Back,
               V!StopFlush, V!openVars, V!closing, V!sizeVars, V!decodeVars,
               V!mainVars, WaitsStay, VCond, WakeInv, ThreadInv, Closing
  <2>6. CASE V!ClosingStep
    <3>1. CASE V!CloseSignal
      <4>1. V!Wake({"Buffer"}) /\ UNCHANGED vpc
        BY <3>1 DEF V!CloseSignal
      <4>2. CondOK' /\ WaitsStay /\ Woken("Buffer")'
        BY <4>1, WaitsKept, Waking DEF VCond
      <4> QED BY <2>0, <4>1, <4>2 DEF WaitsStay, VCond, WakeInv
    <3>2. CASE V!CloseLock \/ V!CloseJoin
      <4>1. V!Still /\ mpc' # "closeJoin" /\ (vpc' = vpc \/ vpc = "exited")
        BY <3>2 DEF V!CloseLock, V!CloseJoin
      <4>2. CondOK' /\ WaitsStay
        BY <4>1, WaitsKept
      <4> QED BY <2>0, <4>1, <4>2 DEF WaitsStay, VCond, WakeInv
    <3> QED BY <2>6, <3>1, <3>2 DEF V!ClosingStep
  <2> QED BY <1>3, <2>1, <2>2, <2>3, <2>4, <2>5, <2>6 DEF V!Script,
             V!SeekFrame, SomeSeek
<1>4. ASSUME NEW c \in VCond, V!Condition(c) PROVE (CondOK /\ WakeInv)'
  <2>1. /\ V!Check(c) \/ V!Sleep(c)
        /\ UNCHANGED <<vpc, mpc, inDisplay, lost>>
    BY <1>4 DEF V!Condition, V!decodeVars, V!mainVars, V!sizeVars
  <2>2. /\ CondOK'
        /\ vwait[c] # "no"
        /\ Woken(c) => Woken(c)'
        /\ \A d \in VCond \ {c} :
              (vwait[d])' = vwait[d] /\ (vcond[d])' = vcond[d]
    <3>1. CASE V!Check(c)
      BY <2>1, <3>1 DEF V!Check, CondOK, Woken
    <3>2. CASE V!Sleep(c)
      BY <2>1, <3>2 DEF V!Sleep, CondOK, Woken
    <3> QED BY <2>1, <3>1, <3>2
  <2>4. \A d \in VCond :
            /\ Woken(d) => Woken(d)'
            /\ (vwait[d])' # "no" => vwait[d] # "no"
    BY <2>1, <2>2 DEF Woken
  <2> QED BY <2>1, <2>2, <2>4 DEF WakeInv, VCond
<1> QED BY <1>1, <1>2, <1>3, <1>4 DEF V!Next, VCond

-----------------------------------------------------------------------------
(* The theorems about Video. *)

\* All of it.
VideoInv ==
    /\ OpenOK /\ PlayOK /\ FlagsOK /\ PlacesOK /\ BuffersOK /\ TimersOK
    /\ CondOK /\ ThreadInv /\ SourceInv /\ SeekInv /\ RingInv /\ FrameInv
    /\ TimerInv /\ WakeInv

\* It holds at first, ...
LEMMA VideoInit == V!Init => VideoInv
<1> SUFFICES ASSUME V!Init PROVE VideoInv
  OBVIOUS
<1>1. OpenOK /\ PlayOK /\ FlagsOK
  BY DEF V!Init, OpenOK, PlayOK, FlagsOK
<1>2. PlacesOK /\ ThreadInv /\ SourceInv /\ SeekInv
  BY DEF V!Init, PlacesOK, V!Pos, ThreadInv, SourceInv, Closing, SeekInv,
     V!Sought
<1>3. BuffersOK
  BY RingEmpty, Places, VideoAssumption DEF V!Init, BuffersOK, V!NoFrame,
     V!Slot
<1>4. RingInv /\ FrameInv
  BY RingEmpty DEF V!Init, RingInv, FrameInv, Shown, V!NoFrame, V!Sought
<1>5. TimersOK
  BY VideoAssumption DEF V!Init, TimersOK, V!Slot
<1>6. TimerInv
  <2>1. V!Live = 0
    BY <1>5, LiveIs DEF V!Init
  <2> QED BY <2>1 DEF V!Init, TimerInv
<1>7. CondOK /\ WakeInv
  BY DEF V!Init, CondOK, VCond, WakeInv, Woken
<1> QED BY <1>1, <1>2, <1>3, <1>4, <1>5, <1>6, <1>7 DEF VideoInv

\* ... and every step of the two threads keeps it.
LEMMA VideoNext == VideoInv /\ [V!Next]_(V!vars) => VideoInv'
<1> SUFFICES ASSUME VideoInv, [V!Next]_(V!vars) PROVE VideoInv'
  OBVIOUS
<1>0. /\ OpenOK /\ PlayOK /\ FlagsOK /\ PlacesOK /\ BuffersOK /\ TimersOK
      /\ CondOK /\ ThreadInv /\ SourceInv /\ SeekInv /\ RingInv /\ FrameInv
      /\ TimerInv /\ WakeInv
  BY DEF VideoInv
<1>1. CASE V!Next
  <2>1. OpenOK' /\ PlayOK' /\ FlagsOK' /\ PlacesOK' /\ TimersOK'
    BY <1>0, <1>1, OpenKeeps, PlayKeeps, FlagsKeep, PlacesKeep, TimersKeep
  <2>2. ThreadInv' /\ SourceInv' /\ SeekInv'
    BY <1>0, <1>1, ThreadsKeep, SourceKeeps, SeeksKeep
  <2>3. BuffersOK' /\ RingInv' /\ FrameInv'
    BY <1>0, <1>1, RingKeeps, FramesKeep
  <2>4. TimerInv'
    BY <1>0, <1>1, <2>1, TimersRun
  <2>5. CondOK' /\ WakeInv'
    BY <1>0, <1>1, WakesKeep
  <2> QED BY <2>1, <2>2, <2>3, <2>4, <2>5 DEF VideoInv
<1>2. CASE UNCHANGED V!vars
  <2>1. UNCHANGED <<V!openVars, V!closing, doSeek, V!sizeVars, V!source,
                    V!buffers, V!timerVars, V!decodeVars, V!mainVars,
                    V!signals, told, raced>>
    BY <1>2 DEF V!vars
  <2>2. OpenOK' /\ PlayOK' /\ FlagsOK' /\ PlacesOK' /\ TimersOK'
    BY <1>0, <2>1 DEF V!openVars, V!closing, V!sizeVars, V!source, V!timerVars,
       V!decodeVars, V!mainVars, OpenOK, PlayOK, FlagsOK, PlacesOK, TimersOK
  <2>3. ThreadInv' /\ SourceInv' /\ SeekInv'
    BY <1>0, <2>1 DEF V!openVars, V!closing, V!sizeVars, V!source,
       V!decodeVars, V!mainVars, ThreadInv, SourceInv, SeekInv, V!Sought,
       V!InProcess
  <2>4. BuffersOK' /\ RingInv' /\ FrameInv'
    BY <1>0, <2>1 DEF V!source, V!buffers, V!decodeVars, V!mainVars, BuffersOK,
       RingInv, FrameInv, Shown, V!Sought
  <2>5. TimerInv'
    BY <1>0, <2>1 DEF V!openVars, V!timerVars, V!decodeVars, V!mainVars,
       TimerInv, V!Live
  <2>6. CondOK' /\ WakeInv'
    BY <1>0, <2>1 DEF V!sizeVars, V!decodeVars, V!mainVars, V!signals,
       V!condVars, CondOK, WakeInv, Woken
  <2> QED BY <2>2, <2>3, <2>4, <2>5, <2>6 DEF VideoInv
<1> QED BY <1>1, <1>2

\* The invariant that the others follow from.
THEOREM VideoInvariance == V!Spec => []VideoInv
<1> QED BY VideoInit, VideoNext, PTL DEF V!Spec

\* Every variable of a video keeps to its type: for one, there are never more
\* frames in the ring buffer than it has room for, nor more packets queued than
\* the decoder asks for.
THEOREM VideoTypeCorrect == V!Spec => []V!TypeOK
<1>1. VideoInv => V!TypeOK
  <2> SUFFICES ASSUME VideoInv PROVE V!TypeOK
    OBVIOUS
  <2>1. /\ OpenOK /\ PlayOK /\ FlagsOK /\ PlacesOK /\ BuffersOK /\ TimersOK
        /\ CondOK /\ FrameInv
    BY DEF VideoInv
  <2>2. /\ ring \in Seq([slot : V!Slot, of : V!Pos]) /\ Len(ring) <= Samples
        /\ packets \in 0..MaxPackets /\ framesIdx \in V!Slot /\ slot \in V!Slot
        /\ frame \in [slot : V!Slot, of : V!Pos] \cup {V!NoFrame}
    BY <2>1 DEF BuffersOK, FrameInv, Frame
  <2>3. timers \subseteq V!Slot /\ stray \in Nat /\ timerIdx \in V!Slot
    BY <2>1 DEF TimersOK
  <2>4. lost \subseteq {"Buffer", "NotInDisplay"}
    BY <2>1 DEF CondOK, VCond
  <2> QED BY <2>1, <2>2, <2>3, <2>4 DEF V!TypeOK, OpenOK, PlayOK, FlagsOK,
             PlacesOK
<1> QED BY <1>1, VideoInvariance, PTL

\* While a frame is shown its buffer is written to again only when all others
\* hold frames that are still to be shown, and the frame is what the last seek
\* asked for, unless that seek failed or met the decoder in its work, or the
\* handler of the frame has sought.
THEOREM ShowsTheSought == V!Spec => []ShowsWhatWasSought
<1>1. VideoInv => ShowsWhatWasSought
  <2> SUFFICES ASSUME VideoInv, mpc = "frame",
                      frame.of \notin {"any", "none"}
               PROVE  /\ frame.of = "sought"
                      /\ V!Overwritten => Len(ring) >= Samples - 1
    BY DEF ShowsWhatWasSought, V!ShowsWhatWasSought
  <2>1. BuffersOK /\ SeekInv /\ FrameInv
    BY DEF VideoInv
  <2>2. frame \in Frame /\ frame.of = "sought" /\ Shown
    BY <2>1 DEF FrameInv, V!NoFrame, Frame, V!Pos, Shown
  <2>3. ASSUME Len(ring) < Samples - 1 PROVE ~V!Overwritten
    <3> DEFINE q == <<frame>> \o ring
    <3>1. ring \in Seq(Frame) /\ framesIdx \in V!Slot /\ Len(ring) \in Nat
      BY <2>1 DEF BuffersOK
    <3>2. /\ q \in Seq(Frame) /\ q # <<>> /\ Len(q) = Len(ring) + 1
          /\ Head(q) = frame /\ Tail(q) = ring
      BY <2>2, <3>1, FrameBefore
    <3>3. /\ Len(q) < Samples /\ Len(ring) < Samples
      BY <2>3, <3>1, <3>2, VideoAssumption
    <3>4. /\ Chain(q, framesIdx) /\ ~V!Sought
          /\ vpc = "write" => slot = framesIdx
      BY <2>1, <2>2, <3>3 DEF FrameInv
    <3> HIDE DEF q
    <3>5. /\ framesIdx # frame.slot
          /\ \A i \in 1..Len(ring) : ring[i].slot # frame.slot
      <4>1. Head(q).of = "sought" /\ Len(q) <= Samples
        BY <2>2, <3>2, <3>3, VideoAssumption
      <4>2. /\ Len(q) < Samples => framesIdx # Head(q).slot
            /\ \A i \in 1..Len(Tail(q)) : Tail(q)[i].slot # Head(q).slot
        BY <3>1, <3>2, <3>4, <4>1, RingShows
      <4> QED BY <3>2, <3>3, <4>2
    <3>6. vpc # "previous"
      BY <2>1, <3>4 DEF SeekInv, V!Sought
    <3> QED BY <3>4, <3>5, <3>6 DEF V!Overwritten
  <2>4. Len(ring) >= Samples - 1 \/ Len(ring) < Samples - 1
    BY <2>1, VideoAssumption DEF BuffersOK
  <2> QED BY <2>2, <2>3, <2>4
<1> QED BY <1>1, VideoInvariance, PTL

\* A video that plays displays again, or has told its end.
THEOREM GoesOnPlaying == V!Spec => []PlayingGoesOn
<1>1. VideoInv => PlayingGoesOn
  BY DEF VideoInv, TimerInv, PlayingGoesOn, V!PlayingGoesOn, V!MayCall, Closing
<1> QED BY <1>1, VideoInvariance, PTL

\* No timer displays a video that is closed, closing does not wait for a
\* decoder that sleeps, unless the signal that wakes it was lost, and there is
\* one decoder, unless open() failed and was called again before MSG_CLOSE.
THEOREM GetsClosed == V!Spec => []ClosesForGood
<1>1. VideoInv => ClosesForGood
  <2> SUFFICES ASSUME VideoInv PROVE ClosesForGood
    OBVIOUS
  <2>1. ThreadInv /\ SourceInv /\ TimerInv /\ WakeInv
    BY DEF VideoInv
  <2>2. V!ClosedIsQuiet
    BY <2>1 DEF TimerInv, V!ClosedIsQuiet
  <2>3. ASSUME mpc = "closeJoin", vwait["Buffer"] = "asleep"
        PROVE  "Buffer" \in lost
    BY <2>1, <2>3 DEF WakeInv, Woken
  <2>4. ASSUME mpc = "closeLock", vwait["NotInDisplay"] = "asleep"
        PROVE  inHandler \/ "NotInDisplay" \in lost
    BY <2>1, <2>4 DEF ThreadInv, WakeInv, Woken
  <2>5. V!OneThread
    BY <2>1 DEF SourceInv, V!OneThread
  <2> QED BY <2>2, <2>3, <2>4, <2>5 DEF ClosesForGood, V!ClosesForGood,
             V!CloseEnds
<1> QED BY <1>1, VideoInvariance, PTL

\* An instance for TLC that is about one of the two is an instance of that one,
\* and the other stands still: what holds of each of them holds of it.
THEOREM PartsAreBoth == PartsSpec => Spec /\ V!Spec
<1>1. PartsInit => Init /\ V!Init
  BY DEF PartsInit
<1>2. [PartsNext]_<<vars, videoVars, part>> => [Next]_vars /\ [V!Next]_(V!vars)
  <2> SUFFICES ASSUME [PartsNext]_<<vars, videoVars, part>>
               PROVE  [Next]_vars /\ [V!Next]_(V!vars)
    OBVIOUS
  <2>1. (UNCHANGED videoVars) => UNCHANGED V!vars
    BY DEF videoVars, V!vars, V!openVars, V!closing, V!sizeVars, V!source,
           V!buffers, V!timerVars, V!decodeVars, V!mainVars, V!signals,
           V!condVars
  <2> QED BY <2>1 DEF PartsNext
<1> QED BY <1>1, <1>2, PTL DEF PartsSpec, Spec, V!Spec
=============================================================================
