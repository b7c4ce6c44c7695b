------------------------ MODULE SharedMessagesProofs ------------------------
(***************************************************************************)
(* The linked list of SharedMessages is whole, its counter never denies a  *)
(* message, and it implements MessageQueue, for every set of threads, of   *)
(* destinations and of events and every finite memory.                     *)
(*                                                                         *)
(* The properties only look at the list when nobody is changing it; what   *)
(* is inductive (IInv) also says where a delMessagesForDest() under way    *)
(* has got to, between the k-th message and the one behind it, and that a  *)
(* message that is linked and not counted yet is the newest.               *)
(***************************************************************************)
EXTENDS SharedMessages, ListsProofs

\* What the links say: a list of messages with their fields, head its end.
ListInv ==
    /\ Chain \in Seq(Message)
    /\ NoDuplicates(Chain)
    /\ Linked(Chain, prev, queue, NoMessage)
    /\ head = IF Chain = <<>> THEN NoMessage ELSE Chain[Len(Chain)]
    /\ \A m \in Elements(Chain) : info[m] \in Info

\* count is behind by the message being cleaned or added, asyncCount is not.
CountInv ==
    /\ count = IF del.cleaning THEN Len(Chain) + 1
               ELSE IF adding # NoMessage THEN Len(Chain) - 1 ELSE Len(Chain)
    /\ asyncCount = Cardinality({m \in Elements(Chain) : info[m].async})

\* A message that has left the list is in one hand, and not linked any more.
InHandInv ==
    /\ NoDanglingLink
    /\ \A t \in Thread : del.cleaning => inHand[t] # del.message

\* The message being added is the newest, and nobody removes any.
AddInv ==
    /\ lock = NoThread => adding = NoMessage
    /\ adding # NoMessage => adding = head /\ del = NoDelete

\* A removal has kept the k oldest messages and is at the one behind them.
DelInv ==
    /\ lock = NoThread => del = NoDelete
    /\ lock # NoThread /\ adding = NoMessage =>
          \E k \in 0..Len(Chain) :
             /\ del.next = IF k = 0 THEN NoMessage ELSE Chain[k]
             /\ \A i \in 1..k : Chain[i] \notin del.named
             /\ (IF del.cleaning THEN prev[del.message] ELSE del.message)
                   = IF k = Len(Chain) THEN NoMessage ELSE Chain[k + 1]
    /\ del.cleaning => del.message \in Message /\ del.message \in del.named

IInv == TypeOK /\ ListInv /\ CountInv /\ InHandInv /\ AddInv /\ DelInv
-----------------------------------------------------------------------------
\* The list the links hold together is the one a walk from queue finds.
LEMMA ListFound ==
    ASSUME NEW s \in Seq(Message), NoDuplicates(s), NEW link, NEW m,
           Linked(s, link, m, NoMessage)
    PROVE  Walk(link, m, NoMessage, Cardinality(Message) + 1) = s
<1>1. Len(s) <= Cardinality(Message) /\ Cardinality(Message) \in Nat
  BY AddressAssumption, NoLongerThan, FS_CardinalityType
<1>2. Len(s) <= Cardinality(Message) + 1 /\ Cardinality(Message) + 1 \in Nat
  BY <1>1
<1> QED BY <1>2, AddressAssumption, WalkFinds

\* A list's messages, and those among them that are asynchronous, are finitely
\* many.
LEMMA FinitelyMany ==
    ASSUME NEW s \in Seq(Message), NEW P \in SUBSET Elements(s)
    PROVE  IsFiniteSet(P) /\ Cardinality(P) \in Nat
<1>1. P \in SUBSET Message
  BY DEF Elements
<1>2. IsFiniteSet(P)
  BY <1>1, AddressAssumption, FS_Subset
<1> QED BY <1>2, FS_CardinalityType

\* Linked lists without messages, with one message more at their end, or with
\* one less at their beginning.
LEMMA LinkedNone ==
    ASSUME NEW link
    PROVE  Linked(<<>>, link, NoMessage, NoMessage)
BY DEF Linked

LEMMA LinkedAppend ==
    ASSUME NEW s \in Seq(Message), NoDuplicates(s), NEW link, NEW q,
           Linked(s, link, q, NoMessage), NEW m \in Message, m \notin Elements(s),
           NEW more, more[m] = NoMessage,
           \A i \in 1..Len(s) :
              more[s[i]] = IF i = Len(s) THEN m ELSE link[s[i]]
    PROVE  Linked(Append(s, m), more, IF q = NoMessage THEN m ELSE q, NoMessage)
<1>1. /\ Append(s, m) \in Seq(Message) /\ Len(s) \in Nat
      /\ Len(Append(s, m)) = Len(s) + 1 /\ Append(s, m)[Len(s) + 1] = m
      /\ \A i \in 1..Len(s) : Append(s, m)[i] = s[i]
  BY Appended
<1>2. Append(s, m) # <<>>
      /\ Append(s, m)[1] = IF q = NoMessage THEN m ELSE q
  <2>1. CASE s = <<>>
    BY <2>1, <1>1 DEF Linked
  <2>2. CASE s # <<>>
    <3>1. 1 \in 1..Len(s) /\ s[1] \in Message
      BY <2>2
    <3> QED BY <3>1, <2>2, <1>1, AddressAssumption DEF Linked
  <2> QED BY <2>1, <2>2
<1>3. ASSUME NEW i \in 1..(Len(s) + 1)
      PROVE  more[Append(s, m)[i]] = IF i = Len(s) + 1 THEN NoMessage
                                     ELSE Append(s, m)[i + 1]
  <2>1. CASE i = Len(s) + 1
    BY <2>1, <1>1
  <2>2. CASE i # Len(s) + 1
    <3>1. i \in 1..Len(s) /\ Append(s, m)[i] = s[i]
      BY <2>2, <1>1
    <3>2. CASE i = Len(s)
      BY <3>1, <3>2, <1>1
    <3>3. CASE i # Len(s)
      <4>1. i + 1 \in 1..Len(s)
        BY <3>1, <3>3, <1>1
      <4> QED BY <3>1, <3>3, <4>1, <2>2, <1>1 DEF Linked
    <3> QED BY <3>2, <3>3
  <2> QED BY <2>1, <2>2
<1> QED BY <1>1, <1>2, <1>3 DEF Linked

LEMMA LinkedTail ==
    ASSUME NEW s \in Seq(Message), s # <<>>, NEW link, NEW q,
           Linked(s, link, q, NoMessage)
    PROVE  /\ q = s[1] /\ q = Head(s) /\ q \in Message
           /\ Linked(Tail(s), link, link[q], NoMessage)
           /\ link[q] = NoMessage <=> Len(s) = 1
<1>1. /\ Tail(s) \in Seq(Message) /\ Len(s) \in Nat /\ 1 \in 1..Len(s)
      /\ Len(Tail(s)) = Len(s) - 1 /\ Head(s) = s[1]
      /\ \A i \in 1..Len(Tail(s)) : Tail(s)[i] = s[i + 1]
  BY HeadAndTail
<1>2. q = s[1] /\ q \in Message
      /\ link[q] = IF 1 = Len(s) THEN NoMessage ELSE s[2]
  <2>1. q = s[1] /\ s[1] \in Message
    <3>1. 1 \in 1..Len(s)
      BY <1>1
    <3>2. s[1] \in Message
      BY <3>1
    <3>3. q = s[1]
      BY DEF Linked
    <3> QED BY <3>2, <3>3
  <2>2. link[s[1]] = IF 1 = Len(s) THEN NoMessage ELSE s[1 + 1]
    BY <1>1 DEF Linked
  <2> QED BY <2>1, <2>2
<1>3. link[q] = IF Tail(s) = <<>> THEN NoMessage ELSE Tail(s)[1]
  <2>1. CASE Len(s) = 1
    <3>1. Len(Tail(s)) = 0
      BY <2>1, <1>1
    <3>2. Tail(s) = <<>>
      BY <3>1, <1>1
    <3> QED BY <3>2, <2>1, <1>2
  <2>2. CASE Len(s) # 1
    <3>1. 1 \in 1..Len(Tail(s)) /\ Tail(s) # <<>> /\ Tail(s)[1] = s[2]
      BY <2>2, <1>1
    <3> QED BY <3>1, <2>2, <1>2
  <2> QED BY <2>1, <2>2
<1>4. ASSUME NEW i \in 1..Len(Tail(s))
      PROVE  link[Tail(s)[i]] = IF i = Len(Tail(s)) THEN NoMessage
                                ELSE Tail(s)[i + 1]
  <2>1. i + 1 \in 1..Len(s) /\ Tail(s)[i] = s[i + 1]
    BY <1>1
  <2>2. link[s[i + 1]] = IF i + 1 = Len(s) THEN NoMessage ELSE s[i + 1 + 1]
    BY <2>1 DEF Linked
  <2>3. i # Len(Tail(s)) => Tail(s)[i + 1] = s[i + 1 + 1]
    <3>1. i # Len(Tail(s)) => i + 1 \in 1..Len(Tail(s))
      OBVIOUS
    <3> QED BY <3>1, <1>1
  <2>4. i = Len(Tail(s)) <=> i + 1 = Len(s)
    BY <1>1
  <2> QED BY <2>1, <2>2, <2>3, <2>4
<1>5. link[q] = NoMessage <=> Len(s) = 1
  <2>1. Len(s) # 1 => 2 \in 1..Len(s) /\ s[2] \in Message
    BY <1>1
  <2> QED BY <2>1, <1>2, AddressAssumption
<1> QED BY <1>1, <1>2, <1>3, <1>4, <1>5 DEF Linked

-----------------------------------------------------------------------------
LEMMA InitHolds == Init => IInv
<1> SUFFICES ASSUME Init PROVE IInv
  OBVIOUS
<1>1. Chain = <<>>
  <2>1. <<>> \in Seq(Message) /\ NoDuplicates(<<>>)
    BY DEF NoDuplicates
  <2>2. Linked(<<>>, prev, queue, NoMessage)
    BY LinkedNone DEF Init
  <2> QED BY <2>1, <2>2, ListFound DEF Chain
<1>2. Elements(Chain) = {} /\ {m \in Elements(Chain) : info[m].async} = {}
  BY <1>1 DEF Elements
<1>3. TypeOK
  <2>1. del \in [message : Link, next : Link, named : SUBSET Message,
                 cleaning : BOOLEAN]
    BY DEF Init, NoDelete, Link
  <2> QED BY <2>1 DEF Init, TypeOK, Link, NoDelete
<1>4. ListInv
  <2>1. <<>> \in Seq(Message) /\ NoDuplicates(<<>>)
    BY DEF NoDuplicates
  <2>2. Linked(Chain, prev, queue, NoMessage)
    BY <1>1, LinkedNone DEF Init
  <2> QED BY <1>1, <1>2, <2>1, <2>2 DEF Init, ListInv
<1>5. CountInv
  BY <1>1, <1>2, FS_EmptySet DEF Init, CountInv, NoDelete
<1>6. InHandInv /\ AddInv /\ DelInv
  BY DEF Init, InHandInv, NoDanglingLink, AddInv, DelInv, NoDelete
<1> QED BY <1>3, <1>4, <1>5, <1>6 DEF IInv

LEMMA AddKeeps ==
    ASSUME IInv, NEW t \in Thread, NEW m \in Message, NEW i \in Info,
           AddMessage(t, m, i)
    PROVE  IInv' /\ Chain' = Append(Chain, m)
<1> DEFINE s == Append(Chain, m)
<1> USE DEF IInv
<1>1. /\ Chain \in Seq(Message) /\ NoDuplicates(Chain) /\ m \notin Elements(Chain)
      /\ Len(Chain) \in Nat /\ s \in Seq(Message) /\ Len(s) = Len(Chain) + 1
      /\ \A j \in 1..Len(Chain) : s[j] = Chain[j] /\ Chain[j] # m
      /\ s[Len(s)] = m /\ NoDuplicates(s)
      /\ Elements(s) = Elements(Chain) \cup {m}
  <2>1. Chain \in Seq(Message) /\ NoDuplicates(Chain) /\ m \notin Elements(Chain)
    BY DEF ListInv, AddMessage, Unused
  <2>2. \A j \in 1..Len(Chain) : Chain[j] # m
    BY <2>1 DEF Elements
  <2> QED BY <2>1, <2>2, Appended
<1>2. prev'[m] = NoMessage /\ prev' \in [Message -> Link]
  BY DEF AddMessage, TypeOK, Link
<1>3. \A j \in 1..Len(Chain) :
         prev'[Chain[j]] = IF j = Len(Chain) THEN m ELSE prev[Chain[j]]
  <2> TAKE j \in 1..Len(Chain)
  <2>1. Chain[j] \in Message /\ Chain[j] # m /\ Len(Chain) \in 1..Len(Chain)
    BY <1>1
  <2>2. head = Chain[Len(Chain)]
    BY <2>1 DEF ListInv
  <2>3. Chain[j] = head <=> j = Len(Chain)
    BY <2>1, <2>2, <1>1 DEF NoDuplicates
  <2> QED BY <2>1, <2>3 DEF AddMessage
<1>4. Linked(s, prev', queue', NoMessage)
  <2>1. Linked(s, prev', IF queue = NoMessage THEN m ELSE queue, NoMessage)
    BY <1>1, <1>2, <1>3, LinkedAppend DEF ListInv
  <2> QED BY <2>1 DEF AddMessage
<1>5. Chain' = s
  BY <1>1, <1>4, ListFound DEF Chain
<1> HIDE DEF s
<1>6. /\ info'[m] = i /\ info' \in [Message -> Info \cup {Blank}]
      /\ \A n \in Message : n # m => info'[n] = info[n]
  BY DEF AddMessage, TypeOK
<1>7. /\ lock = NoThread /\ lock' = t /\ del' = del /\ del = NoDelete
      /\ inHand' = inHand /\ ~del.cleaning /\ count' = count
      /\ adding = NoMessage /\ adding' = m /\ m # NoMessage
  BY AddressAssumption DEF AddMessage, AddInv, DelInv, NoDelete
<1>8. TypeOK'
  <2>1. /\ queue' \in Link /\ head' \in Link /\ adding' \in Link
        /\ count' \in Nat /\ asyncCount' \in Nat
    BY <1>7 DEF AddMessage, TypeOK, Link
  <2> QED BY <2>1, <1>2, <1>6, <1>7 DEF TypeOK
<1>9. ListInv'
  <2>1. head' = m /\ s # <<>>
    BY <1>1 DEF AddMessage
  <2>2. \A n \in Elements(s) : info'[n] \in Info
    <3>1. Elements(Chain) \subseteq Message
      BY <1>1 DEF Elements
    <3> QED BY <3>1, <1>1, <1>6 DEF ListInv
  <2> QED BY <2>1, <2>2, <1>1, <1>4, <1>5 DEF ListInv
<1>10. CountInv'
  <2> DEFINE A == {n \in Elements(Chain) : info[n].async}
             B == {n \in Elements(s) : info'[n].async}
  <2>1. IsFiniteSet(A) /\ m \notin A
    BY <1>1, FinitelyMany
  <2>2. B = IF i.async THEN A \cup {m} ELSE A
    <3>1. \A n \in Elements(Chain) : info'[n] = info[n]
      BY <1>1, <1>6 DEF Elements
    <3> QED BY <3>1, <1>1, <1>6
  <2>3. Cardinality(B) = IF i.async THEN Cardinality(A) + 1 ELSE Cardinality(A)
    <3> HIDE DEF A, B
    <3> QED BY <2>1, <2>2, FS_AddElement
  <2>4. asyncCount = Cardinality(A)
    BY DEF CountInv
  <2>5. asyncCount' = Cardinality(B)
    BY <2>3, <2>4 DEF AddMessage
  <2>6. count' = Len(s) - 1
    BY <1>1, <1>7 DEF CountInv
  <2> QED BY <2>5, <2>6, <1>5, <1>7 DEF CountInv
<1>11. InHandInv'
  <2>1. \A u \in Thread : inHand[u] # m
    BY DEF AddMessage, Unused
  <2> QED BY <2>1, <1>1, <1>5, <1>7 DEF InHandInv, NoDanglingLink
<1>12. AddInv' /\ DelInv'
  BY <1>7, ThreadAssumption DEF AddMessage, AddInv, DelInv
<1> QED BY <1>5, <1>8, <1>9, <1>10, <1>11, <1>12 DEF s

\* A step that leaves the links of the list alone leaves the list alone, and
\* what is said of it, when it does not touch its messages either.
LEMMA SameList ==
    ASSUME IInv, queue' = queue, head' = head,
           \A m \in Elements(Chain) : prev'[m] = prev[m] /\ info'[m] = info[m]
    PROVE  /\ Chain' = Chain /\ ListInv'
           /\ {m \in Elements(Chain') : info'[m].async}
                = {m \in Elements(Chain) : info[m].async}
<1> USE DEF IInv
<1>1. \A i \in 1..Len(Chain) : Chain[i] \in Elements(Chain)
  BY DEF Elements
<1>2. Linked(Chain, prev', queue', NoMessage)
  BY <1>1 DEF ListInv, Linked
<1>3. Chain' = Chain
  BY <1>2, ListFound DEF ListInv, Chain
<1>4. ListInv'
  BY <1>2, <1>3 DEF ListInv
<1> QED BY <1>3, <1>4

LEMMA AddCountKeeps ==
    ASSUME IInv, NEW t \in Thread, AddCount(t)
    PROVE  IInv' /\ Chain' = Chain /\ info' = info
<1> USE DEF IInv
<1>1. /\ queue' = queue /\ head' = head /\ prev' = prev /\ info' = info
      /\ asyncCount' = asyncCount /\ inHand' = inHand /\ del' = del
      /\ count' = count + 1 /\ adding # NoMessage
      /\ lock' = NoThread /\ adding' = NoMessage
  BY DEF AddCount
<1>2. del = NoDelete /\ ~del.cleaning
  BY <1>1 DEF AddInv, NoDelete
<1>3. /\ Chain' = Chain /\ ListInv'
      /\ {n \in Elements(Chain') : info'[n].async}
            = {n \in Elements(Chain) : info[n].async}
  BY <1>1, SameList
<1>4. CountInv'
  <2>1. count = Len(Chain) - 1 /\ Len(Chain) \in Nat
    BY <1>1, <1>2 DEF CountInv, ListInv
  <2> QED BY <2>1, <1>1, <1>2, <1>3 DEF CountInv
<1>5. TypeOK'
  BY <1>1 DEF TypeOK, Link
<1>6. InHandInv' /\ AddInv' /\ DelInv'
  BY <1>1, <1>2, <1>3 DEF InHandInv, NoDanglingLink, AddInv, DelInv
<1> QED BY <1>1, <1>3, <1>4, <1>5, <1>6

LEMMA ReadKeeps ==
    ASSUME IInv, NEW t \in Thread, NEW w \in BOOLEAN, ReadMessage(t, w)
    PROVE  IInv' /\ Chain # <<>> /\ queue = Head(Chain) /\ Chain' = Tail(Chain)
<1> DEFINE s == Tail(Chain)
<1> USE DEF IInv
<1>1. queue \in Message /\ Chain # <<>>
  BY AddressAssumption DEF ReadMessage, TypeOK, Link, ListInv, Linked
<1>2. /\ Chain \in Seq(Message) /\ NoDuplicates(Chain)
      /\ queue = Chain[1] /\ queue = Head(Chain)
      /\ Linked(s, prev, prev[queue], NoMessage)
      /\ prev[queue] = NoMessage <=> Len(Chain) = 1
  BY <1>1, LinkedTail DEF ListInv
<1>3. /\ s \in Seq(Message) /\ Len(Chain) \in Nat /\ 1 \in 1..Len(Chain)
      /\ Len(s) = Len(Chain) - 1
      /\ \A i \in 1..Len(s) : s[i] = Chain[i + 1]
      /\ Elements(Chain) = {queue} \cup Elements(s)
      /\ NoDuplicates(s) /\ queue \notin Elements(s)
  BY <1>1, <1>2, HeadAndTail
<1>4. prev' = prev /\ info' = info /\ lock' = lock /\ del' = del /\ lock = NoThread
      /\ queue' = prev[queue] /\ del = NoDelete /\ ~del.cleaning
      /\ adding = NoMessage /\ adding' = adding
  BY DEF ReadMessage, AddInv, DelInv, NoDelete
<1>5. Linked(s, prev', queue', NoMessage)
  BY <1>2, <1>4
<1>6. Chain' = s
  BY <1>3, <1>5, ListFound DEF Chain
<1> HIDE DEF s
<1>7. inHand' = [inHand EXCEPT ![t] = queue] /\ inHand' \in [Thread -> Link]
  BY <1>1 DEF ReadMessage, TypeOK, Link
<1>8. ListInv'
  <2>1. head' = IF s = <<>> THEN NoMessage ELSE s[Len(s)]
    <3>1. CASE Len(Chain) = 1
      <4>1. s = <<>>
        BY <3>1, <1>3
      <4> QED BY <4>1, <3>1, <1>2 DEF ReadMessage
    <3>2. CASE Len(Chain) # 1
      <4>1. Len(s) \in 1..Len(s) /\ s # <<>> /\ s[Len(s)] = Chain[Len(Chain)]
        BY <3>2, <1>3
      <4> QED BY <4>1, <3>2, <1>1, <1>2 DEF ReadMessage, ListInv
    <3> QED BY <3>1, <3>2
  <2>2. \A m \in Elements(s) : info[m] \in Info
    BY <1>3 DEF ListInv
  <2> QED BY <2>1, <2>2, <1>3, <1>4, <1>5, <1>6 DEF ListInv
<1>9. CountInv'
  <2> DEFINE A == {n \in Elements(Chain) : info[n].async}
             B == {n \in Elements(s) : info[n].async}
  <2>1. IsFiniteSet(A)
    BY <1>2, FinitelyMany
  <2>2. B = A \ {queue} /\ (queue \in A <=> info[queue].async)
    BY <1>3
  <2>3. Cardinality(B) =
           IF info[queue].async THEN Cardinality(A) - 1 ELSE Cardinality(A)
    <3> HIDE DEF A, B
    <3> QED BY <2>1, <2>2, FS_RemoveElement
  <2>4. asyncCount = Cardinality(A) /\ count = Len(Chain)
    BY <1>4 DEF CountInv
  <2>5. asyncCount' = Cardinality(B) /\ count' = Len(s)
    BY <2>3, <2>4, <1>3 DEF ReadMessage, AsyncWithout
  <2> QED BY <2>5, <1>4, <1>6 DEF CountInv
<1>10. TypeOK'
  <2>1. queue' \in Link /\ head' \in Link
    BY <1>1 DEF ReadMessage, TypeOK, Link
  <2>2. Len(s) \in Nat
    BY <1>3
  <2>3. Cardinality({n \in Elements(s) : info[n].async}) \in Nat
    BY <1>3, FinitelyMany
  <2>4. count' \in Nat /\ asyncCount' \in Nat
    BY <2>2, <2>3, <1>4, <1>6, <1>9 DEF CountInv
  <2> QED BY <2>1, <2>4, <1>4, <1>7 DEF TypeOK
<1>11. InHandInv'
  BY <1>1, <1>3, <1>4, <1>6, <1>7 DEF InHandInv, NoDanglingLink, TypeOK
<1>12. AddInv' /\ DelInv'
  BY <1>4 DEF AddInv, DelInv
<1> QED BY <1>1, <1>2, <1>6, <1>8, <1>9, <1>10, <1>11, <1>12 DEF s

\* The messages in hand and the one being cleaned are none of the list's.
LEMMA FreedIsNotListed ==
    ASSUME IInv, NEW m \in Message, m \notin Elements(Chain), Free(m)
    PROVE  /\ \A n \in Elements(Chain) : prev'[n] = prev[n] /\ info'[n] = info[n]
           /\ \A n \in Message : n # m => prev'[n] = prev[n]
           /\ prev' \in [Message -> Link]
           /\ info' \in [Message -> Info \cup {Blank}]
<1>1. Elements(Chain) \subseteq Message
  BY DEF IInv, ListInv, Elements
<1>2. prev \in [Message -> Link] /\ info \in [Message -> Info \cup {Blank}]
  BY DEF IInv, TypeOK
<1> QED BY <1>1, <1>2 DEF Free, Link

LEMMA DeleteReadKeeps ==
    ASSUME IInv, NEW t \in Thread, DeleteRead(t)
    PROVE  IInv' /\ Chain' = Chain
                 /\ \A n \in Elements(Chain) : info'[n] = info[n]
<1> DEFINE m == inHand[t]
<1> USE DEF IInv
<1>1. /\ m \in Message /\ m \notin Elements(Chain) /\ Free(m)
      /\ del.cleaning => m # del.message
  BY DEF DeleteRead, TypeOK, Link, InHandInv, NoDanglingLink
<1>2. /\ \A n \in Elements(Chain) : prev'[n] = prev[n] /\ info'[n] = info[n]
      /\ \A n \in Message : n # m => prev'[n] = prev[n]
      /\ prev' \in [Message -> Link] /\ info' \in [Message -> Info \cup {Blank}]
  BY <1>1, FreedIsNotListed
<1>3. /\ queue' = queue /\ head' = head /\ count' = count
      /\ asyncCount' = asyncCount /\ lock' = lock /\ del' = del
      /\ adding' = adding /\ inHand' = [inHand EXCEPT ![t] = NoMessage]
  BY DEF DeleteRead
<1>4. /\ Chain' = Chain /\ ListInv'
      /\ {n \in Elements(Chain') : info'[n].async}
            = {n \in Elements(Chain) : info[n].async}
  BY <1>2, <1>3, SameList
<1>5. TypeOK'
  BY <1>2, <1>3 DEF TypeOK, Link
<1>6. CountInv'
  BY <1>3, <1>4 DEF CountInv
<1>7. InHandInv'
  BY <1>3, <1>4, AddressAssumption DEF InHandInv, NoDanglingLink, DelInv, TypeOK
<1>8. DelInv'
  BY <1>1, <1>2, <1>3, <1>4 DEF DelInv
<1>9. AddInv'
  BY <1>3 DEF AddInv
<1> QED BY <1>2, <1>4, <1>5, <1>6, <1>7, <1>8, <1>9
-----------------------------------------------------------------------------
LEMMA DelBeginKeeps ==
    ASSUME IInv, NEW t \in Thread, NEW S \in SUBSET Message, DelBegin(t, S)
    PROVE  IInv' /\ Chain' = Chain /\ info' = info
<1> USE DEF IInv
<1>1. /\ queue' = queue /\ head' = head /\ prev' = prev /\ count' = count
      /\ asyncCount' = asyncCount /\ info' = info /\ inHand' = inHand
      /\ lock' = t /\ lock = NoThread /\ del = NoDelete
      /\ adding = NoMessage /\ adding' = NoMessage
  BY DEF DelBegin, list, AddInv, DelInv
<1>2. /\ del' = [NoDelete EXCEPT !.message = queue, !.named = S]
      /\ del'.message = queue /\ del'.next = NoMessage /\ del'.named = S
      /\ ~del'.cleaning /\ ~del.cleaning
  BY <1>1 DEF DelBegin, NoDelete
<1>3. /\ Chain' = Chain /\ ListInv'
      /\ {n \in Elements(Chain') : info'[n].async}
            = {n \in Elements(Chain) : info[n].async}
  BY <1>1, SameList
<1>4. TypeOK'
  <2>1. del' \in [message : Link, next : Link, named : SUBSET Message,
                  cleaning : BOOLEAN]
    BY <1>2 DEF TypeOK, NoDelete, Link
  <2> QED BY <1>1, <2>1 DEF TypeOK
<1>5. CountInv' /\ InHandInv'
  BY <1>1, <1>2, <1>3 DEF CountInv, InHandInv, NoDanglingLink
<1>6. DelInv'
  <2>1. 0 \in 0..Len(Chain) /\ (0 = Len(Chain) <=> Chain = <<>>)
    BY DEF ListInv
  <2>2. queue = IF 0 = Len(Chain) THEN NoMessage ELSE Chain[0 + 1]
    BY <2>1 DEF ListInv, Linked
  <2> QED BY <2>1, <2>2, <1>1, <1>2, <1>3, ThreadAssumption DEF DelInv
<1>7. AddInv'
  BY <1>1 DEF AddInv
<1> QED BY <1>1, <1>3, <1>4, <1>5, <1>6, <1>7

\* Where a removal under way has got to, when it is at a message.
LEMMA AtMessage ==
    ASSUME IInv, lock # NoThread, adding = NoMessage, del.message # NoMessage,
           ~del.cleaning
    PROVE  \E k \in 0..(Len(Chain) - 1) :
              /\ k + 1 \in 1..Len(Chain) /\ del.message = Chain[k + 1]
              /\ del.message \in Message /\ del.message \in Elements(Chain)
              /\ del.next = IF k = 0 THEN NoMessage ELSE Chain[k]
              /\ k # 0 => k \in 1..Len(Chain) /\ Chain[k] \in Message
                          /\ Chain[k] # del.message
              /\ \A i \in 1..k : Chain[i] \notin del.named
              /\ prev[del.message] = IF k + 1 = Len(Chain) THEN NoMessage
                                     ELSE Chain[k + 2]
<1> USE DEF IInv
<1>1. PICK k \in 0..Len(Chain) :
         /\ del.next = IF k = 0 THEN NoMessage ELSE Chain[k]
         /\ \A i \in 1..k : Chain[i] \notin del.named
         /\ del.message = IF k = Len(Chain) THEN NoMessage ELSE Chain[k + 1]
  BY DEF DelInv
<1>2. Chain \in Seq(Message) /\ Len(Chain) \in Nat
  BY DEF ListInv
<1>3. k \in 0..(Len(Chain) - 1) /\ k + 1 \in 1..Len(Chain)
      /\ del.message = Chain[k + 1] /\ del.message \in Message
      /\ del.message \in Elements(Chain)
  <2>1. k # Len(Chain) /\ del.message = Chain[k + 1]
    BY <1>1
  <2>2. k \in 0..(Len(Chain) - 1) /\ k + 1 \in 1..Len(Chain)
    BY <2>1, <1>2
  <2> QED BY <2>1, <2>2, <1>2 DEF Elements
<1>4. k # 0 => k \in 1..Len(Chain) /\ Chain[k] \in Message /\ Chain[k] # del.message
  <2> SUFFICES ASSUME k # 0
               PROVE  k \in 1..Len(Chain) /\ Chain[k] \in Message
                      /\ Chain[k] # Chain[k + 1]
    BY <1>3
  <2>1. k \in 1..Len(Chain) /\ k # k + 1
    BY <1>3, <1>2
  <2> QED BY <2>1, <1>2, <1>3 DEF ListInv, NoDuplicates
<1>5. prev[del.message] = IF k + 1 = Len(Chain) THEN NoMessage ELSE Chain[k + 2]
  <2>1. k + 1 + 1 = k + 2
    BY <1>3, <1>2
  <2> QED BY <2>1, <1>3 DEF ListInv, Linked
<1> QED BY <1>1, <1>3, <1>4, <1>5

LEMMA DelKeepKeeps ==
    ASSUME IInv, NEW t \in Thread, DelKeep(t)
    PROVE  IInv' /\ Chain' = Chain /\ info' = info
<1> USE DEF IInv
<1>1. /\ queue' = queue /\ head' = head /\ prev' = prev /\ count' = count
      /\ asyncCount' = asyncCount /\ info' = info /\ inHand' = inHand
      /\ lock' = lock /\ lock # NoThread
      /\ del.message # NoMessage /\ del.message \notin del.named
      /\ adding = NoMessage /\ adding' = NoMessage
  BY ThreadAssumption DEF DelKeep, list, AddInv, NoDelete
<1>2. ~del.cleaning
  BY <1>1 DEF DelInv
<1>3. /\ del' = [del EXCEPT !.message = prev[del.message], !.next = del.message]
      /\ del'.message = prev[del.message] /\ del'.next = del.message
      /\ del'.named = del.named /\ ~del'.cleaning
  BY <1>2 DEF DelKeep, TypeOK
<1>4. PICK k \in 0..(Len(Chain) - 1) :
         /\ k + 1 \in 1..Len(Chain) /\ del.message = Chain[k + 1]
         /\ del.message \in Message
         /\ \A i \in 1..k : Chain[i] \notin del.named
         /\ prev[del.message] = IF k + 1 = Len(Chain) THEN NoMessage
                                ELSE Chain[k + 2]
  BY <1>1, <1>2, AtMessage
<1>5. /\ Chain' = Chain /\ ListInv'
      /\ {n \in Elements(Chain') : info'[n].async}
            = {n \in Elements(Chain) : info[n].async}
  BY <1>1, SameList
<1>6. TypeOK'
  <2>1. del' \in [message : Link, next : Link, named : SUBSET Message,
                  cleaning : BOOLEAN]
    BY <1>3, <1>4 DEF TypeOK, Link
  <2> QED BY <1>1, <2>1 DEF TypeOK
<1>7. CountInv' /\ InHandInv'
  BY <1>1, <1>2, <1>3, <1>5 DEF CountInv, InHandInv, NoDanglingLink
<1>8. DelInv'
  <2>1. k + 1 \in 0..Len(Chain) /\ k + 1 # 0 /\ k + 1 + 1 = k + 2
    BY <1>4
  <2>2. \A i \in 1..(k + 1) : Chain[i] \notin del.named
    <3> TAKE i \in 1..(k + 1)
    <3>1. i \in 1..k \/ i = k + 1
      BY <2>1
    <3> QED BY <3>1, <1>1, <1>4
  <2>3. del'.next = IF k + 1 = 0 THEN NoMessage ELSE Chain'[k + 1]
    BY <2>1, <1>3, <1>4, <1>5
  <2>4. del'.message = IF k + 1 = Len(Chain') THEN NoMessage ELSE Chain'[k + 1 + 1]
    BY <2>1, <1>3, <1>4, <1>5
  <2> QED BY <2>1, <2>2, <2>3, <2>4, <1>1, <1>3, <1>5 DEF DelInv
<1>9. AddInv'
  BY <1>1 DEF AddInv
<1> QED BY <1>1, <1>5, <1>6, <1>7, <1>8, <1>9

\* A message leaves the list: the only step of a removal that changes it.
LEMMA DelUnlinkKeeps ==
    ASSUME IInv, NEW t \in Thread, DelUnlink(t)
    PROVE  /\ IInv' /\ info' = info /\ del'.named = del.named
           /\ \E k \in 1..Len(Chain) : /\ Chain[k] \in del.named
                                       /\ Chain' = Cut(Chain, k)
<1> DEFINE m == del.message
<1> USE DEF IInv
<1>1. /\ count' = count /\ info' = info /\ inHand' = inHand /\ lock' = lock
      /\ lock # NoThread /\ m # NoMessage /\ m \in del.named /\ ~del.cleaning
      /\ prev' = Relinked(m) /\ asyncCount' = AsyncWithout(m)
      /\ queue' = IF del.next # NoMessage THEN queue ELSE prev[m]
      /\ head' = HeadWithout(m, queue')
      /\ adding = NoMessage /\ adding' = NoMessage
  BY ThreadAssumption DEF DelUnlink, AddInv, NoDelete
<1>2. /\ del' = [del EXCEPT !.cleaning = TRUE]
      /\ del'.message = m /\ del'.next = del.next /\ del'.named = del.named
      /\ del'.cleaning
  BY DEF DelUnlink, TypeOK
<1>3. PICK k \in 0..(Len(Chain) - 1) :
         /\ k + 1 \in 1..Len(Chain) /\ m = Chain[k + 1]
         /\ m \in Message /\ m \in Elements(Chain)
         /\ del.next = IF k = 0 THEN NoMessage ELSE Chain[k]
         /\ k # 0 => k \in 1..Len(Chain) /\ Chain[k] \in Message /\ Chain[k] # m
         /\ \A i \in 1..k : Chain[i] \notin del.named
         /\ prev[m] = IF k + 1 = Len(Chain) THEN NoMessage ELSE Chain[k + 2]
  BY <1>1, AtMessage
<1> DEFINE s == Cut(Chain, k + 1)
<1>4. /\ Chain \in Seq(Message) /\ NoDuplicates(Chain) /\ Len(Chain) \in Nat
      /\ s \in Seq(Message) /\ NoDuplicates(s) /\ Len(s) = Len(Chain) - 1
      /\ \A i \in 1..(Len(Chain) - 1) :
            s[i] = IF i < k + 1 THEN Chain[i] ELSE Chain[i + 1]
      /\ Elements(s) = Elements(Chain) \ {m}
  <2>1. Chain \in Seq(Message) /\ NoDuplicates(Chain)
    BY DEF ListInv
  <2>2. Len(Chain) \in Nat /\ k + 1 \in 1..Len(Chain) /\ m = Chain[k + 1]
    BY <1>3, <2>1
  <2>3. /\ s \in Seq(Message) /\ Len(s) = Len(Chain) - 1
        /\ \A i \in 1..(Len(Chain) - 1) :
              s[i] = IF i < k + 1 THEN Chain[i] ELSE Chain[i + 1]
        /\ NoDuplicates(s) /\ Elements(s) = Elements(Chain) \ {Chain[k + 1]}
    <3> SUFFICES ASSUME NEW j \in 1..Len(Chain), j = k + 1
                 PROVE  /\ Cut(Chain, j) \in Seq(Message)
                        /\ Len(Cut(Chain, j)) = Len(Chain) - 1
                        /\ \A i \in 1..(Len(Chain) - 1) : Cut(Chain, j)[i] =
                              IF i < j THEN Chain[i] ELSE Chain[i + 1]
                        /\ NoDuplicates(Cut(Chain, j))
                        /\ Elements(Cut(Chain, j)) = Elements(Chain) \ {Chain[j]}
      BY <2>2
    <3> HIDE DEF IInv, m, s
    <3>1. Cut(Chain, j) \in Seq(Message) /\ Len(Cut(Chain, j)) = Len(Chain) - 1
      BY <2>1, CutKeeps
    <3>2. /\ NoDuplicates(Cut(Chain, j))
          /\ Elements(Cut(Chain, j)) = Elements(Chain) \ {Chain[j]}
      BY <2>1, CutKeeps
    <3>3. \A i \in 1..(Len(Chain) - 1) : Cut(Chain, j)[i] =
              IF i < j THEN Chain[i] ELSE Chain[i + 1]
      BY <2>1, CutKeeps
    <3> QED BY <3>1, <3>2, <3>3
  <2> QED BY <2>1, <2>2, <2>3
<1>5. /\ del.next # NoMessage <=> k # 0
      /\ prev' \in [Message -> Link]
      /\ \A n \in Message : prev'[n] = IF k # 0 /\ n = Chain[k] THEN prev[m]
                                       ELSE prev[n]
  <2>1. del.next # NoMessage <=> k # 0
    BY <1>3, AddressAssumption
  <2>2. prev' = IF k # 0 THEN [prev EXCEPT ![Chain[k]] = prev[m]] ELSE prev
    BY <2>1, <1>1, <1>3 DEF Relinked
  <2>3. prev \in [Message -> Link] /\ prev[m] \in Link
    BY <1>3 DEF TypeOK
  <2> QED BY <2>1, <2>2, <2>3, <1>3
<1>6. Linked(s, prev', queue', NoMessage)
  <2> SUFFICES ASSUME NEW j \in 1..Len(Chain), j = k + 1
               PROVE  Linked(Cut(Chain, j), prev', queue', NoMessage)
    BY <1>3
  <2>1. \A i \in 1..Len(Chain) : i # j - 1 /\ i # j =>
           prev'[Chain[i]] = prev[Chain[i]]
    <3> SUFFICES ASSUME NEW i \in 1..Len(Chain), i # k
                 PROVE  prev'[Chain[i]] = prev[Chain[i]]
      BY <1>3
    <3>1. Chain[i] \in Message /\ (k # 0 => Chain[i] # Chain[k])
      BY <1>3, <1>4 DEF NoDuplicates
    <3> QED BY <3>1, <1>5
  <2>2. j # 1 => prev'[Chain[j - 1]] = prev[Chain[j]]
    <3>1. j - 1 = k /\ (j # 1 => k # 0) /\ m = Chain[j]
      BY <1>3
    <3> QED BY <3>1, <1>3, <1>5
  <2>3. queue' = IF j = 1 THEN prev[Chain[j]] ELSE queue
    <3>1. j = 1 <=> k = 0
      BY <1>3
    <3> QED BY <3>1, <1>1, <1>3, <1>5
  <2>4. Linked(Chain, prev, queue, NoMessage)
    BY DEF ListInv
  <2>5. Linked(Cut(Chain, j), prev', IF j = 1 THEN prev[Chain[j]] ELSE queue,
               NoMessage)
    <3>1. Chain \in Seq(Message) /\ NoDuplicates(Chain)
      BY <1>4
    <3> HIDE DEF s, m
    <3> QED BY <2>1, <2>2, <2>4, <3>1, LinkedCut, Zenon
  <2> QED BY <2>3, <2>5
<1>7. Chain' = s
  BY <1>4, <1>6, ListFound DEF Chain
<1> HIDE DEF s, m
<1>8. ListInv'
  <2>1. head' = IF s = <<>> THEN NoMessage ELSE s[Len(s)]
    <3>1. queue' = IF s = <<>> THEN NoMessage ELSE s[1]
      BY <1>6 DEF Linked
    <3>2. CASE s = <<>>
      BY <3>1, <3>2, <1>1 DEF HeadWithout
    <3>3. CASE s # <<>>
      <4>1. /\ Len(s) \in 1..Len(s) /\ 1 \in 1..Len(s) /\ Len(s) \in 1..(Len(Chain) - 1)
            /\ Len(Chain) \in 1..Len(Chain)
        BY <3>3, <1>4
      <4>2. queue' # NoMessage /\ Chain # <<>> /\ head = Chain[Len(Chain)]
        BY <4>1, <3>1, <3>3, <1>4, AddressAssumption DEF ListInv
      <4>3. m = head <=> k + 1 = Len(Chain)
        BY <4>1, <4>2, <1>3, <1>4 DEF NoDuplicates
      <4>4. s[Len(s)] = IF k + 1 = Len(Chain) THEN Chain[k] ELSE Chain[Len(Chain)]
        <5>1. s[Len(s)] = IF Len(s) < k + 1 THEN Chain[Len(s)]
                          ELSE Chain[Len(s) + 1]
          BY <4>1, <1>4
        <5>2. Len(s) + 1 = Len(Chain) /\ (Len(s) < k + 1 <=> k + 1 = Len(Chain))
          BY <1>3, <1>4
        <5>3. k + 1 = Len(Chain) => Len(s) = k
          BY <1>3, <1>4
        <5> QED BY <5>1, <5>2, <5>3
      <4>5. k + 1 = Len(Chain) => k # 0
        BY <4>1, <1>3, <1>4
      <4> QED BY <4>2, <4>3, <4>4, <4>5, <3>3, <1>1, <1>3 DEF HeadWithout
    <3> QED BY <3>2, <3>3
  <2>2. \A n \in Elements(s) : info[n] \in Info
    BY <1>4 DEF ListInv
  <2> QED BY <2>1, <2>2, <1>1, <1>4, <1>6, <1>7 DEF ListInv
<1>9. CountInv'
  <2> DEFINE A == {n \in Elements(Chain) : info[n].async}
             B == {n \in Elements(s) : info[n].async}
  <2>1. IsFiniteSet(A)
    BY <1>4, FinitelyMany
  <2>2. B = A \ {m} /\ (m \in A <=> info[m].async)
    BY <1>3, <1>4
  <2>3. Cardinality(B) = IF info[m].async THEN Cardinality(A) - 1
                         ELSE Cardinality(A)
    <3> HIDE DEF A, B
    <3> QED BY <2>1, <2>2, FS_RemoveElement
  <2>4. asyncCount' = Cardinality(B)
    BY <2>3, <1>1 DEF AsyncWithout, CountInv
  <2>5. count' = Len(s) + 1
    BY <1>1, <1>4 DEF CountInv
  <2> QED BY <2>4, <2>5, <1>1, <1>2, <1>7 DEF CountInv
<1>10. TypeOK'
  <2>1. queue' \in Link /\ head' \in Link
    BY <1>1, <1>3 DEF TypeOK, Link, HeadWithout, m
  <2>2. Len(s) \in Nat
    BY <1>4
  <2>3. Cardinality({n \in Elements(s) : info[n].async}) \in Nat
    BY <1>4, FinitelyMany
  <2>4. asyncCount' \in Nat
    BY <2>3, <1>1, <1>7, <1>9 DEF CountInv
  <2>5. del' \in [message : Link, next : Link, named : SUBSET Message,
                  cleaning : BOOLEAN]
    BY <1>2 DEF TypeOK
  <2> QED BY <2>1, <2>4, <2>5, <1>1, <1>5 DEF TypeOK
<1>11. InHandInv'
  BY <1>1, <1>2, <1>3, <1>4, <1>7 DEF InHandInv, NoDanglingLink
<1>12. DelInv'
  <2>1. k \in 0..Len(s) /\ (k = Len(s) <=> k + 1 = Len(Chain))
    BY <1>3, <1>4
  <2>2. \A i \in 1..k : s[i] = Chain[i]
    <3> TAKE i \in 1..k
    <3>1. i \in 1..(Len(Chain) - 1) /\ i < k + 1
      BY <1>3, <1>4
    <3> QED BY <3>1, <1>4
  <2>3. k # 0 => s[k] = Chain[k]
    BY <2>1, <2>2
  <2>4. prev'[m] = IF k = Len(s) THEN NoMessage ELSE s[k + 1]
    <3>1. prev'[m] = prev[m]
      BY <1>3, <1>5
    <3>2. k # Len(s) => s[k + 1] = Chain[k + 2]
      <4> SUFFICES ASSUME k # Len(s) PROVE s[k + 1] = Chain[k + 2]
        OBVIOUS
      <4>1. k + 1 \in 1..(Len(Chain) - 1) /\ ~(k + 1 < k + 1) /\ k + 1 + 1 = k + 2
        BY <2>1, <1>4
      <4> QED BY <4>1, <1>4
    <3> QED BY <3>1, <3>2, <2>1, <1>3
  <2> QED BY <2>1, <2>2, <2>3, <2>4, <1>1, <1>2, <1>3, <1>7 DEF DelInv
<1>13. AddInv'
  BY <1>1 DEF AddInv
<1> QED BY <1>1, <1>2, <1>3, <1>7, <1>8, <1>9, <1>10, <1>11, <1>12, <1>13 DEF s, m

LEMMA DelFreeKeeps ==
    ASSUME IInv, NEW t \in Thread, DelFree(t)
    PROVE  /\ IInv' /\ Chain' = Chain /\ del'.named = del.named
           /\ \A n \in Elements(Chain) : info'[n] = info[n]
<1> DEFINE m == del.message
<1> USE DEF IInv
<1>1. /\ del.cleaning /\ m \in Message /\ m \notin Elements(Chain) /\ Free(m)
      /\ \A u \in Thread : inHand[u] # m
  BY DEF DelFree, DelInv, InHandInv, NoDanglingLink
<1>2. /\ queue' = queue /\ head' = head /\ asyncCount' = asyncCount
      /\ inHand' = inHand /\ lock' = lock /\ lock # NoThread /\ count' = count - 1
      /\ adding = NoMessage /\ adding' = NoMessage
  BY ThreadAssumption DEF DelFree, AddInv, NoDelete
<1>3. /\ del' = [del EXCEPT !.message = prev[m], !.cleaning = FALSE]
      /\ del'.message = prev[m] /\ del'.next = del.next
      /\ del'.named = del.named /\ ~del'.cleaning
  BY DEF DelFree, TypeOK
<1>4. /\ \A n \in Elements(Chain) : prev'[n] = prev[n] /\ info'[n] = info[n]
      /\ prev' \in [Message -> Link] /\ info' \in [Message -> Info \cup {Blank}]
  BY <1>1, FreedIsNotListed
<1>5. /\ Chain' = Chain /\ ListInv'
      /\ {n \in Elements(Chain') : info'[n].async}
            = {n \in Elements(Chain) : info[n].async}
  BY <1>2, <1>4, SameList
<1>6. CountInv'
  <2>1. count = Len(Chain) + 1 /\ Len(Chain) \in Nat
    BY <1>1 DEF CountInv, ListInv
  <2>2. count' = Len(Chain)
    BY <2>1, <1>2
  <2> QED BY <2>2, <1>2, <1>3, <1>5 DEF CountInv
<1>7. TypeOK'
  <2>1. count' \in Nat
    BY <1>1, <1>2 DEF CountInv, ListInv
  <2>2. del' \in [message : Link, next : Link, named : SUBSET Message,
                  cleaning : BOOLEAN]
    BY <1>1, <1>3 DEF TypeOK
  <2> QED BY <2>1, <2>2, <1>2, <1>4 DEF TypeOK
<1>8. InHandInv'
  BY <1>2, <1>3, <1>5 DEF InHandInv, NoDanglingLink
<1>9. DelInv'
  BY <1>1, <1>2, <1>3, <1>5 DEF DelInv
<1>10. AddInv'
  BY <1>2 DEF AddInv
<1> QED BY <1>3, <1>4, <1>5, <1>6, <1>7, <1>8, <1>9, <1>10

LEMMA DelEndKeeps ==
    ASSUME IInv, NEW t \in Thread, DelEnd(t)
    PROVE  /\ IInv' /\ Chain' = Chain /\ info' = info
           /\ \A i \in 1..Len(Chain) : Chain[i] \notin del.named
<1> USE DEF IInv
<1>1. /\ queue' = queue /\ head' = head /\ prev' = prev /\ count' = count
      /\ asyncCount' = asyncCount /\ info' = info /\ inHand' = inHand
      /\ lock # NoThread /\ lock' = NoThread /\ del' = NoDelete
      /\ ~del'.cleaning /\ del.message = NoMessage
      /\ adding = NoMessage /\ adding' = NoMessage
  BY ThreadAssumption DEF DelEnd, list, NoDelete
<1>2. ~del.cleaning
  BY <1>1, AddressAssumption DEF DelInv
<1>3. /\ Chain' = Chain /\ ListInv'
      /\ {n \in Elements(Chain') : info'[n].async}
            = {n \in Elements(Chain) : info[n].async}
  BY <1>1, SameList
<1>4. TypeOK'
  <2>1. del' \in [message : Link, next : Link, named : SUBSET Message,
                  cleaning : BOOLEAN]
    BY <1>1 DEF NoDelete, Link
  <2> QED BY <1>1, <2>1 DEF TypeOK
<1>5. CountInv' /\ InHandInv' /\ AddInv' /\ DelInv'
  BY <1>1, <1>2, <1>3 DEF CountInv, InHandInv, NoDanglingLink, AddInv, DelInv
<1>6. \A i \in 1..Len(Chain) : Chain[i] \notin del.named
  <2>1. PICK k \in 0..Len(Chain) :
           /\ \A i \in 1..k : Chain[i] \notin del.named
           /\ del.message = IF k = Len(Chain) THEN NoMessage ELSE Chain[k + 1]
    BY <1>1, <1>2 DEF DelInv
  <2>2. k # Len(Chain) => k + 1 \in 1..Len(Chain) /\ Chain[k + 1] \in Message
    BY <2>1 DEF ListInv
  <2>3. k = Len(Chain)
    BY <2>1, <2>2, <1>1, AddressAssumption
  <2> QED BY <2>1, <2>3
<1> QED BY <1>1, <1>3, <1>4, <1>5, <1>6

LEMMA StepKeeps == IInv /\ [Next]_vars => IInv'
<1> SUFFICES ASSUME IInv, [Next]_vars PROVE IInv'
  OBVIOUS
<1>1. ASSUME NEW t \in Thread, NEW m \in Message, NEW i \in Info, AddMessage(t, m, i)
      PROVE  IInv'
  BY <1>1, AddKeeps
<1>a. ASSUME NEW t \in Thread, AddCount(t) PROVE IInv'
  BY <1>a, AddCountKeeps
<1>2. ASSUME NEW t \in Thread, NEW w \in BOOLEAN, ReadMessage(t, w) PROVE IInv'
  BY <1>2, ReadKeeps
<1>3. ASSUME NEW t \in Thread, DeleteRead(t) PROVE IInv'
  BY <1>3, DeleteReadKeeps
<1>4. ASSUME NEW t \in Thread, NEW d \in Dest, NEW e \in Event, NEW ad \in BOOLEAN,
             NEW ae \in BOOLEAN, DelBegin(t, Named(d, ad, e, ae))
      PROVE  IInv'
  <2>1. Named(d, ad, e, ae) \in SUBSET Message
    BY DEF Named
  <2> QED BY <1>4, <2>1, DelBeginKeeps
<1>5. ASSUME NEW t \in Thread, DelKeep(t) PROVE IInv'
  BY <1>5, DelKeepKeeps
<1>6. ASSUME NEW t \in Thread, DelUnlink(t) PROVE IInv'
  BY <1>6, DelUnlinkKeeps
<1>7. ASSUME NEW t \in Thread, DelFree(t) PROVE IInv'
  BY <1>7, DelFreeKeeps
<1>8. ASSUME NEW t \in Thread, DelEnd(t) PROVE IInv'
  BY <1>8, DelEndKeeps
<1>9. CASE UNCHANGED vars
  <2>1. /\ queue' = queue /\ head' = head /\ prev' = prev /\ count' = count
        /\ asyncCount' = asyncCount /\ info' = info /\ lock' = lock
        /\ inHand' = inHand /\ del' = del /\ adding' = adding
    BY <1>9 DEF vars, list
  <2>2. /\ Chain' = Chain /\ ListInv'
        /\ {n \in Elements(Chain') : info'[n].async}
              = {n \in Elements(Chain) : info[n].async}
    BY <2>1, SameList
  <2> QED BY <2>1, <2>2 DEF IInv, TypeOK, CountInv, InHandInv, NoDanglingLink, AddInv,
                            DelInv
<1> QED BY <1>1, <1>a, <1>2, <1>3, <1>4, <1>5, <1>6, <1>7, <1>8, <1>9 DEF Next

\* The inductive invariant holds.
THEOREM Invariance == Spec => []IInv
BY InitHolds, StepKeeps, PTL DEF Spec

\* Every variable of the list has its type.
THEOREM TypeCorrect == Spec => []TypeOK
<1>1. IInv => TypeOK
  BY DEF IInv
<1> QED BY <1>1, Invariance, PTL

\* ListIsWhole: a free list is in one piece from queue to head, both counters
\* say what is in it, and it never holds what was read or is being cleaned.
THEOREM WholeList == Spec => []ListIsWhole
<1>1. IInv => ListIsWhole
  BY DEF IInv, ListInv, CountInv, InHandInv, AddInv, DelInv, ListIsWhole, NoDelete
<1> QED BY <1>1, Invariance, PTL

\* NeverDeniesAMessage: the counter hasPendingMessages() reads without the mutex
\* denies no message in the list but one that postMessage() has still to count,
\* whatever step an addition or a removal is at.
THEOREM NoDenial == Spec => []NeverDeniesAMessage
<1>1. IInv => NeverDeniesAMessage
  BY DEF IInv, ListInv, CountInv, NeverDeniesAMessage
<1> QED BY <1>1, Invariance, PTL
-----------------------------------------------------------------------------
(* The refinement.  EntryOf is what a message is to the users of the queue.  *)

EntryOf == [m \in Message |-> [at |-> m, dest |-> info[m].dest,
                               event |-> info[m].event, async |-> info[m].async]]

LEMMA EntriesAre ==
    ASSUME NEW s \in Seq(Message)
    PROVE  Entries(s) = [i \in 1..Len(s) |-> EntryOf[s[i]]]
BY DEF Entries, EntryOf

\* The abstract queue is the entries of what the removal under way leaves.
LEMMA QueueIs ==
    ASSUME IInv, NEW s \in Purges(Chain, Hidden)
    PROVE  AbstractQueue = Entries(s)
<1>1. \A r \in Purges(Chain, Hidden) : r = s
  BY PurgesUnique DEF IInv, ListInv
<1>2. {Entries(r) : r \in Purges(Chain, Hidden)} = {Entries(s)}
  BY <1>1
<1> QED BY <1>2 DEF AbstractQueue

QueueIsLeft == \A s \in Purges(Chain, Hidden) : AbstractQueue = Entries(s)

LEMMA QueueAlwaysIs == IInv => QueueIsLeft
BY QueueIs DEF QueueIsLeft

LEMMA QueueNextIs ==
    ASSUME IInv', NEW s \in Purges(Chain', Hidden')
    PROVE  AbstractQueue' = Entries(s)'
<1>1. (IInv => QueueIsLeft)'
  BY QueueAlwaysIs, PTL
<1> QED BY <1>1 DEF QueueIsLeft

\* Nothing changes for the users when what is left of the list is the same.
LEMMA SameQueue ==
    ASSUME IInv, IInv', NEW r \in Purges(Chain, Hidden),
           r \in Purges(Chain', Hidden'),
           \A n \in Elements(Chain) : info'[n] = info[n]
    PROVE  AbstractQueue' = AbstractQueue
<1>1. AbstractQueue = Entries(r) /\ AbstractQueue' = Entries(r)'
  BY QueueIs, QueueNextIs
<1>2. r \in Seq(Message) /\ Elements(r) \subseteq Elements(Chain)
  BY PurgesKeeps DEF IInv, ListInv
<1>3. \A i \in 1..Len(r) : info'[r[i]] = info[r[i]]
  BY <1>2 DEF Elements
<1>4. Entries(r)' = Entries(r)
  BY <1>3 DEF Entries
<1> QED BY <1>1, <1>4

\* Nothing is being removed: the users see the whole list.
LEMMA IdleQueue == IInv /\ lock = NoThread => AbstractQueue = Entries(Chain)
<1> SUFFICES ASSUME IInv, lock = NoThread PROVE AbstractQueue = Entries(Chain)
  OBVIOUS
<1>1. Hidden = {} /\ Chain \in Seq(Message)
  BY DEF IInv, AddInv, DelInv, ListInv, NoDelete, Hidden
<1>2. Chain \in Purges(Chain, Hidden)
  BY <1>1, PurgesKeepsAll
<1> QED BY <1>2, QueueIs

\* Nobody sees a message that is linked ...
LEMMA AddRefines ==
    ASSUME IInv, IInv', NEW t \in Thread, NEW m \in Message, NEW i \in Info,
           AddMessage(t, m, i)
    PROVE  AbstractQueue' = AbstractQueue /\ inHand' = inHand
<1>1. /\ Chain \in Seq(Message) /\ Chain' \in Seq(Message)
      /\ Chain' = Append(Chain, m) /\ m \notin Elements(Chain)
  BY AddKeeps DEF AddMessage, Unused, IInv, ListInv
<1>2. Hidden = {} /\ Hidden' = {m}
  <2>1. m # NoMessage
    BY AddressAssumption
  <2>2. lock = NoThread /\ adding' = m
    BY DEF AddMessage
  <2> QED BY <2>1, <2>2 DEF IInv, AddInv, DelInv, NoDelete, Hidden
<1>3. Chain \in Purges(Chain, {}) /\ Chain \in Purges(Chain, {m})
  <2>1. Elements(Chain) \cap {m} = {} /\ Elements(Chain) \cap {} = {}
    BY <1>1
  <2> QED BY <2>1, <1>1, PurgesKeepsAll
<1>4. Chain \in Purges(Chain', {m})
  <2>1. /\ Len(Chain') \in 1..Len(Chain') /\ Chain'[Len(Chain')] = m
        /\ Cut(Chain', Len(Chain')) = Chain
    BY <1>1, CutsAppended
  <2>2. Purges(Cut(Chain', Len(Chain')), {m}) = Purges(Chain', {m})
    BY <2>1, <1>1, CutPurges
  <2> QED BY <2>1, <2>2, <1>3
<1>5. \A n \in Elements(Chain) : info'[n] = info[n]
  BY <1>1 DEF AddMessage, IInv, TypeOK, Elements
<1> QED BY <1>2, <1>3, <1>4, <1>5, SameQueue DEF AddMessage

\* ... until it is counted, which is when it goes behind the others.
LEMMA AddCountRefines ==
    ASSUME IInv, IInv', NEW t \in Thread, AddCount(t)
    PROVE  Abstract!Next
<1> DEFINE m == adding
           i == info[m]
           n == Len(Chain) - 1
           s == Cut(Chain, Len(Chain))
           q == Entries(s)
           e == [at |-> m, dest |-> i.dest, event |-> i.event, async |-> i.async]
<1>1. /\ Chain' = Chain /\ info' = info /\ inHand' = inHand /\ m # NoMessage
      /\ m \in Message /\ Chain \in Seq(Message) /\ Chain # <<>>
      /\ Len(Chain) \in 1..Len(Chain) /\ m = Chain[Len(Chain)] /\ i \in Info
      /\ NoDuplicates(Chain) /\ m \in Elements(Chain)
  <2>1. Chain' = Chain /\ info' = info /\ inHand' = inHand /\ m # NoMessage
    BY AddCountKeeps DEF AddCount
  <2>2. m \in Message /\ m = head
    BY <2>1 DEF IInv, AddInv, TypeOK, Link
  <2>3. Chain \in Seq(Message) /\ Chain # <<>> /\ m = Chain[Len(Chain)]
        /\ NoDuplicates(Chain)
    BY <2>1, <2>2 DEF IInv, ListInv
  <2>4. Len(Chain) \in 1..Len(Chain)
    BY <2>3
  <2>5. m \in Elements(Chain)
    BY <2>3, <2>4 DEF Elements
  <2> QED BY <2>1, <2>2, <2>3, <2>4, <2>5 DEF IInv, ListInv
<1>2. /\ s \in Seq(Message) /\ Len(s) = n /\ n \in Nat /\ Len(Chain) = n + 1
      /\ \A j \in 1..n : s[j] = Chain[j] /\ Chain[j] # m
      /\ m \notin Elements(s)
  <2> SUFFICES ASSUME NEW k \in 1..Len(Chain), k = Len(Chain)
               PROVE  /\ Cut(Chain, k) \in Seq(Message) /\ Len(Cut(Chain, k)) = n
                      /\ n \in Nat /\ Len(Chain) = n + 1
                      /\ \A j \in 1..n : Cut(Chain, k)[j] = Chain[j] /\ Chain[j] # m
                      /\ m \notin Elements(Cut(Chain, k))
    BY <1>1
  <2>1. /\ Cut(Chain, k) \in Seq(Message) /\ Len(Cut(Chain, k)) = Len(Chain) - 1
        /\ \A j \in 1..(Len(Chain) - 1) : Cut(Chain, k)[j] =
              IF j < k THEN Chain[j] ELSE Chain[j + 1]
        /\ Elements(Cut(Chain, k)) = Elements(Chain) \ {Chain[k]}
    BY <1>1, CutKeeps
  <2>2. n \in Nat /\ Len(Chain) = n + 1
    BY <1>1
  <2>3. \A j \in 1..n : Chain[j] # m
    BY <2>2, <1>1 DEF NoDuplicates
  <2> QED BY <2>1, <2>2, <2>3, <1>1
<1>3. AbstractQueue = q /\ AbstractQueue' = Entries(Chain)
  <2>1. Hidden = {m}
    BY <1>1 DEF Hidden
  <2>2. s \in Purges(s, {m})
    BY <1>2, PurgesKeepsAll
  <2>3. Purges(s, {m}) = Purges(Chain, {m})
    BY <1>1, CutPurges
  <2>4. AbstractQueue = q
    BY <2>1, <2>2, <2>3, QueueIs
  <2>5. lock' = NoThread
    BY DEF AddCount
  <2>6. (IInv /\ lock = NoThread => AbstractQueue = Entries(Chain))'
    BY IdleQueue, PTL
  <2>7. Entries(Chain)' = Entries(Chain)
    BY <1>1 DEF Entries
  <2> QED BY <2>4, <2>5, <2>6, <2>7
<1> HIDE DEF s, n, m
<1>4. /\ Len(q) = n
      /\ \A j \in 1..n :
            q[j] = [at |-> Chain[j], dest |-> info[Chain[j]].dest,
                    event |-> info[Chain[j]].event, async |-> info[Chain[j]].async]
  BY <1>2 DEF Entries
<1>5. Entries(Chain) = Append(q, e)
  <2>1. Entries(Chain) = [j \in 1..(n + 1) |->
            [at |-> Chain[j], dest |-> info[Chain[j]].dest,
             event |-> info[Chain[j]].event, async |-> info[Chain[j]].async]]
    BY <1>2 DEF Entries
  <2>2. ASSUME NEW j \in 1..(n + 1)
        PROVE  Append(q, e)[j] =
                 [at |-> Chain[j], dest |-> info[Chain[j]].dest,
                  event |-> info[Chain[j]].event, async |-> info[Chain[j]].async]
    <3>1. CASE j = n + 1
      <4>1. Append(q, e)[j] = e
        BY <3>1, <1>2, <1>4 DEF Entries
      <4> QED BY <4>1, <3>1, <1>1, <1>2
    <3>2. CASE j # n + 1
      <4>1. j \in 1..n
        BY <3>2, <1>2
      <4>2. Append(q, e)[j] = q[j]
        BY <4>1, <1>2, <1>4 DEF Entries
      <4> QED BY <4>1, <4>2, <1>4
    <3> QED BY <3>1, <3>2
  <2>3. Append(q, e) = [j \in 1..(n + 1) |-> Append(q, e)[j]]
    BY <1>2, <1>4 DEF Entries
  <2> HIDE DEF q, e
  <2> QED BY <2>1, <2>2, <2>3
<1>6. e \in Abstract!Entry /\ e.at = m
  BY <1>1 DEF Abstract!Entry, Info
<1>7. Abstract!Unused(m)
  <2>1. \A j \in 1..Len(q) : q[j].at # m
    <3> HIDE DEF q
    <3> TAKE j \in 1..Len(q)
    <3>1. q[j] = [at |-> Chain[j], dest |-> info[Chain[j]].dest,
                  event |-> info[Chain[j]].event, async |-> info[Chain[j]].async]
      BY <1>4
    <3> QED BY <3>1, <1>2, <1>4
  <2>2. \A u \in Thread : inHand[u] # m
    BY <1>1 DEF IInv, InHandInv, NoDanglingLink
  <2> HIDE DEF q
  <2> QED BY <2>1, <2>2, <1>3 DEF Abstract!Unused
<1> HIDE DEF e, q
<1>8. Abstract!Post(e)
  BY <1>1, <1>3, <1>5, <1>6, <1>7 DEF Abstract!Post
<1> QED BY <1>6, <1>8 DEF Abstract!Next

LEMMA ReadRefines ==
    ASSUME IInv, IInv', NEW t \in Thread, NEW w \in BOOLEAN, ReadMessage(t, w)
    PROVE  Abstract!Next
<1> DEFINE q == Entries(Chain)
<1>1. AbstractQueue = q /\ AbstractQueue' = Entries(Chain)'
  <2>1. lock = NoThread /\ lock' = NoThread
    BY DEF ReadMessage
  <2>2. (IInv /\ lock = NoThread => AbstractQueue = Entries(Chain))'
    BY IdleQueue, PTL
  <2> QED BY <2>1, <2>2, IdleQueue
<1>2. /\ Chain' = Tail(Chain) /\ Chain \in Seq(Message) /\ queue = Chain[1]
      /\ Len(Chain) \in Nat /\ 1 \in 1..Len(Chain) /\ Len(Chain') = Len(Chain) - 1
      /\ \A j \in 1..Len(Chain') : Chain'[j] = Chain[j + 1]
      /\ info' = info
  <2>1. Chain \in Seq(Message) /\ info' = info
    BY DEF IInv, ListInv, ReadMessage
  <2>2. Chain # <<>> /\ queue = Head(Chain) /\ Chain' = Tail(Chain)
    BY ReadKeeps
  <2> QED BY <2>1, <2>2, HeadAndTail
<1>3. /\ Len(q) = Len(Chain) /\ q \in Seq({q[j] : j \in 1..Len(Chain)})
      /\ \A j \in 1..Len(Chain) :
            q[j] = [at |-> Chain[j], dest |-> info[Chain[j]].dest,
                    event |-> info[Chain[j]].event, async |-> info[Chain[j]].async]
  <2>1. q = [j \in 1..Len(Chain) |->
               [at |-> Chain[j], dest |-> info[Chain[j]].dest,
                event |-> info[Chain[j]].event, async |-> info[Chain[j]].async]]
    BY DEF Entries
  <2> HIDE DEF q
  <2>2. Len(q) = Len(Chain)
    BY <2>1, <1>2
  <2>3. q \in [1..Len(Chain) -> {q[j] : j \in 1..Len(Chain)}]
    BY <2>1
  <2>4. q \in Seq({q[j] : j \in 1..Len(Chain)})
    <3>1. \A U : \A n \in Nat : \A f \in [1..n -> U] : f \in Seq(U)
      OBVIOUS
    <3>2. Len(Chain) \in Nat
      BY <1>2
    <3> QED BY <2>3, <3>1, <3>2, Zenon
  <2> QED BY <2>1, <2>2, <2>4
<1>4. q # <<>> /\ Head(q) = q[1]
  BY <1>2, <1>3
<1>5. Entries(Chain)' = Tail(q)
  <2>1. Entries(Chain)' = [j \in 1..(Len(Chain) - 1) |->
            [at |-> Chain'[j], dest |-> info[Chain'[j]].dest,
             event |-> info[Chain'[j]].event, async |-> info[Chain'[j]].async]]
    BY <1>2 DEF Entries
  <2> HIDE DEF q
  <2>2. /\ Tail(q) = [j \in 1..Len(Tail(q)) |-> Tail(q)[j]]
        /\ Len(Tail(q)) = Len(Chain) - 1
        /\ \A j \in 1..Len(Tail(q)) : Tail(q)[j] = q[j + 1]
    <3>1. Tail(q) \in Seq({q[j] : j \in 1..Len(Chain)})
      BY <1>3, <1>4, HeadAndTail
    <3>2. Tail(q) = [j \in 1..Len(Tail(q)) |-> Tail(q)[j]]
      <4>1. \A T : \A u \in Seq(T) : u = [j \in 1..Len(u) |-> u[j]]
        OBVIOUS
      <4> QED BY <3>1, <4>1, Zenon
    <3> QED BY <3>2, <1>3, <1>4, HeadAndTail
  <2>3. ASSUME NEW j \in 1..(Len(Chain) - 1)
        PROVE  Tail(q)[j] =
                 [at |-> Chain'[j], dest |-> info[Chain'[j]].dest,
                  event |-> info[Chain'[j]].event, async |-> info[Chain'[j]].async]
    <3>1. /\ j + 1 \in 1..Len(Chain) /\ Chain'[j] = Chain[j + 1]
          /\ Tail(q)[j] = q[j + 1]
      BY <2>2, <1>2
    <3> QED BY <3>1, <1>3
  <2> QED BY <2>1, <2>2, <2>3
<1>6. /\ inHand[t] = NoMessage /\ ~(w /\ info[queue].async)
      /\ inHand' = [inHand EXCEPT ![t] = queue]
  BY DEF ReadMessage
<1>7. Head(q).at = queue /\ Head(q).async = info[queue].async
  <2>1. q[1] = [at |-> Chain[1], dest |-> info[Chain[1]].dest,
                event |-> info[Chain[1]].event, async |-> info[Chain[1]].async]
    BY <1>2, <1>3
  <2> HIDE DEF q
  <2> QED BY <2>1, <1>2, <1>4
<1> HIDE DEF q
<1>8. Abstract!Read(t, w)
  BY <1>1, <1>4, <1>5, <1>6, <1>7 DEF Abstract!Read
<1> QED BY <1>8 DEF Abstract!Next

LEMMA DelBeginRefines ==
    ASSUME IInv, IInv', NEW t \in Thread, NEW d \in Dest, NEW e \in Event,
           NEW ad \in BOOLEAN, NEW ae \in BOOLEAN,
           DelBegin(t, Named(d, ad, e, ae))
    PROVE  Abstract!Next
<1> DEFINE S == Named(d, ad, e, ae)
           q == Entries(Chain)
           R == {x \in Elements(q) : /\ ad \/ x.dest = d
                                     /\ ae \/ x.event = e}
<1>1. /\ AbstractQueue = q /\ Chain \in Seq(Message)
      /\ q = [i \in 1..Len(Chain) |-> EntryOf[Chain[i]]]
  BY IdleQueue, EntriesAre DEF DelBegin, IInv, ListInv
<1>2. /\ Chain' = Chain /\ info' = info /\ inHand' = inHand /\ Hidden' = S
  <2>1. S \in SUBSET Message
    BY DEF Named
  <2>2. Chain' = Chain
    BY <2>1, DelBeginKeeps
  <2> QED BY <2>2 DEF DelBegin, NoDelete, IInv, AddInv, Hidden
<1>3. PICK r \in Purges(Chain, S) : TRUE
  BY <1>1, PurgesExists
<1>4. r \in Seq(Message) /\ AbstractQueue' = [i \in 1..Len(r) |-> EntryOf[r[i]]]
  <2>1. r \in Seq(Message)
    BY <1>1, <1>3, PurgesKeeps
  <2>2. AbstractQueue' = Entries(r)'
    BY <1>2, <1>3, QueueNextIs
  <2>3. Entries(r)' = Entries(r)
    BY <1>2 DEF Entries
  <2> QED BY <2>1, <2>2, <2>3, EntriesAre
<1>5. \A x \in Elements(Chain) : EntryOf[x] \in R <=> x \in S
  <2> TAKE x \in Elements(Chain)
  <2>1. PICK i \in 1..Len(Chain) : x = Chain[i]
    BY DEF Elements
  <2>2. x \in Message /\ q[i] = EntryOf[x] /\ Len(q) = Len(Chain)
    BY <2>1, <1>1
  <2>3. EntryOf[x] \in Elements(q)
    <3> HIDE DEF q
    <3> QED BY <2>1, <2>2 DEF Elements
  <2>4. EntryOf[x].dest = info[x].dest /\ EntryOf[x].event = info[x].event
    BY <2>2 DEF EntryOf
  <2> HIDE DEF q
  <2> QED BY <2>2, <2>3, <2>4 DEF Named
<1>6. AbstractQueue' \in Purges(AbstractQueue, R)
  <2> HIDE DEF R, S, q
  <2>1. [i \in 1..Len(r) |-> EntryOf[r[i]]]
           \in Purges([i \in 1..Len(Chain) |-> EntryOf[Chain[i]]], R)
    BY <1>1, <1>3, <1>5, PurgesMapped
  <2> QED BY <2>1, <1>1, <1>4
<1>7. Abstract!Delete(d, ad, e, ae)
  <2>1. R = {x \in Elements(AbstractQueue) : /\ ad \/ x.dest = d
                                             /\ ae \/ x.event = e}
    BY <1>1
  <2>2. /\ Abstract!Elements(AbstractQueue) = Elements(AbstractQueue)
        /\ Abstract!Purges(AbstractQueue, R) = Purges(AbstractQueue, R)
    <3> HIDE DEF R
    <3> QED BY DEF Abstract!Elements, Elements, Abstract!Purges, Purges,
                   Abstract!KeptPlaces, KeptPlaces
  <2> HIDE DEF q, R
  <2> QED BY <2>1, <2>2, <1>2, <1>6 DEF Abstract!Delete
<1> QED BY <1>7 DEF Abstract!Next

\* What is left of the list exists, and loses nothing by the next step.
LEMMA LeftAsBefore ==
    ASSUME IInv, IInv', Chain' = Chain, Hidden' = Hidden,
           \A n \in Elements(Chain) : info'[n] = info[n]
    PROVE  AbstractQueue' = AbstractQueue
<1>1. PICK r \in Purges(Chain, Hidden) : TRUE
  BY PurgesExists DEF IInv, ListInv
<1>2. r \in Purges(Chain', Hidden')
  BY <1>1
<1> QED BY <1>1, <1>2, SameQueue

LEMMA StepRefines == IInv /\ IInv' /\ [Next]_vars => [Abstract!Next]_(Abstract!vars)
<1> SUFFICES ASSUME IInv, IInv', [Next]_vars
             PROVE  \/ Abstract!Next
                    \/ AbstractQueue' = AbstractQueue /\ inHand' = inHand
  BY DEF Abstract!vars
<1>1. ASSUME NEW t \in Thread, NEW m \in Message, NEW i \in Info, AddMessage(t, m, i)
      PROVE  AbstractQueue' = AbstractQueue /\ inHand' = inHand
  BY <1>1, AddRefines
<1>a. ASSUME NEW t \in Thread, AddCount(t) PROVE Abstract!Next
  BY <1>a, AddCountRefines
<1>2. ASSUME NEW t \in Thread, NEW w \in BOOLEAN, ReadMessage(t, w)
      PROVE  Abstract!Next
  BY <1>2, ReadRefines
<1>3. ASSUME NEW t \in Thread, DeleteRead(t) PROVE Abstract!Next
  <2>1. AbstractQueue' = AbstractQueue
    <3>1. Chain' = Chain /\ \A n \in Elements(Chain) : info'[n] = info[n]
      BY <1>3, DeleteReadKeeps
    <3>2. Hidden' = Hidden
      BY <1>3 DEF DeleteRead, Hidden
    <3> QED BY <3>1, <3>2, LeftAsBefore
  <2>2. Abstract!Dispose(t)
    BY <2>1, <1>3 DEF Abstract!Dispose, DeleteRead
  <2> QED BY <2>2 DEF Abstract!Next
<1>4. ASSUME NEW t \in Thread, NEW d \in Dest, NEW e \in Event, NEW ad \in BOOLEAN,
             NEW ae \in BOOLEAN, DelBegin(t, Named(d, ad, e, ae))
      PROVE  Abstract!Next
  BY <1>4, DelBeginRefines
<1>5. ASSUME NEW t \in Thread, DelKeep(t)
      PROVE  AbstractQueue' = AbstractQueue /\ inHand' = inHand
  <2>1. Chain' = Chain /\ info' = info
    BY <1>5, DelKeepKeeps
  <2>2. Hidden' = Hidden /\ inHand' = inHand
    BY <1>5 DEF DelKeep, IInv, TypeOK, Hidden
  <2> QED BY <2>1, <2>2, LeftAsBefore
<1>6. ASSUME NEW t \in Thread, DelUnlink(t)
      PROVE  AbstractQueue' = AbstractQueue /\ inHand' = inHand
  <2>1. PICK k \in 1..Len(Chain) : Chain[k] \in del.named /\ Chain' = Cut(Chain, k)
    BY <1>6, DelUnlinkKeeps
  <2>2. info' = info /\ Hidden' = Hidden /\ inHand' = inHand /\ Hidden = del.named
    BY <1>6, DelUnlinkKeeps DEF DelUnlink, Hidden, IInv, AddInv, NoDelete
  <2>3. Chain \in Seq(Message)
    BY DEF IInv, ListInv
  <2>4. PICK r \in Purges(Chain, Hidden) : TRUE
    BY <2>3, PurgesExists
  <2>5. Purges(Cut(Chain, k), Hidden) = Purges(Chain, Hidden)
    BY <2>1, <2>2, <2>3, CutPurges
  <2>6. r \in Purges(Chain', Hidden')
    BY <2>1, <2>2, <2>4, <2>5
  <2> QED BY <2>2, <2>4, <2>6, SameQueue
<1>7. ASSUME NEW t \in Thread, DelFree(t)
      PROVE  AbstractQueue' = AbstractQueue /\ inHand' = inHand
  <2>1. /\ Chain' = Chain /\ Hidden' = Hidden
        /\ \A n \in Elements(Chain) : info'[n] = info[n]
    BY <1>7, DelFreeKeeps DEF DelFree, Hidden
  <2>2. inHand' = inHand
    BY <1>7 DEF DelFree
  <2> QED BY <2>1, <2>2, LeftAsBefore
<1>8. ASSUME NEW t \in Thread, DelEnd(t)
      PROVE  AbstractQueue' = AbstractQueue /\ inHand' = inHand
  <2>1. /\ Chain' = Chain /\ info' = info
        /\ \A i \in 1..Len(Chain) : Chain[i] \notin del.named
    BY <1>8, DelEndKeeps
  <2>2. Hidden = del.named /\ Hidden' = {} /\ inHand' = inHand
    BY <1>8 DEF DelEnd, NoDelete, Hidden
  <2>3. Chain \in Seq(Message) /\ Elements(Chain) \cap Hidden = {}
    BY <2>1, <2>2 DEF IInv, ListInv, Elements
  <2>4. Chain \in Purges(Chain, Hidden) /\ Chain \in Purges(Chain, {})
    BY <2>3, PurgesKeepsAll
  <2> QED BY <2>1, <2>2, <2>4, SameQueue
<1>9. CASE UNCHANGED vars
  <2>1. /\ prev' = prev /\ queue' = queue /\ info' = info /\ inHand' = inHand
        /\ del' = del /\ adding' = adding
    BY <1>9 DEF vars, list
  <2>2. Chain' = Chain /\ Hidden' = Hidden
    BY <2>1 DEF Chain, Hidden
  <2> QED BY <2>1, <2>2, LeftAsBefore
<1> QED BY <1>1, <1>a, <1>2, <1>3, <1>4, <1>5, <1>6, <1>7, <1>8, <1>9 DEF Next

\* The linked list with its mutex and its removals in many steps is, to its
\* users, a queue on which every operation takes effect at one instant.
THEOREM Refinement == Spec => ImplementsMessageQueue
<1>1. Init => Abstract!Init
  <2> SUFFICES ASSUME Init PROVE Abstract!Init
    OBVIOUS
  <2>1. IInv
    BY InitHolds
  <2>2. AbstractQueue = Entries(Chain)
    BY <2>1, IdleQueue DEF Init
  <2>3. Chain = <<>>
    <3>1. Len(Chain) = 0 /\ Chain \in Seq(Message)
      BY <2>1 DEF Init, IInv, CountInv, ListInv, NoDelete
    <3> QED BY <3>1
  <2>4. Entries(Chain) = <<>>
    BY <2>3 DEF Entries
  <2> QED BY <2>2, <2>4 DEF Init, Abstract!Init
<1> QED BY <1>1, Invariance, StepRefines, PTL DEF Spec, ImplementsMessageQueue, Abstract!Spec
=============================================================================
