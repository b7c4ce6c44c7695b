------------------------- MODULE ListsProofs -------------------------
(***************************************************************************)
(* What Purges() leaves of a list, for every list and every set, and which *)
(* list Walk() finds: the facts the proofs about the queues and their      *)
(* users rest on.                                                          *)
(*                                                                         *)
(* Where a fact needs induction, it is shown of the least number it could  *)
(* fail for, as the library's induction theorems cannot be instantiated.   *)
(***************************************************************************)
EXTENDS Lists, FiniteSetTheorems, TLAPS

\* A set of natural numbers has a least element.
LEMMA LeastNumber ==
    ASSUME NEW N \in SUBSET Nat, N # {}
    PROVE  \E n \in N : \A k \in N : n <= k
<1> DEFINE Less == OpToRel(<, Nat)
<1>1. PICK n \in N : \A k \in N : <<k, n>> \notin Less
  <2>1. IsWellFoundedOn(Less, Nat)
    BY NatLessThanWellFounded
  <2> HIDE DEF Less
  <2> QED BY <2>1, WFMin
<1>2. \A k \in N : k < n => <<k, n>> \in Less
  BY DEF OpToRel
<1> HIDE DEF Less
<1>3. \A k \in N : ~(k < n)
  BY <1>1, <1>2
<1> QED BY <1>3

\* The list that is left consists of elements of the one there was, keeps
\* all but those of S, and keeps them apart.
LEMMA PurgesKeeps ==
    ASSUME NEW T, NEW s \in Seq(T), NEW S, NEW r \in Purges(s, S)
    PROVE  /\ r \in Seq(T)
           /\ Elements(r) = Elements(s) \ S
           /\ NoDuplicates(s) => NoDuplicates(r)
<1>1. PICK n \in 0..Len(s) :
         r \in {[a \in 1..n |-> s[f[a]]] : f \in KeptPlaces(s, S, n)}
  BY DEF Purges
<1>2. PICK f \in KeptPlaces(s, S, n) : r = [i \in 1..n |-> s[f[i]]]
  BY <1>1
<1>3. Len(s) \in Nat /\ n \in Nat
  OBVIOUS
<1>4. r \in Seq(T) /\ Len(r) = n
  <2>1. \A i \in 1..n : f[i] \in 1..Len(s)
    BY <1>2 DEF KeptPlaces
  <2>2. \A i \in 1..n : s[f[i]] \in T
    BY <2>1
  <2> QED BY <2>2, <1>2, <1>3 DEF KeptPlaces
<1>5. Elements(r) = Elements(s) \ S
  <2>1. ASSUME NEW x \in Elements(r) PROVE x \in Elements(s) \ S
    <3>1. PICK i \in 1..n : x = s[f[i]]
      BY <1>4, <1>2 DEF Elements, KeptPlaces
    <3>2. f[i] \in 1..Len(s) /\ s[f[i]] \notin S
      BY <1>2, <3>1 DEF KeptPlaces
    <3> QED BY <3>1, <3>2 DEF Elements
  <2>2. ASSUME NEW x \in Elements(s) \ S PROVE x \in Elements(r)
    <3>1. PICK k \in 1..Len(s) : x = s[k]
      BY DEF Elements
    <3>2. PICK i \in 1..n : f[i] = k
      BY <3>1, <1>2 DEF KeptPlaces
    <3> QED BY <3>1, <3>2, <1>2, <1>4 DEF Elements, KeptPlaces
  <2> QED BY <2>1, <2>2
<1>6. ASSUME NoDuplicates(s) PROVE NoDuplicates(r)
  <2> SUFFICES ASSUME NEW i \in 1..n, NEW j \in 1..n, r[i] = r[j]
               PROVE  i = j
    BY <1>4 DEF NoDuplicates
  <2>1. f[i] \in 1..Len(s) /\ f[j] \in 1..Len(s) /\ s[f[i]] = s[f[j]]
    BY <1>2 DEF KeptPlaces
  <2>2. f[i] = f[j]
    BY <2>1, <1>6 DEF NoDuplicates
  <2>3. ~(i < j) /\ ~(j < i)
    BY <1>2, <2>1, <2>2 DEF KeptPlaces
  <2> QED BY <2>3, <1>3
<1> QED BY <1>4, <1>5, <1>6

\* It keeps their order: what stays and stood before an element that stays
\* still stands before it.
LEMMA PurgesInOrder ==
    ASSUME NEW T, NEW s \in Seq(T), NEW S, NEW r \in Purges(s, S),
           NEW i \in 1..Len(r)
    PROVE  \E k \in 1..Len(s) :
              /\ r[i] = s[k]
              /\ \A l \in 1..(k - 1) :
                    s[l] \notin S => \E j \in 1..(i - 1) : r[j] = s[l]
<1>1. PICK n \in 0..Len(s) :
         r \in {[a \in 1..n |-> s[f[a]]] : f \in KeptPlaces(s, S, n)}
  BY DEF Purges
<1>2. PICK f \in KeptPlaces(s, S, n) : r = [a \in 1..n |-> s[f[a]]]
  BY <1>1
<1>3. Len(s) \in Nat /\ n \in Nat /\ Len(r) = n
  <2>1. \A a \in 1..n : f[a] \in 1..Len(s)
    BY <1>2 DEF KeptPlaces
  <2>2. \A a \in 1..n : s[f[a]] \in T
    BY <2>1
  <2> QED BY <2>2, <1>2 DEF KeptPlaces
<1>4. f[i] \in 1..Len(s) /\ r[i] = s[f[i]]
  BY <1>2, <1>3 DEF KeptPlaces
<1>5. ASSUME NEW l \in 1..(f[i] - 1), s[l] \notin S
      PROVE  \E j \in 1..(i - 1) : r[j] = s[l]
  <2>1. PICK j \in 1..n : f[j] = l
    <3>1. l \in 1..Len(s)
      BY <1>4, <1>3
    <3> QED BY <3>1, <1>5, <1>2 DEF KeptPlaces
  <2>2. j < i
    <3>1. i \in 1..n /\ f[j] < f[i]
      BY <2>1, <1>3, <1>4
    <3>2. CASE i < j
      <4>1. f[i] < f[j]
        BY <1>2, <3>1, <3>2 DEF KeptPlaces
      <4> QED BY <4>1, <3>1, <2>1, <1>4, <1>3
    <3>3. CASE i = j
      BY <3>3, <3>1, <2>1, <1>4, <1>3
    <3> QED BY <3>1, <3>2, <3>3, <1>3
  <2>3. j \in 1..(i - 1)
    BY <2>1, <2>2, <1>3
  <2>4. r[j] = s[f[j]]
    BY <1>2
  <2> QED BY <2>1, <2>3, <2>4
<1> QED BY <1>4, <1>5

\* Nothing is left when everything goes.
LEMMA PurgesAll ==
    ASSUME NEW T, NEW s \in Seq(T), NEW r \in Purges(s, T)
    PROVE  r = <<>>
<1>1. r \in Seq(T) /\ Elements(r) = Elements(s) \ T
  BY PurgesKeeps
<1>2. Elements(s) \subseteq T
  BY DEF Elements
<1>3. Elements(r) = {}
  BY <1>1, <1>2 DEF KeptPlaces
<1>4. Len(r) \in Nat /\ ~(1 \in 1..Len(r))
  BY <1>1, <1>3 DEF Elements
<1>5. Len(r) = 0
  BY <1>4
<1> QED BY <1>1, <1>5

\* An empty list stays empty.
LEMMA PurgesNone ==
    ASSUME NEW T, NEW S, NEW r \in Purges(<<>>, S)
    PROVE  r = <<>>
<1>1. <<>> \in Seq({})
  OBVIOUS
<1>2. r \in Seq({})
  BY <1>1, PurgesKeeps
<1>3. Len(r) = 0
  <2>1. Len(r) \in Nat /\ \A i \in 1..Len(r) : r[i] \in {}
    BY <1>2 DEF KeptPlaces
  <2>2. ~(1 \in 1..Len(r))
    BY <2>1
  <2> QED BY <2>1, <2>2
<1> QED BY <1>2, <1>3 DEF KeptPlaces

\* Reading takes the first element and leaves the others in their places.
LEMMA HeadAndTail ==
    ASSUME NEW T, NEW s \in Seq(T), s # <<>>
    PROVE  /\ Head(s) \in T /\ Tail(s) \in Seq(T)
           /\ Head(s) = s[1] /\ Len(s) \in Nat /\ 1 \in 1..Len(s)
           /\ Len(Tail(s)) = Len(s) - 1
           /\ \A i \in 1..Len(Tail(s)) : Tail(s)[i] = s[i + 1]
           /\ Elements(s) = {Head(s)} \cup Elements(Tail(s))
           /\ NoDuplicates(s) =>
                NoDuplicates(Tail(s)) /\ Head(s) \notin Elements(Tail(s))
<1>1. /\ Head(s) \in T /\ Tail(s) \in Seq(T)
      /\ Head(s) = s[1] /\ Len(s) \in Nat /\ Len(s) >= 1
      /\ Len(Tail(s)) = Len(s) - 1
      /\ \A i \in 1..Len(Tail(s)) : Tail(s)[i] = s[i + 1]
  OBVIOUS
<1>2. Elements(s) = {Head(s)} \cup Elements(Tail(s))
  <2>1. ASSUME NEW x \in Elements(s) PROVE x \in {Head(s)} \cup Elements(Tail(s))
    <3>1. PICK i \in 1..Len(s) : x = s[i]
      BY DEF Elements
    <3>2. CASE i = 1
      BY <3>1, <3>2, <1>1
    <3>3. CASE i # 1
      <4>1. i - 1 \in 1..Len(Tail(s)) /\ Tail(s)[i - 1] = x
        BY <3>1, <3>3, <1>1
      <4> QED BY <4>1 DEF Elements
    <3> QED BY <3>2, <3>3
  <2>2. Head(s) \in Elements(s)
    BY <1>1 DEF Elements
  <2>3. ASSUME NEW i \in 1..Len(Tail(s)) PROVE Tail(s)[i] \in Elements(s)
    <3>1. i + 1 \in 1..Len(s) /\ Tail(s)[i] = s[i + 1]
      BY <1>1
    <3> QED BY <3>1 DEF Elements
  <2> QED BY <2>1, <2>2, <2>3 DEF Elements
<1>3. ASSUME NoDuplicates(s)
      PROVE  NoDuplicates(Tail(s)) /\ Head(s) \notin Elements(Tail(s))
  <2>1. \A i, j \in 1..Len(Tail(s)) : Tail(s)[i] = Tail(s)[j] => i = j
    <3> TAKE i, j \in 1..Len(Tail(s))
    <3>1. i + 1 \in 1..Len(s) /\ j + 1 \in 1..Len(s)
      BY <1>1
    <3>2. s[i + 1] = s[j + 1] => i + 1 = j + 1
      BY <3>1, <1>3 DEF NoDuplicates
    <3> QED BY <3>2, <1>1
  <2>2. \A i \in 1..Len(Tail(s)) : Tail(s)[i] # Head(s)
    <3> TAKE i \in 1..Len(Tail(s))
    <3>1. i + 1 \in 1..Len(s) /\ 1 \in 1..Len(s) /\ i + 1 # 1
      BY <1>1
    <3>2. s[i + 1] # s[1]
      BY <3>1, <1>3 DEF NoDuplicates
    <3> QED BY <3>2, <1>1
  <2> QED BY <2>1, <2>2 DEF NoDuplicates, Elements
<1> QED BY <1>1, <1>2, <1>3

\* Posting adds one element, behind all others.
LEMMA Appended ==
    ASSUME NEW T, NEW s \in Seq(T), NEW x \in T
    PROVE  /\ Append(s, x) \in Seq(T) /\ Len(s) \in Nat
           /\ Len(Append(s, x)) = Len(s) + 1
           /\ \A i \in 1..Len(s) : Append(s, x)[i] = s[i]
           /\ Append(s, x)[Len(s) + 1] = x
           /\ Elements(Append(s, x)) = Elements(s) \cup {x}
           /\ NoDuplicates(s) /\ x \notin Elements(s) =>
                NoDuplicates(Append(s, x))
<1>1. /\ Append(s, x) \in Seq(T) /\ Len(s) \in Nat
      /\ Len(Append(s, x)) = Len(s) + 1
      /\ \A i \in 1..Len(s) : Append(s, x)[i] = s[i]
      /\ Append(s, x)[Len(s) + 1] = x
  OBVIOUS
<1>2. Elements(Append(s, x)) = Elements(s) \cup {x}
  <2>1. 1..Len(Append(s, x)) = 1..Len(s) \cup {Len(s) + 1}
    BY <1>1
  <2>2. \A y \in Elements(Append(s, x)) : y \in Elements(s) \cup {x}
    BY <1>1, <2>1 DEF Elements
  <2>3. \A y \in Elements(s) \cup {x} : y \in Elements(Append(s, x))
    BY <1>1, <2>1 DEF Elements
  <2> QED BY <2>2, <2>3
<1>3. ASSUME NoDuplicates(s), x \notin Elements(s)
      PROVE  NoDuplicates(Append(s, x))
  BY <1>1, <1>3 DEF NoDuplicates, Elements
<1> QED BY <1>1, <1>2, <1>3
-----------------------------------------------------------------------------
\* An interval from 1 has as many members as its end says.
LEMMA CountedTo ==
    ASSUME NEW n \in Nat
    PROVE  IsFiniteSet(1..n) /\ Cardinality(1..n) = n
<1>1. /\ IsFiniteSet(1..n)
      /\ Cardinality(1..n) = IF 1 > n THEN 0 ELSE n - 1 + 1
  BY FS_Interval
<1>2. CASE n = 0
  BY <1>1, <1>2
<1>3. CASE n # 0
  BY <1>1, <1>3
<1> QED BY <1>2, <1>3

\* The list s is the one that starts at m and that link holds together.
Linked(s, link, m, null) ==
    /\ m = IF s = <<>> THEN null ELSE s[1]
    /\ \A i \in 1..Len(s) : link[s[i]] = IF i = Len(s) THEN null ELSE s[i + 1]

\* Walking that list finds its members, in order, and ends.
LEMMA WalkFinds ==
    ASSUME NEW T, NEW s \in Seq(T), NEW link, NEW m, NEW null, null \notin T,
           Linked(s, link, m, null), NEW n \in Nat, Len(s) <= n
    PROVE  Walk(link, m, null, n) = s
<1> DEFINE Step(at, i) == IF i = 1 THEN m
                          ELSE LET p == at[i - 1]
                               IN  IF p = null THEN null ELSE link[p]
           Steps(at) == at = [i \in 1..n |-> Step(at, i)]
           at0 == [i \in 1..n |-> IF i <= Len(s) THEN s[i] ELSE null]
           at1 == CHOOSE at : Steps(at)
<1>1. /\ Len(s) \in Nat
      /\ \A i \in 1..Len(s) : s[i] \in T /\ s[i] # null
      /\ s = <<>> <=> Len(s) = 0
  OBVIOUS
<1>2. ASSUME NEW i \in 1..n PROVE at0[i] = Step(at0, i)
  <2>1. CASE i = 1
    BY <2>1, <1>1 DEF Linked
  <2>2. CASE i # 1 /\ i - 1 > Len(s)
    BY <2>2, <1>1
  <2>3. CASE i # 1 /\ i - 1 <= Len(s)
    <3>1. i - 1 \in 1..Len(s) /\ i - 1 \in 1..n
      BY <2>3, <1>1
    <3>2. at0[i - 1] = s[i - 1] /\ s[i - 1] # null
      BY <3>1, <1>1
    <3>3. link[s[i - 1]] = IF i - 1 = Len(s) THEN null ELSE s[i]
      BY <3>1 DEF Linked
    <3> QED BY <3>1, <3>2, <3>3, <2>3, <1>1
  <2> QED BY <2>1, <2>2, <2>3, <1>1
<1>3. Steps(at1)
  <2>1. Steps(at0)
    BY <1>2
  <2> HIDE DEF Steps
  <2> QED BY <2>1
<1>4. at1 = at0
  <2> SUFFICES ASSUME at1 # at0 PROVE FALSE
    OBVIOUS
  <2> DEFINE Wrong == {i \in 1..n : at1[i] # at0[i]}
  <2>1. Wrong # {} /\ Wrong \in SUBSET Nat
    <3>1. at1 = [i \in 1..n |-> Step(at1, i)]
      BY <1>3
    <3> HIDE DEF at1, Step
    <3>2. at1 = [i \in 1..n |-> at1[i]]
      BY <3>1
    <3> QED BY <3>2
  <2>2. PICK i \in Wrong : \A k \in Wrong : i <= k
    <3> HIDE DEF Wrong
    <3> QED BY <2>1, LeastNumber
  <2>3. i \in 1..n /\ at1[i] # at0[i]
    BY <2>2
  <2>4. i # 1
    <3>1. at1[i] = Step(at1, i) /\ at0[i] = Step(at0, i)
      <4> HIDE DEF at0, at1, Step
      <4> QED BY <2>3, <1>2, <1>3
    <3> HIDE DEF at0, at1
    <3> QED BY <3>1, <2>3
  <2>5. at1[i - 1] = at0[i - 1]
    <3>1. i - 1 \in 1..n /\ i - 1 < i
      BY <2>3, <2>4
    <3>2. i - 1 \notin Wrong
      <4> HIDE DEF Wrong
      <4> QED BY <3>1, <2>2, <2>3
    <3> HIDE DEF at0, at1
    <3> QED BY <3>1, <3>2
  <2>6. Step(at1, i) = Step(at0, i)
    <3> HIDE DEF at0, at1
    <3> QED BY <2>5, <2>4
  <2> HIDE DEF at0, at1, Step
  <2> QED BY <2>3, <2>6, <1>2, <1>3
<1>5. Cardinality({j \in 1..n : at0[j] # null}) = Len(s)
  <2>1. {j \in 1..n : at0[j] # null} = 1..Len(s)
    BY <1>1
  <2>2. Cardinality(1..Len(s)) = Len(s)
    BY <1>1, CountedTo
  <2> QED BY <2>1, <2>2
<1>6. Walk(link, m, null, n) = [i \in 1..Len(s) |-> at0[i]]
  <2>1. Walk(link, m, null, n) =
           [i \in 1..Cardinality({j \in 1..n : at1[j] # null}) |-> at1[i]]
    BY DEF Walk
  <2> HIDE DEF at0, at1
  <2> QED BY <2>1, <1>4, <1>5
<1>7. [i \in 1..Len(s) |-> at0[i]] = s
  BY <1>1
<1> QED BY <1>6, <1>7

\* A list without duplicates is no longer than what it can hold.
LEMMA NoLongerThan ==
    ASSUME NEW T, IsFiniteSet(T), NEW s \in Seq(T), NoDuplicates(s)
    PROVE  Len(s) <= Cardinality(T) /\ IsFiniteSet(Elements(s))
<1>1. s \in Injection(1..Len(s), T)
  BY DEF NoDuplicates, Injection, IsInjective
<1>2. Cardinality(1..Len(s)) <= Cardinality(T)
  BY <1>1, FS_Injection
<1>3. Cardinality(1..Len(s)) = Len(s)
  BY CountedTo
<1>4. Elements(s) \in SUBSET T
  BY DEF Elements
<1>5. IsFiniteSet(Elements(s))
  BY <1>4, FS_Subset
<1> QED BY <1>2, <1>3, <1>5
-----------------------------------------------------------------------------
\* What makes r one of Purges(s, S), as one fact.
LEMMA PurgesBy ==
    ASSUME NEW T, NEW s \in Seq(T), NEW S, NEW n \in Nat, n <= Len(s),
           NEW f \in KeptPlaces(s, S, n)
    PROVE  /\ [i \in 1..n |-> s[f[i]]] \in Purges(s, S)
           /\ \A i \in 1..n : f[i] \in 1..Len(s) /\ s[f[i]] \notin S
<1>1. n \in 0..Len(s)
  OBVIOUS
<1>2. \A i \in 1..n : f[i] \in 1..Len(s) /\ s[f[i]] \notin S
  BY DEF KeptPlaces
<1> QED BY <1>1, <1>2 DEF Purges

\* Nothing of S in s: nothing goes.
LEMMA PurgesKeepsAll ==
    ASSUME NEW T, NEW s \in Seq(T), NEW S, Elements(s) \cap S = {}
    PROVE  s \in Purges(s, S)
<1> DEFINE f == [i \in 1..Len(s) |-> i]
<1>1. Len(s) \in Nat /\ \A i \in 1..Len(s) : s[i] \notin S
  BY DEF Elements
<1>2. f \in KeptPlaces(s, S, Len(s))
  <2>1. f \in [1..Len(s) -> 1..Len(s)]
    OBVIOUS
  <2>2. \A k \in 1..Len(s) : s[k] \notin S <=> \E i \in 1..Len(s) : f[i] = k
    BY <1>1
  <2> QED BY <2>1, <2>2 DEF KeptPlaces
<1>3. [i \in 1..Len(s) |-> s[f[i]]] \in Purges(s, S)
  <2> HIDE DEF f
  <2> QED BY <1>1, <1>2, PurgesBy
<1>4. [i \in 1..Len(s) |-> s[f[i]]] = s
  OBVIOUS
<1> QED BY <1>3, <1>4

\* There is a sequence that is left ...
LEMMA PurgesExists ==
    ASSUME NEW T, NEW S
    PROVE  \A s \in Seq(T) : Purges(s, S) # {}
<1> DEFINE Wrong == {n \in Nat : \E s \in Seq(T) : Len(s) = n /\ Purges(s, S) = {}}
<1> SUFFICES ASSUME Wrong # {} PROVE FALSE
  OBVIOUS
<1>1. PICK n \in Wrong : \A k \in Wrong : n <= k
  <2>1. Wrong \in SUBSET Nat
    OBVIOUS
  <2> HIDE DEF Wrong
  <2> QED BY <2>1, LeastNumber
<1>2. PICK s \in Seq(T) : Len(s) = n /\ Purges(s, S) = {}
  OBVIOUS
<1>3. n \in Nat /\ n # 0
  <2>1. CASE n = 0
    <3>1. Elements(s) \cap S = {}
      BY <2>1, <1>2 DEF Elements
    <3> QED BY <3>1, <1>2, PurgesKeepsAll
  <2> QED BY <2>1
<1> DEFINE t == [i \in 1..(n - 1) |-> s[i]]
<1>4. t \in Seq(T) /\ Len(t) = n - 1 /\ \A i \in 1..(n - 1) : t[i] = s[i]
  <2>1. \A i \in 1..(n - 1) : s[i] \in T
    BY <1>2, <1>3
  <2> QED BY <2>1, <1>3
<1>5. Purges(t, S) # {}
  <2>1. n - 1 \in Nat /\ ~(n <= n - 1)
    BY <1>3
  <2>2. n - 1 \notin Wrong
    <3> HIDE DEF Wrong
    <3> QED BY <1>1, <2>1
  <2> HIDE DEF t
  <2> QED BY <2>1, <2>2, <1>4
<1>6. PICK m \in 0..Len(t) : \E f \in KeptPlaces(t, S, m) : TRUE
  <2> HIDE DEF t
  <2> QED BY <1>5 DEF Purges
<1> PICK f \in KeptPlaces(t, S, m) : TRUE
  BY <1>6
<1>7. /\ m \in Nat /\ m <= n - 1 /\ f \in [1..m -> 1..(n - 1)]
      /\ \A i, j \in 1..m : i < j => f[i] < f[j]
      /\ \A k \in 1..(n - 1) : s[k] \notin S <=> \E i \in 1..m : f[i] = k
  <2> HIDE DEF t
  <2>1. m \in Nat /\ m <= n - 1
    BY <1>3, <1>4, <1>6
  <2> QED BY <2>1, <1>3, <1>4, <1>6 DEF KeptPlaces
<1> HIDE DEF t, Wrong
<1>8. CASE s[n] \in S
  <2>1. f \in [1..m -> 1..n]
    BY <1>3, <1>7
  <2>2. \A k \in 1..n : s[k] \notin S <=> \E i \in 1..m : f[i] = k
    <3> TAKE k \in 1..n
    <3>1. CASE k = n
      BY <3>1, <1>3, <1>7, <1>8
    <3>2. CASE k # n
      BY <3>2, <1>3, <1>7
    <3> QED BY <3>1, <3>2
  <2>3. f \in KeptPlaces(s, S, m)
    BY <2>1, <2>2, <1>2, <1>7 DEF KeptPlaces
  <2>4. m <= Len(s)
    BY <1>2, <1>3, <1>7
  <2> QED BY <2>3, <2>4, <1>2, <1>7, PurgesBy
<1>9. CASE s[n] \notin S
  <2> DEFINE g == [i \in 1..(m + 1) |-> IF i = m + 1 THEN n ELSE f[i]]
  <2>1. g \in [1..(m + 1) -> 1..n]
    <3>1. ASSUME NEW i \in 1..(m + 1), i # m + 1 PROVE f[i] \in 1..n
      <4>1. i \in 1..m
        BY <3>1, <1>7
      <4> QED BY <4>1, <1>3, <1>7
    <3> QED BY <3>1, <1>3
  <2>2. \A i \in 1..m : g[i] = f[i] /\ f[i] < n
    BY <1>3, <1>7
  <2>3. m + 1 \in 1..(m + 1) /\ g[m + 1] = n
    BY <1>7
  <2>4. \A i \in 1..(m + 1) : i # m + 1 => i \in 1..m
    BY <1>7
  <2> HIDE DEF g
  <2>5. \A i, j \in 1..(m + 1) : i < j => g[i] < g[j]
    <3> SUFFICES ASSUME NEW i \in 1..(m + 1), NEW j \in 1..(m + 1), i < j
                 PROVE  g[i] < g[j]
      OBVIOUS
    <3>1. i \in 1..m
      BY <1>7
    <3>2. CASE j = m + 1
      BY <3>1, <3>2, <2>2, <2>3
    <3>3. CASE j # m + 1
      BY <3>1, <3>3, <2>2, <2>4, <1>7
    <3> QED BY <3>2, <3>3
  <2>6. \A k \in 1..n : s[k] \notin S <=> \E i \in 1..(m + 1) : g[i] = k
    <3> TAKE k \in 1..n
    <3>1. CASE k = n
      BY <3>1, <2>3, <1>9
    <3>2. CASE k # n
      <4>1. k \in 1..(n - 1)
        BY <3>2, <1>3
      <4>2. s[k] \notin S <=> \E i \in 1..m : f[i] = k
        BY <4>1, <1>7
      <4>3. \A i \in 1..m : i \in 1..(m + 1)
        BY <1>7
      <4> QED BY <4>2, <4>3, <3>2, <2>2, <2>3, <2>4
    <3> QED BY <3>1, <3>2
  <2>7. g \in KeptPlaces(s, S, m + 1)
    BY <2>1, <2>5, <2>6, <1>2 DEF KeptPlaces
  <2>8. m + 1 \in Nat /\ m + 1 <= Len(s)
    BY <1>2, <1>3, <1>7
  <2> QED BY <2>7, <2>8, <1>2, PurgesBy
<1> QED BY <1>8, <1>9

\* ... and only one.
LEMMA KeptPlacesAgree ==
    ASSUME NEW s, Len(s) \in Nat, NEW S, NEW n \in Nat, NEW m \in Nat,
           NEW f \in KeptPlaces(s, S, n), NEW g \in KeptPlaces(s, S, m),
           NEW i \in 1..n, i <= m, \A k \in 1..(i - 1) : f[k] = g[k]
    PROVE  ~(f[i] < g[i])
<1> SUFFICES ASSUME f[i] < g[i] PROVE FALSE
  OBVIOUS
<1>1. i \in 1..m /\ f[i] \in 1..Len(s) /\ s[f[i]] \notin S
  BY DEF KeptPlaces
<1>2. PICK j \in 1..m : g[j] = f[i]
  BY <1>1 DEF KeptPlaces
<1>3. j < i
  <2>1. g[i] \in 1..Len(s) /\ g[j] \in 1..Len(s)
    BY <1>1 DEF KeptPlaces
  <2>2. i < j => g[i] < g[j]
    BY <1>1 DEF KeptPlaces
  <2>3. i # j
    BY <2>1, <1>2
  <2> QED BY <2>1, <2>2, <2>3, <1>2
<1>4. f[j] = g[j]
  BY <1>3
<1>5. f[j] < f[i] /\ f[j] \in 1..Len(s)
  <2>1. j \in 1..n
    BY <1>3
  <2> QED BY <2>1, <1>3 DEF KeptPlaces
<1> QED BY <1>1, <1>2, <1>4, <1>5

LEMMA KeptPlacesEqual ==
    ASSUME NEW s, Len(s) \in Nat, NEW S, NEW n \in Nat, NEW m \in Nat, n <= m,
           NEW f \in KeptPlaces(s, S, n), NEW g \in KeptPlaces(s, S, m)
    PROVE  n = m /\ f = g
<1> DEFINE Wrong == {i \in 1..n : f[i] # g[i]}
<1>1. Wrong = {}
  <2> SUFFICES ASSUME Wrong # {} PROVE FALSE
    OBVIOUS
  <2>1. PICK i \in Wrong : \A k \in Wrong : i <= k
    <3>1. Wrong \in SUBSET Nat
      OBVIOUS
    <3> HIDE DEF Wrong
    <3> QED BY <3>1, LeastNumber
  <2>2. i \in 1..n /\ i \in 1..m /\ f[i] # g[i]
    OBVIOUS
  <2>3. \A k \in 1..(i - 1) : f[k] = g[k]
    <3> TAKE k \in 1..(i - 1)
    <3>1. k \in 1..n /\ ~(i <= k)
      BY <2>2
    <3>2. k \notin Wrong
      <4> HIDE DEF Wrong
      <4> QED BY <2>1, <3>1
    <3> QED BY <3>1, <3>2
  <2> HIDE DEF Wrong
  <2>4. ~(f[i] < g[i])
    BY <2>2, <2>3, KeptPlacesAgree
  <2>5. ~(g[i] < f[i])
    BY <2>2, <2>3, KeptPlacesAgree
  <2>6. f[i] \in 1..Len(s) /\ g[i] \in 1..Len(s)
    BY <2>2 DEF KeptPlaces
  <2> QED BY <2>2, <2>4, <2>5, <2>6
<1>2. \A i \in 1..n : f[i] = g[i]
  BY <1>1
<1>3. n = m
  <2> SUFFICES ASSUME n < m PROVE FALSE
    OBVIOUS
  <2>1. n + 1 \in 1..m
    OBVIOUS
  <2>2. g[n + 1] \in 1..Len(s) /\ s[g[n + 1]] \notin S
    BY <2>1 DEF KeptPlaces
  <2>3. PICK i \in 1..n : f[i] = g[n + 1]
    BY <2>2 DEF KeptPlaces
  <2>4. i \in 1..m /\ i < n + 1
    OBVIOUS
  <2>5. g[i] < g[n + 1]
    BY <2>1, <2>4 DEF KeptPlaces
  <2>6. g[i] = g[n + 1]
    BY <2>3, <1>2
  <2> QED BY <2>2, <2>5, <2>6
<1> QED BY <1>2, <1>3 DEF KeptPlaces

LEMMA PurgesUnique ==
    ASSUME NEW T, NEW s \in Seq(T), NEW S,
           NEW r \in Purges(s, S), NEW q \in Purges(s, S)
    PROVE  r = q
<1>1. PICK n \in 0..Len(s) : \E f \in KeptPlaces(s, S, n) :
          r = [i \in 1..n |-> s[f[i]]]
  BY DEF Purges
<1>2. PICK m \in 0..Len(s) : \E f \in KeptPlaces(s, S, m) :
          q = [i \in 1..m |-> s[f[i]]]
  BY DEF Purges
<1>3. PICK f \in KeptPlaces(s, S, n) : r = [i \in 1..n |-> s[f[i]]]
  BY <1>1
<1>4. PICK g \in KeptPlaces(s, S, m) : q = [i \in 1..m |-> s[g[i]]]
  BY <1>2
<1>5. Len(s) \in Nat /\ n \in Nat /\ m \in Nat
  OBVIOUS
<1>6. n = m /\ f = g
  <2>1. CASE n <= m
    BY <2>1, <1>5, KeptPlacesEqual
  <2>2. CASE m <= n
    BY <2>2, <1>5, KeptPlacesEqual
  <2> QED BY <2>1, <2>2, <1>5
<1> QED BY <1>3, <1>4, <1>6
-----------------------------------------------------------------------------
LEMMA CutKeeps ==
    ASSUME NEW T, NEW s \in Seq(T), NEW k \in 1..Len(s)
    PROVE  /\ Cut(s, k) \in Seq(T)
           /\ Len(Cut(s, k)) = Len(s) - 1
           /\ \A i \in 1..(Len(s) - 1) :
                 Cut(s, k)[i] = IF i < k THEN s[i] ELSE s[i + 1]
           /\ NoDuplicates(s) => /\ NoDuplicates(Cut(s, k))
                                 /\ Elements(Cut(s, k)) = Elements(s) \ {s[k]}
<1> DEFINE c == Cut(s, k)
<1>1. Len(s) \in Nat /\ Len(s) - 1 \in Nat
  OBVIOUS
<1>2. \A i \in 1..(Len(s) - 1) : (IF i < k THEN s[i] ELSE s[i + 1]) \in T
  <2> TAKE i \in 1..(Len(s) - 1)
  <2>1. i \in 1..Len(s) /\ i + 1 \in 1..Len(s)
    BY <1>1
  <2> QED BY <2>1
<1>3. c \in Seq(T) /\ Len(c) = Len(s) - 1
  BY <1>1, <1>2 DEF Cut
<1>4. \A i \in 1..(Len(s) - 1) : c[i] = IF i < k THEN s[i] ELSE s[i + 1]
  BY DEF Cut
<1> HIDE DEF c
<1>5. ASSUME NoDuplicates(s) PROVE NoDuplicates(c)
  <2> SUFFICES ASSUME NEW i \in 1..(Len(s) - 1), NEW j \in 1..(Len(s) - 1),
                      c[i] = c[j]
               PROVE  i = j
    BY <1>3 DEF NoDuplicates
  <2> DEFINE At(n) == IF n < k THEN n ELSE n + 1
  <2>1. /\ At(i) \in 1..Len(s) /\ c[i] = s[At(i)]
        /\ At(j) \in 1..Len(s) /\ c[j] = s[At(j)]
    BY <1>1, <1>4
  <2>2. At(i) = At(j)
    <3> HIDE DEF At
    <3> QED BY <2>1, <1>5 DEF NoDuplicates
  <2> QED BY <2>2
<1>6. ASSUME NoDuplicates(s) PROVE Elements(c) = Elements(s) \ {s[k]}
  <2>1. ASSUME NEW x \in Elements(c) PROVE x \in Elements(s) \ {s[k]}
    <3>1. PICK i \in 1..(Len(s) - 1) : x = c[i]
      BY <1>3 DEF Elements
    <3>2. CASE i < k
      <4>1. x = s[i] /\ i \in 1..Len(s) /\ i # k
        BY <3>1, <3>2, <1>1, <1>4
      <4> QED BY <4>1, <1>6 DEF Elements, NoDuplicates
    <3>3. CASE ~(i < k)
      <4>1. x = s[i + 1] /\ i + 1 \in 1..Len(s) /\ i + 1 # k
        BY <3>1, <3>3, <1>1, <1>4
      <4> QED BY <4>1, <1>6 DEF Elements, NoDuplicates
    <3> QED BY <3>2, <3>3
  <2>2. ASSUME NEW x \in Elements(s) \ {s[k]} PROVE x \in Elements(c)
    <3>1. PICK i \in 1..Len(s) : x = s[i] /\ i # k
      BY DEF Elements
    <3>2. CASE i < k
      <4>1. i \in 1..(Len(s) - 1) /\ c[i] = x
        BY <3>1, <3>2, <1>1, <1>4
      <4> QED BY <4>1, <1>3 DEF Elements
    <3>3. CASE i > k
      <4>1. i - 1 \in 1..(Len(s) - 1) /\ c[i - 1] = x
        BY <3>1, <3>3, <1>1, <1>4
      <4> QED BY <4>1, <1>3 DEF Elements
    <3> QED BY <3>1, <3>2, <3>3
  <2> QED BY <2>1, <2>2
<1> QED BY <1>3, <1>4, <1>5, <1>6 DEF c

\* Cutting out what was appended.
LEMMA CutsAppended ==
    ASSUME NEW T, NEW s \in Seq(T), NEW x \in T
    PROVE  /\ Len(Append(s, x)) \in 1..Len(Append(s, x))
           /\ Append(s, x)[Len(Append(s, x))] = x
           /\ Cut(Append(s, x), Len(Append(s, x))) = s
<1>1. /\ Append(s, x) \in Seq(T) /\ Len(s) \in Nat
      /\ Len(Append(s, x)) = Len(s) + 1 /\ Append(s, x)[Len(s) + 1] = x
      /\ \A i \in 1..Len(s) : Append(s, x)[i] = s[i]
  BY Appended
<1>2. Len(Append(s, x)) \in 1..Len(Append(s, x))
  BY <1>1
<1>3. Cut(Append(s, x), Len(Append(s, x))) = [i \in 1..Len(s) |-> s[i]]
  <2>1. Cut(Append(s, x), Len(Append(s, x))) =
           [i \in 1..Len(s) |-> IF i < Len(s) + 1 THEN Append(s, x)[i]
                                ELSE Append(s, x)[i + 1]]
    BY <1>1 DEF Cut
  <2>2. \A i \in 1..Len(s) : (IF i < Len(s) + 1 THEN Append(s, x)[i]
                              ELSE Append(s, x)[i + 1]) = s[i]
    BY <1>1
  <2> QED BY <2>1, <2>2
<1>4. s = [i \in 1..Len(s) |-> s[i]]
  OBVIOUS
<1> QED BY <1>1, <1>2, <1>3, <1>4

\* An element of S that is taken out first makes no difference.
LEMMA CutPurges ==
    ASSUME NEW T, NEW s \in Seq(T), NEW S, NEW k \in 1..Len(s), s[k] \in S
    PROVE  Purges(Cut(s, k), S) = Purges(s, S)
<1> DEFINE c == Cut(s, k)
<1>1. /\ c \in Seq(T) /\ Len(c) = Len(s) - 1 /\ Len(s) \in Nat
      /\ \A i \in 1..(Len(s) - 1) : c[i] = IF i < k THEN s[i] ELSE s[i + 1]
  BY CutKeeps
<1> HIDE DEF c
<1>2. ASSUME NEW r \in Purges(c, S) PROVE r \in Purges(s, S)
  <2>1. PICK n \in 0..Len(c) : \E f \in KeptPlaces(c, S, n) :
            r = [i \in 1..n |-> c[f[i]]]
    BY DEF Purges
  <2>2. PICK f \in KeptPlaces(c, S, n) : r = [i \in 1..n |-> c[f[i]]]
    BY <2>1
  <2> DEFINE N == Len(s) - 1
  <2>3. /\ n \in Nat /\ n <= Len(s) /\ N \in Nat /\ Len(s) = N + 1
        /\ \A i \in 1..n : f[i] \in 1..N
    <3>1. n \in Nat /\ n <= Len(s) /\ N \in Nat /\ Len(s) = N + 1
      BY <1>1
    <3>2. f \in [1..n -> 1..N]
      BY <2>2, <1>1 DEF KeptPlaces
    <3> QED BY <3>1, <3>2
  <2> DEFINE g == [i \in 1..n |-> IF f[i] < k THEN f[i] ELSE f[i] + 1]
  <2>4. /\ g \in [1..n -> 1..Len(s)]
        /\ \A i \in 1..n : /\ s[g[i]] = c[f[i]]
                           /\ g[i] = IF f[i] < k THEN f[i] ELSE f[i] + 1
    <3>1. \A i \in 1..N : c[i] = IF i < k THEN s[i] ELSE s[i + 1]
      BY <1>1
    <3> HIDE DEF N
    <3>2. \A i \in 1..n : (IF f[i] < k THEN f[i] ELSE f[i] + 1) \in 1..Len(s)
      BY <2>3
    <3> QED BY <2>3, <3>1, <3>2
  <2> HIDE DEF g, N
  <2>5. \A i, j \in 1..n : i < j => g[i] < g[j]
    <3> SUFFICES ASSUME NEW i \in 1..n, NEW j \in 1..n, i < j PROVE g[i] < g[j]
      OBVIOUS
    <3>1. f[i] < f[j]
      BY DEF KeptPlaces
    <3>2. f[i] \in 1..N /\ f[j] \in 1..N /\ k \in 1..(N + 1)
      BY <2>3
    <3>3. /\ g[i] = IF f[i] < k THEN f[i] ELSE f[i] + 1
          /\ g[j] = IF f[j] < k THEN f[j] ELSE f[j] + 1
      BY <2>4
    <3> QED BY <3>1, <3>2, <3>3, <2>3
  <2>6. \A l \in 1..Len(s) : s[l] \notin S <=> \E i \in 1..n : g[i] = l
    <3> TAKE l \in 1..Len(s)
    <3>1. CASE l < k
      <4>1. l \in 1..Len(c) /\ c[l] = s[l]
        BY <3>1, <1>1
      <4>2. c[l] \notin S <=> \E i \in 1..n : f[i] = l
        BY <4>1 DEF KeptPlaces
      <4>3. \A i \in 1..n : g[i] = l <=> f[i] = l
        BY <3>1, <2>3, <2>4
      <4> QED BY <4>1, <4>2, <4>3
    <3>2. CASE l = k
      <4>1. \A i \in 1..n : g[i] # k
        BY <2>3, <2>4
      <4> QED BY <4>1, <3>2
    <3>3. CASE l > k
      <4>1. l - 1 \in 1..Len(c) /\ c[l - 1] = s[l]
        BY <3>3, <1>1
      <4>2. c[l - 1] \notin S <=> \E i \in 1..n : f[i] = l - 1
        BY <4>1 DEF KeptPlaces
      <4>3. \A i \in 1..n : g[i] = l <=> f[i] = l - 1
        <5> TAKE i \in 1..n
        <5>1. f[i] \in 1..N /\ k \in 1..(N + 1) /\ l \in 1..(N + 1)
          BY <2>3
        <5>2. g[i] = IF f[i] < k THEN f[i] ELSE f[i] + 1
          BY <2>4
        <5> QED BY <5>1, <5>2, <3>3, <2>3
      <4> QED BY <4>1, <4>2, <4>3
    <3> QED BY <3>1, <3>2, <3>3, <1>1
  <2>7. g \in KeptPlaces(s, S, n)
    BY <2>4, <2>5, <2>6 DEF KeptPlaces
  <2>8. [i \in 1..n |-> s[g[i]]] \in Purges(s, S)
    BY <2>3, <2>7, PurgesBy
  <2> QED BY <2>2, <2>4, <2>8
<1>3. ASSUME NEW r \in Purges(s, S) PROVE r \in Purges(c, S)
  <2>1. PICK q \in Purges(c, S) : TRUE
    BY <1>1, PurgesExists
  <2>2. q = r
    BY <2>1, <1>2, PurgesUnique
  <2> QED BY <2>1, <2>2
<1> QED BY <1>2, <1>3 DEF c

\* What is done to every element alike can be done before or after.
LEMMA PurgesMapped ==
    ASSUME NEW T, NEW s \in Seq(T), NEW S, NEW e, NEW R,
           \A x \in Elements(s) : e[x] \in R <=> x \in S,
           NEW r \in Purges(s, S)
    PROVE  [i \in 1..Len(r) |-> e[r[i]]]
              \in Purges([i \in 1..Len(s) |-> e[s[i]]], R)
<1> DEFINE q == [i \in 1..Len(s) |-> e[s[i]]]
           U == {e[x] : x \in T}
<1>1. q \in Seq(U) /\ Len(q) = Len(s) /\ \A i \in 1..Len(s) : q[i] = e[s[i]]
  OBVIOUS
<1> HIDE DEF q, U
<1>2. PICK n \in 0..Len(s) : \E f \in KeptPlaces(s, S, n) :
          r = [i \in 1..n |-> s[f[i]]]
  BY DEF Purges
<1>3. PICK f \in KeptPlaces(s, S, n) : r = [i \in 1..n |-> s[f[i]]]
  BY <1>2
<1>4. n \in Nat /\ n <= Len(s) /\ \A i \in 1..n : f[i] \in 1..Len(s)
  BY DEF KeptPlaces
<1>5. f \in KeptPlaces(q, R, n)
  <2>1. \A k \in 1..Len(s) : q[k] \in R <=> s[k] \in S
    BY <1>1 DEF Elements
  <2> QED BY <2>1, <1>1 DEF KeptPlaces
<1>6. [i \in 1..n |-> q[f[i]]] \in Purges(q, R)
  BY <1>1, <1>4, <1>5, PurgesBy
<1>7. r \in Seq(T) /\ Len(r) = n
  <2>1. \A i \in 1..n : s[f[i]] \in T
    BY <1>4
  <2> QED BY <2>1, <1>3, <1>4
<1>8. [i \in 1..n |-> q[f[i]]] = [i \in 1..Len(r) |-> e[r[i]]]
  BY <1>1, <1>3, <1>4, <1>7
<1> QED BY <1>6, <1>8 DEF q
-----------------------------------------------------------------------------
\* An element of a list has a place.
LEMMA PlaceOf ==
    ASSUME NEW s, NEW x \in Elements(s)
    PROVE  Place(s, x) \in 1..Len(s) /\ s[Place(s, x)] = x
BY DEF Place, Elements

LEMMA PutKeeps ==
    ASSUME NEW T, NEW s \in Seq(T), NEW k \in 1..(Len(s) + 1), NEW x \in T
    PROVE  /\ Put(s, k, x) \in Seq(T)
           /\ Len(Put(s, k, x)) = Len(s) + 1 /\ Len(s) \in Nat
           /\ \A i \in 1..(Len(s) + 1) :
                 Put(s, k, x)[i] =
                    IF i < k THEN s[i] ELSE IF i = k THEN x ELSE s[i - 1]
           /\ Elements(Put(s, k, x)) = Elements(s) \cup {x}
           /\ NoDuplicates(s) /\ x \notin Elements(s) =>
                NoDuplicates(Put(s, k, x))
<1> DEFINE c == Put(s, k, x)
<1>1. Len(s) \in Nat /\ Len(s) + 1 \in Nat
  OBVIOUS
<1>2. ASSUME NEW i \in 1..(Len(s) + 1)
      PROVE  (IF i < k THEN s[i] ELSE IF i = k THEN x ELSE s[i - 1]) \in T
  <2>1. i < k => i \in 1..Len(s)
    BY <1>1
  <2>2. i > k => i - 1 \in 1..Len(s)
    BY <1>1
  <2> QED BY <1>1, <2>1, <2>2
<1>3. c \in Seq(T) /\ Len(c) = Len(s) + 1
  BY <1>1, <1>2 DEF Put
<1>4. \A i \in 1..(Len(s) + 1) :
        c[i] = IF i < k THEN s[i] ELSE IF i = k THEN x ELSE s[i - 1]
  BY DEF Put
<1> HIDE DEF c
<1>5. Elements(c) = Elements(s) \cup {x}
  <2>1. ASSUME NEW y \in Elements(c) PROVE y \in Elements(s) \cup {x}
    <3>1. PICK i \in 1..(Len(s) + 1) : y = c[i]
      BY <1>3 DEF Elements
    <3>2. CASE i < k
      <4>1. i \in 1..Len(s) /\ y = s[i]
        BY <3>1, <3>2, <1>1, <1>4
      <4> QED BY <4>1 DEF Elements
    <3>3. CASE i > k
      <4>1. i - 1 \in 1..Len(s) /\ y = s[i - 1]
        BY <3>1, <3>3, <1>1, <1>4
      <4> QED BY <4>1 DEF Elements
    <3>4. CASE i = k
      BY <3>1, <3>4, <1>4
    <3> QED BY <3>2, <3>3, <3>4
  <2>2. ASSUME NEW y \in Elements(s) PROVE y \in Elements(c)
    <3>1. PICK i \in 1..Len(s) : y = s[i]
      BY DEF Elements
    <3>2. CASE i < k
      <4>1. i \in 1..Len(c) /\ c[i] = y
        BY <3>1, <3>2, <1>1, <1>3, <1>4
      <4> QED BY <4>1 DEF Elements
    <3>3. CASE ~(i < k)
      <4>1. i + 1 \in 1..Len(c) /\ c[i + 1] = y
        BY <3>1, <3>3, <1>1, <1>3, <1>4
      <4> QED BY <4>1 DEF Elements
    <3> QED BY <3>2, <3>3
  <2>3. x \in Elements(c)
    <3>1. k \in 1..Len(c) /\ c[k] = x
      BY <1>1, <1>3, <1>4
    <3> QED BY <3>1 DEF Elements
  <2> QED BY <2>1, <2>2, <2>3
<1>6. ASSUME NoDuplicates(s), x \notin Elements(s) PROVE NoDuplicates(c)
  <2> SUFFICES ASSUME NEW i \in 1..(Len(s) + 1), NEW j \in 1..(Len(s) + 1),
                      c[i] = c[j]
               PROVE  i = j
    BY <1>3 DEF NoDuplicates
  <2> DEFINE At(n) == IF n < k THEN n ELSE n - 1
  <2>1. ASSUME NEW n \in 1..(Len(s) + 1), n # k
        PROVE  At(n) \in 1..Len(s) /\ c[n] = s[At(n)] /\ c[n] # x
    <3>1. At(n) \in 1..Len(s) /\ c[n] = s[At(n)]
      BY <2>1, <1>1, <1>4
    <3> HIDE DEF At
    <3> QED BY <3>1, <1>6 DEF Elements
  <2>2. c[k] = x
    BY <1>4, <1>1
  <2>3. CASE i = k \/ j = k
    BY <2>1, <2>2, <2>3
  <2>4. CASE i # k /\ j # k
    <3>1. At(i) = At(j)
      <4>1. /\ At(i) \in 1..Len(s) /\ c[i] = s[At(i)]
            /\ At(j) \in 1..Len(s) /\ c[j] = s[At(j)]
        BY <2>1, <2>4
      <4> HIDE DEF At
      <4> QED BY <4>1, <1>6 DEF NoDuplicates
    <3> QED BY <3>1, <2>4, <1>1
  <2> QED BY <2>3, <2>4
<1> QED BY <1>1, <1>3, <1>4, <1>5, <1>6 DEF c

LEMMA AppendIsPut ==
    ASSUME NEW T, NEW s \in Seq(T), NEW x \in T
    PROVE  Append(s, x) = Put(s, Len(s) + 1, x)
<1> DEFINE a == Append(s, x)
<1>1. /\ Len(s) \in Nat /\ a \in Seq(T) /\ Len(a) = Len(s) + 1
      /\ \A i \in 1..Len(s) : a[i] = s[i]
      /\ a[Len(s) + 1] = x
  BY Appended
<1> HIDE DEF a
<1>2. \A i \in 1..(Len(s) + 1) :
        a[i] = IF i < Len(s) + 1 THEN s[i]
               ELSE IF i = Len(s) + 1 THEN x ELSE s[i - 1]
  BY <1>1
<1>3. a = [i \in 1..(Len(s) + 1) |-> a[i]]
  BY <1>1
<1>4. a = Put(s, Len(s) + 1, x)
  BY <1>2, <1>3 DEF Put
<1> QED BY <1>4 DEF a

\* A member is cut out of a linked list: the one in front of it, if any, takes
\* over its link, or else the list begins with that.
LEMMA LinkedCut ==
    ASSUME NEW T, NEW s \in Seq(T), NoDuplicates(s), NEW null, NEW link, NEW q,
           Linked(s, link, q, null), NEW k \in 1..Len(s), NEW less,
           \A i \in 1..Len(s) : i # k - 1 /\ i # k => less[s[i]] = link[s[i]],
           k # 1 => less[s[k - 1]] = link[s[k]]
    PROVE  Linked(Cut(s, k), less, IF k = 1 THEN link[s[k]] ELSE q, null)
<1> DEFINE c == Cut(s, k)
<1>1. /\ c \in Seq(T) /\ Len(c) = Len(s) - 1 /\ Len(s) \in Nat
      /\ \A i \in 1..(Len(s) - 1) : c[i] = IF i < k THEN s[i] ELSE s[i + 1]
  BY CutKeeps
<1> HIDE DEF c
<1>2. \A i \in 1..Len(s) : link[s[i]] = IF i = Len(s) THEN null ELSE s[i + 1]
  BY DEF Linked
<1>3. (IF k = 1 THEN link[s[k]] ELSE q) = IF c = <<>> THEN null ELSE c[1]
  <2>1. CASE Len(s) = 1
    BY <2>1, <1>1, <1>2
  <2>2. CASE Len(s) # 1
    <3>1. c # <<>> /\ 1 \in 1..(Len(s) - 1) /\ 1 \in 1..Len(s)
      BY <2>2, <1>1
    <3>2. c[1] = IF k = 1 THEN s[2] ELSE s[1]
      BY <3>1, <1>1
    <3>3. q = s[1] /\ link[s[1]] = s[2]
      BY <3>1, <2>2, <1>2 DEF Linked
    <3> QED BY <3>1, <3>2, <3>3
  <2> QED BY <2>1, <2>2
<1>4. ASSUME NEW i \in 1..Len(c)
      PROVE  less[c[i]] = IF i = Len(c) THEN null ELSE c[i + 1]
  <2>1. i \in 1..Len(s) /\ i + 1 \in 1..Len(s) /\ i \in 1..(Len(s) - 1)
    BY <1>1
  <2>2. i # Len(c) => c[i + 1] = IF i + 1 < k THEN s[i + 1] ELSE s[i + 2]
    <3>1. i # Len(c) => i + 1 \in 1..(Len(s) - 1) /\ i + 1 + 1 = i + 2
      BY <1>1
    <3> QED BY <3>1, <1>1
  <2>3. CASE i < k - 1
    <3>1. c[i] = s[i] /\ less[s[i]] = link[s[i]] /\ link[s[i]] = s[i + 1]
      BY <2>1, <2>3, <1>1, <1>2
    <3> QED BY <3>1, <2>1, <2>2, <2>3, <1>1
  <2>4. CASE i = k - 1
    <3>1. c[i] = s[k - 1] /\ less[s[k - 1]] = link[s[k]] /\ i + 1 = k /\ k + 1 = i + 2
      BY <2>1, <2>4, <1>1
    <3>2. link[s[k]] = IF k = Len(s) THEN null ELSE s[k + 1]
      BY <1>2
    <3> QED BY <3>1, <3>2, <2>1, <2>2, <2>4, <1>1
  <2>5. CASE i >= k
    <3>1. c[i] = s[i + 1] /\ less[s[i + 1]] = link[s[i + 1]]
      BY <2>1, <2>5, <1>1
    <3>2. link[s[i + 1]] = IF i + 1 = Len(s) THEN null ELSE s[i + 2]
      <4>1. i + 1 + 1 = i + 2
        BY <2>1
      <4> QED BY <4>1, <2>1, <1>2
    <3> QED BY <3>1, <3>2, <2>1, <2>2, <2>5, <1>1
  <2> QED BY <2>1, <2>3, <2>4, <2>5
<1> QED BY <1>3, <1>4 DEF Linked, c

\* A new member is put into a linked list: it links to the one that is behind
\* it, and the one before it to it, or else the list begins with it.
LEMMA LinkedPut ==
    ASSUME NEW T, NEW s \in Seq(T), NoDuplicates(s), NEW null,
           NEW link, NEW m, Linked(s, link, m, null),
           NEW k \in 1..(Len(s) + 1), NEW x \in T, x \notin Elements(s),
           NEW new, NEW n,
           new[x] = IF k = Len(s) + 1 THEN null ELSE s[k],
           \A y \in Elements(s) :
                new[y] = IF k > 1 /\ y = s[k - 1] THEN x ELSE link[y],
           n = IF k = 1 THEN x ELSE m
    PROVE  Linked(Put(s, k, x), new, n, null)
<1> DEFINE c == Put(s, k, x)
<1>1. /\ c \in Seq(T) /\ Len(s) \in Nat /\ Len(c) = Len(s) + 1
      /\ \A i \in 1..(Len(s) + 1) :
            c[i] = IF i < k THEN s[i] ELSE IF i = k THEN x ELSE s[i - 1]
  BY PutKeeps
<1> HIDE DEF c
<1>2. /\ m = IF s = <<>> THEN null ELSE s[1]
      /\ \A i \in 1..Len(s) : link[s[i]] = IF i = Len(s) THEN null ELSE s[i + 1]
  BY DEF Linked
<1>3. \A i \in 1..Len(s) :
        new[s[i]] = IF k > 1 /\ i = k - 1 THEN x ELSE link[s[i]]
  <2> TAKE i \in 1..Len(s)
  <2>1. s[i] \in Elements(s)
    BY DEF Elements
  <2>2. k > 1 => (s[i] = s[k - 1] <=> i = k - 1)
    <3>1. k > 1 => k - 1 \in 1..Len(s)
      BY <1>1
    <3> QED BY <3>1 DEF NoDuplicates
  <2> QED BY <2>1, <2>2
<1>4. n = IF c = <<>> THEN null ELSE c[1]
  <2>1. c # <<>> /\ 1 \in 1..(Len(s) + 1)
    BY <1>1
  <2>2. CASE k = 1
    BY <2>1, <2>2, <1>1
  <2>3. CASE k > 1
    <3>1. s # <<>>
      BY <2>3, <1>1
    <3> QED BY <2>1, <2>3, <3>1, <1>1, <1>2
  <2> QED BY <2>2, <2>3, <1>1
<1>5. ASSUME NEW i \in 1..Len(c)
      PROVE  new[c[i]] = IF i = Len(c) THEN null ELSE c[i + 1]
  <2>1. i \in 1..(Len(s) + 1) /\ i \in Nat /\ k \in Nat
    BY <1>1
  <2>2. CASE i < k
    <3>1. c[i] = s[i] /\ i \in 1..Len(s) /\ i # Len(c) /\ i + 1 \in 1..(Len(s) + 1)
      BY <2>1, <2>2, <1>1
    <3>2. new[s[i]] = IF i = k - 1 THEN x ELSE link[s[i]]
      BY <3>1, <2>1, <2>2, <1>3
    <3>3. CASE i = k - 1
      BY <3>1, <3>2, <3>3, <2>1, <1>1
    <3>4. CASE i # k - 1
      <4>1. i + 1 < k /\ i # Len(s)
        BY <3>4, <2>1, <2>2, <1>1
      <4> QED BY <4>1, <3>1, <3>2, <3>4, <1>1, <1>2
    <3> QED BY <3>3, <3>4
  <2>3. CASE i = k
    <3>1. c[i] = x /\ (i = Len(c) <=> k = Len(s) + 1)
      BY <2>1, <2>3, <1>1
    <3>2. CASE k # Len(s) + 1
      <4>1. c[i + 1] = s[k]
        <5>1. i + 1 \in 1..(Len(s) + 1) /\ ~(i + 1 < k) /\ i + 1 # k /\ i + 1 - 1 = k
          BY <3>2, <2>1, <2>3, <1>1
        <5> QED BY <5>1, <1>1
      <4> QED BY <4>1, <3>1, <3>2
    <3> QED BY <3>1, <3>2
  <2>4. CASE i > k
    <3>1. c[i] = s[i - 1] /\ i - 1 \in 1..Len(s) /\ i - 1 # k - 1
      BY <2>1, <2>4, <1>1
    <3>2. new[s[i - 1]] = IF i - 1 = Len(s) THEN null ELSE s[i]
      BY <3>1, <2>1, <1>2, <1>3
    <3>3. i # Len(c) => c[i + 1] = s[i]
      BY <2>1, <2>4, <1>1
    <3> QED BY <3>1, <3>2, <3>3, <2>1, <1>1
  <2> QED BY <2>1, <2>2, <2>3, <2>4
<1> QED BY <1>4, <1>5 DEF Linked, c
=============================================================================
