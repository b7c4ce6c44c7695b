--------------------------- MODULE InterfaceProofs ---------------------------
(***************************************************************************)
(* What scripts have of the interface, for any sets of canvases, of ids    *)
(* and of events, and any handlers.                                        *)
(*                                                                         *)
(* The tree: the lists of children agree, the tree is one of what exists,  *)
(* and the ids are those of what exists.  Each operation is Removed() and  *)
(* then an insertion, or Orphaned(), so that it is enough to show of these *)
(* few that they keep the links whole, and of what they make of the order  *)
(* of the children that they do to it what the abstract tree does.         *)
(*                                                                         *)
(* A frame: an event of the mouse is handled once, by the canvas on top.   *)
(*                                                                         *)
(* The events of an object: every listener hears, once and in order.       *)
(***************************************************************************)
EXTENDS CanvasFrame, JSEvents, ListsProofs, SequenceTheorems

LinksType ==
    [parent : [Canvas -> CanvasOrNull], first : [Canvas -> CanvasOrNull],
     last : [Canvas -> CanvasOrNull], next : [Canvas -> CanvasOrNull],
     prev : [Canvas -> CanvasOrNull], count : [Canvas -> Nat],
     layout : [Canvas -> SUBSET Canvas]]

(* LinksAgree of the links t, in parts, and what makes it inductive: no canvas *)
(* is its own parent, and a canvas has a first child when it has a last one.   *)

Alone(t) == \A x \in Canvas : t.parent[x] = Null =>
                t.next[x] = Null /\ t.prev[x] = Null
Nexts(t) == \A x \in Canvas : t.next[x] # Null =>
                /\ t.prev[t.next[x]] = x
                /\ t.parent[t.next[x]] = t.parent[x]
Prevs(t) == \A x \in Canvas : t.prev[x] # Null =>
                /\ t.next[t.prev[x]] = x
                /\ t.parent[t.prev[x]] = t.parent[x]
Firsts(t) == \A x \in Canvas : t.first[x] # Null =>
                t.parent[t.first[x]] = x /\ t.prev[t.first[x]] = Null
Lasts(t) == \A x \in Canvas : t.last[x] # Null =>
                t.parent[t.last[x]] = x /\ t.next[t.last[x]] = Null
Ends(t) == \A x \in Canvas : t.parent[x] # Null =>
                /\ t.prev[x] = Null => t.first[t.parent[x]] = x
                /\ t.next[x] = Null => t.last[t.parent[x]] = x
Both(t) == \A x \in Canvas : t.first[x] = Null <=> t.last[x] = Null
NotItself(t) == \A x \in Canvas : t.parent[x] # x
Told(t) == \A x \in Canvas :
                /\ t.layout[x] = {y \in Canvas : t.parent[y] = x}
                /\ t.count[x] = Cardinality(t.layout[x])

Whole(t) ==
    /\ t \in LinksType
    /\ Alone(t) /\ Nexts(t) /\ Prevs(t) /\ Firsts(t) /\ Lasts(t) /\ Ends(t)
    /\ Both(t) /\ NotItself(t) /\ Told(t)

(* What removeFromParent() and the insertions make of whole links. *)

LEMMA RemovedIsWhole ==
    ASSUME NEW t, Whole(t), NEW c \in Canvas
    PROVE  /\ \A x \in Canvas : Removed(t, c).parent[x] =
                    IF x = c THEN Null ELSE t.parent[x]
           /\ Whole(Removed(t, c))
  <1>1. CASE t.parent[c] = Null
    BY <1>1, CanvasAssumption DEF Removed, Whole, LinksType
  <1>2. CASE t.parent[c] # Null
    <2> DEFINE p == t.parent[c]
               u == Removed(t, c)
    <2>1. /\ p \in Canvas /\ p # c /\ Null \notin Canvas
          /\ \A x \in Canvas : /\ t.parent[x] \in CanvasOrNull /\ t.first[x] \in CanvasOrNull
                             /\ t.last[x] \in CanvasOrNull /\ t.next[x] \in CanvasOrNull
                             /\ t.prev[x] \in CanvasOrNull
      BY <1>2, CanvasAssumption DEF Whole, LinksType, CanvasOrNull, NotItself
    <2>2. /\ u.parent = [t.parent EXCEPT ![c] = Null]
          /\ u.first = [t.first EXCEPT ![p] = IF @ = c THEN t.next[c] ELSE @]
          /\ u.last = [t.last EXCEPT ![p] = IF @ = c THEN t.prev[c] ELSE @]
          /\ u.next = [x \in Canvas |-> IF x = c THEN Null
                            ELSE IF x = t.prev[c] THEN t.next[c] ELSE t.next[x]]
          /\ u.prev = [x \in Canvas |-> IF x = c THEN Null
                            ELSE IF x = t.next[c] THEN t.prev[c] ELSE t.prev[x]]
          /\ u.count = [t.count EXCEPT ![p] = @ - 1]
          /\ u.layout = [t.layout EXCEPT ![p] = @ \ {c}]
      BY <1>2 DEF Removed
    <2>3. \A x \in Canvas :
            /\ u.parent[x] = IF x = c THEN Null ELSE t.parent[x]
            /\ u.first[x] = IF x = p /\ t.first[x] = c THEN t.next[c] ELSE t.first[x]
            /\ u.last[x] = IF x = p /\ t.last[x] = c THEN t.prev[c] ELSE t.last[x]
            /\ u.next[x] = IF x = c THEN Null
                           ELSE IF x = t.prev[c] THEN t.next[c] ELSE t.next[x]
            /\ u.prev[x] = IF x = c THEN Null
                           ELSE IF x = t.next[c] THEN t.prev[c] ELSE t.prev[x]
      BY <2>1, <2>2 DEF Whole, LinksType
    <2>4. /\ t.layout[p] \ {c} = {y \in Canvas : u.parent[y] = p}
           /\ t.count[p] - 1 = Cardinality(t.layout[p] \ {c})
           /\ t.count[p] - 1 \in Nat
      <3>1. t.layout[p] = {y \in Canvas : t.parent[y] = p} /\ c \in t.layout[p]
        BY <2>1 DEF Whole, Told
      <3>2. IsFiniteSet(t.layout[p])
        BY <3>1, FS_Subset, CanvasAssumption
      <3>3. /\ Cardinality(t.layout[p] \ {c}) = Cardinality(t.layout[p]) - 1
            /\ IsFiniteSet(t.layout[p] \ {c})
        BY <3>1, <3>2, FS_RemoveElement
      <3>4. Cardinality(t.layout[p] \ {c}) \in Nat
        BY <3>3, FS_CardinalityType
      <3>5. t.count[p] = Cardinality(t.layout[p])
        BY <2>1 DEF Whole, Told
      <3>6. t.layout[p] \ {c} = {y \in Canvas : u.parent[y] = p}
        BY <2>1, <2>3, <3>1
      <3> QED BY <3>3, <3>4, <3>5, <3>6
    <2>5. Told(u)
      <3> SUFFICES ASSUME NEW x \in Canvas
                   PROVE  /\ u.layout[x] = {y \in Canvas : u.parent[y] = x}
                          /\ u.count[x] = Cardinality(u.layout[x])
        BY DEF Told
      <3>1. t.count \in [Canvas -> Nat] /\ t.layout \in [Canvas -> SUBSET Canvas]
        BY DEF Whole, LinksType
      <3>2. CASE x = p
        BY <2>1, <2>2, <2>4, <3>1, <3>2
      <3>3. CASE x # p
        <4>1. u.layout[x] = t.layout[x] /\ u.count[x] = t.count[x]
          BY <2>1, <2>2, <3>1, <3>3
        <4>2. \A y \in Canvas : u.parent[y] = x <=> t.parent[y] = x
          BY <2>1, <2>3, <3>3, CanvasAssumption
        <4> QED BY <4>1, <4>2 DEF Whole, Told
      <3> QED BY <3>2, <3>3
    <2>6. u \in LinksType
      BY <1>2, <2>1, <2>4 DEF Whole, Removed, LinksType, CanvasOrNull
    <2>7. Alone(t) /\ Nexts(t) /\ Prevs(t) /\ Firsts(t) /\ Lasts(t) /\ Ends(t)
          /\ Both(t) /\ NotItself(t)
      BY DEF Whole
    <2> HIDE DEF p, u
    <2>8. Alone(u)
      BY <2>1, <2>3, <2>7 DEF Alone, Nexts, Prevs, CanvasOrNull, p
    <2>9. Nexts(u)
      BY <2>1, <2>3, <2>7 DEF Nexts, Prevs, CanvasOrNull, p
    <2>10. Prevs(u)
      BY <2>1, <2>3, <2>7 DEF Nexts, Prevs, CanvasOrNull, p
    <2>11. Firsts(u)
      BY <2>1, <2>3, <2>7 DEF Nexts, Prevs, Firsts, CanvasOrNull, p
    <2>12. Lasts(u)
      BY <2>1, <2>3, <2>7 DEF Nexts, Prevs, Lasts, CanvasOrNull, p
    <2>13. Ends(u)
      BY <2>1, <2>3, <2>7 DEF Nexts, Prevs, Ends, Firsts, Lasts, CanvasOrNull, p
    <2>14. Both(u)
      BY <2>1, <2>3, <2>7 DEF Both, Nexts, Prevs, Ends, Firsts, Lasts, CanvasOrNull, p
    <2>15. NotItself(u)
      BY <2>1, <2>3, <2>7 DEF NotItself
    <2> QED BY <2>3, <2>6, <2>8, <2>9, <2>10, <2>11, <2>12, <2>13, <2>14, <2>15, <2>5
            DEF Whole, u, Removed
  <1> QED BY <1>1, <1>2

\* What an insertion does to parents: c has p, or nothing is done.
OnlyMoves(t, u, p, c) ==
    \A x \in Canvas : u.parent[x] = t.parent[x] \/ (x = c /\ u.parent[x] = p)

\* c, which has no parent, is put between its neighbours to be, a and b.
Between(u, t, p, c, a, b) ==
    /\ \A x \in Canvas :
        /\ u.parent[x] = IF x = c THEN p ELSE t.parent[x]
        /\ u.first[x] = IF x = p /\ a = Null THEN c ELSE t.first[x]
        /\ u.last[x] = IF x = p /\ b = Null THEN c ELSE t.last[x]
        /\ u.next[x] = IF x = c THEN b ELSE IF x = a THEN c ELSE t.next[x]
        /\ u.prev[x] = IF x = c THEN a ELSE IF x = b THEN c ELSE t.prev[x]
    /\ \A x \in Canvas :
        /\ u.count[x] = IF x = p THEN t.count[x] + 1 ELSE t.count[x]
        /\ u.layout[x] = IF x = p THEN t.layout[x] \cup {c} ELSE t.layout[x]

LEMMA BetweenIsWhole ==
    ASSUME NEW t, Whole(t), NEW p \in Canvas, NEW c \in Canvas, p # c,
           t.parent[c] = Null, NEW a \in CanvasOrNull, NEW b \in CanvasOrNull,
           a = Null => t.first[p] = b, a # Null => t.parent[a] = p /\ t.next[a] = b,
           b = Null => t.last[p] = a, b # Null => t.parent[b] = p /\ t.prev[b] = a,
           NEW u \in LinksType, Between(u, t, p, c, a, b)
    PROVE  Whole(u)
  <1>1. /\ Null \notin Canvas /\ a # c /\ b # c
        /\ \A x \in Canvas : /\ t.parent[x] \in CanvasOrNull /\ t.first[x] \in CanvasOrNull
                           /\ t.last[x] \in CanvasOrNull /\ t.next[x] \in CanvasOrNull
                           /\ t.prev[x] \in CanvasOrNull
    BY CanvasAssumption DEF Whole, LinksType, CanvasOrNull
  <1>2. \A x \in Canvas :
            /\ u.parent[x] = IF x = c THEN p ELSE t.parent[x]
            /\ u.first[x] = IF x = p /\ a = Null THEN c ELSE t.first[x]
            /\ u.last[x] = IF x = p /\ b = Null THEN c ELSE t.last[x]
            /\ u.next[x] = IF x = c THEN b ELSE IF x = a THEN c ELSE t.next[x]
            /\ u.prev[x] = IF x = c THEN a ELSE IF x = b THEN c ELSE t.prev[x]
    BY DEF Between
  <1>14. \A x \in Canvas :
            /\ u.count[x] = IF x = p THEN t.count[x] + 1 ELSE t.count[x]
            /\ u.layout[x] = IF x = p THEN t.layout[x] \cup {c} ELSE t.layout[x]
    BY DEF Between
  <1>4. Alone(t) /\ Nexts(t) /\ Prevs(t) /\ Firsts(t) /\ Lasts(t) /\ Ends(t)
        /\ Both(t) /\ NotItself(t) /\ Told(t)
    BY DEF Whole
  <1>5. Alone(u)
    BY <1>1, <1>2, <1>4 DEF Alone, CanvasOrNull
  <1>6. Nexts(u)
    BY <1>1, <1>2, <1>4 DEF Alone, Nexts, Prevs, CanvasOrNull
  <1>7. Prevs(u)
    BY <1>1, <1>2, <1>4 DEF Alone, Nexts, Prevs, CanvasOrNull
  <1>8. Firsts(u)
    BY <1>1, <1>2, <1>4 DEF Firsts, CanvasOrNull
  <1>9. Lasts(u)
    BY <1>1, <1>2, <1>4 DEF Lasts, CanvasOrNull
  <1>10. Ends(u)
    BY <1>1, <1>2, <1>4 DEF Nexts, Prevs, Ends, Firsts, Lasts, CanvasOrNull
  <1>11. Both(u)
    BY <1>1, <1>2, <1>4 DEF Both, Ends, Firsts, Lasts, CanvasOrNull
  <1>12. NotItself(u)
    BY <1>2, <1>4 DEF NotItself
  <1>13. Told(u)
    <2> SUFFICES ASSUME NEW x \in Canvas
                 PROVE  /\ u.layout[x] = {y \in Canvas : u.parent[y] = x}
                        /\ u.count[x] = Cardinality(u.layout[x])
      BY DEF Told
    <2>1. t.layout[x] = {y \in Canvas : t.parent[y] = x}
      BY <1>4 DEF Told
    <2>2. IsFiniteSet(t.layout[x])
      BY <2>1, FS_Subset, CanvasAssumption
    <2>3. c \notin t.layout[x]
      BY <2>1, <1>1
    <2>4. Cardinality(t.layout[x] \cup {c}) = Cardinality(t.layout[x]) + 1
      BY <2>2, <2>3, FS_AddElement
    <2>5. t.count[x] = Cardinality(t.layout[x])
      BY <1>4 DEF Told
    <2>6. CASE x = p
      BY <1>2, <1>14, <2>1, <2>4, <2>5, <2>6
    <2>7. CASE x # p
      <3>1. \A y \in Canvas : u.parent[y] = x <=> t.parent[y] = x
        BY <1>1, <1>2, <2>7
      <3>2. u.layout[x] = t.layout[x] /\ u.count[x] = t.count[x]
        BY <1>14, <2>7
      <3> QED BY <2>1, <2>5, <3>1, <3>2
    <2> QED BY <2>6, <2>7
  <1> QED BY <1>5, <1>6, <1>7, <1>8, <1>9, <1>10, <1>11, <1>12, <1>13 DEF Whole

LEMMA AddedIsWhole ==
    ASSUME NEW t, Whole(t), NEW p \in Canvas, NEW c \in Canvas, p # c
    PROVE  /\ Whole(AddedInFront(t, p, c))
           /\ Whole(AddedAtBack(t, p, c))
           /\ OnlyMoves(t, AddedInFront(t, p, c), p, c)
           /\ OnlyMoves(t, AddedAtBack(t, p, c), p, c)
           /\ Between(AddedInFront(t, p, c), Removed(t, c), p, c,
                      Removed(t, c).last[p], Null)
           /\ Between(AddedAtBack(t, p, c), Removed(t, c), p, c,
                      Null, Removed(t, c).first[p])
  <1> DEFINE r == Removed(t, c)
  <1>1. /\ Whole(r) /\ r.parent[c] = Null
        /\ \A x \in Canvas \ {c} : r.parent[x] = t.parent[x]
    BY RemovedIsWhole
  <1> HIDE DEF r
  <1>5. r \in LinksType
    BY <1>1 DEF Whole
  <1>2. r.first[p] = Null <=> r.last[p] = Null
    BY <1>1 DEF Whole, Both
  <1>3. /\ Whole(AddedInFront(t, p, c)) /\ OnlyMoves(t, AddedInFront(t, p, c), p, c)
        /\ Between(AddedInFront(t, p, c), r, p, c, r.last[p], Null)
    <2> DEFINE l == r.last[p]
               u == AtFront(r, p, c)
    <2>1. l \in CanvasOrNull /\ l # c
      BY <1>1, CanvasAssumption DEF Whole, LinksType, Lasts, CanvasOrNull
    <2>2. /\ l = Null => r.first[p] = Null
          /\ l # Null => r.parent[l] = p /\ r.next[l] = Null
      BY <1>1, <1>2 DEF Whole, Lasts
    <2>3. /\ u.parent = [r.parent EXCEPT ![c] = p]
          /\ u.first = [r.first EXCEPT ![p] = IF @ = Null THEN c ELSE @]
          /\ u.last = [r.last EXCEPT ![p] = c]
          /\ u.next = [x \in Canvas |-> IF x = c THEN Null
                            ELSE IF x = l THEN c ELSE r.next[x]]
          /\ u.prev = [r.prev EXCEPT ![c] = l]
          /\ u.count = [r.count EXCEPT ![p] = @ + 1]
          /\ u.layout = [r.layout EXCEPT ![p] = @ \cup {c}]
      BY <1>5 DEF Adopted, AtFront, LinksType
    <2>4. Between(u, r, p, c, l, Null) /\ u \in LinksType
      <3>1. /\ r.parent \in [Canvas -> CanvasOrNull] /\ r.first \in [Canvas -> CanvasOrNull]
            /\ r.last \in [Canvas -> CanvasOrNull] /\ r.next \in [Canvas -> CanvasOrNull]
            /\ r.prev \in [Canvas -> CanvasOrNull] /\ r.count \in [Canvas -> Nat]
            /\ r.layout \in [Canvas -> SUBSET Canvas]
        BY <1>5 DEF LinksType
      <3>2. \A x \in Canvas :
                /\ u.parent[x] = IF x = c THEN p ELSE r.parent[x]
                /\ u.first[x] = IF x = p /\ l = Null THEN c ELSE r.first[x]
                /\ u.last[x] = IF x = p /\ Null = Null THEN c ELSE r.last[x]
        BY <1>2, <2>3, <3>1
      <3>3. \A x \in Canvas :
                /\ u.next[x] = IF x = c THEN Null ELSE
                               IF x = l THEN c ELSE r.next[x]
                /\ u.prev[x] = IF x = c THEN l ELSE
                               IF x = Null THEN c ELSE r.prev[x]
        BY <2>3, <3>1, CanvasAssumption
      <3>4. \A x \in Canvas :
                /\ u.count[x] = IF x = p THEN r.count[x] + 1 ELSE r.count[x]
                /\ u.layout[x] = IF x = p THEN r.layout[x] \cup {c} ELSE r.layout[x]
        <4>1. \A x \in Canvas :
                  u.count[x] = IF x = p THEN r.count[x] + 1 ELSE r.count[x]
          BY <2>3, <3>1
        <4>2. \A x \in Canvas : u.layout[x] =
                  IF x = p THEN r.layout[x] \cup {c} ELSE r.layout[x]
          BY <2>3, <3>1
        <4> QED BY <4>1, <4>2
      <3>5. u \in LinksType
        <4>1. /\ u.parent \in [Canvas -> CanvasOrNull] /\ u.first \in [Canvas -> CanvasOrNull]
              /\ u.last \in [Canvas -> CanvasOrNull]
          BY <2>3, <3>1 DEF CanvasOrNull
        <4>2. u.next \in [Canvas -> CanvasOrNull] /\ u.prev \in [Canvas -> CanvasOrNull]
          BY <2>1, <2>3, <3>1 DEF CanvasOrNull
        <4>3. u.count \in [Canvas -> Nat] /\ u.layout \in [Canvas -> SUBSET Canvas]
          BY <2>3, <3>1
        <4>4. u = [parent |-> u.parent, first |-> u.first, last |-> u.last,
                   next |-> u.next, prev |-> u.prev, count |-> u.count,
                   layout |-> u.layout]
          BY <1>5 DEF Adopted, AtFront, LinksType
        <4> HIDE DEF u
        <4> QED BY <4>1, <4>2, <4>3, <4>4 DEF LinksType
      <3> QED BY <3>2, <3>3, <3>4, <3>5 DEF Between
    <2>5. l = r.last[p] /\ Null \in CanvasOrNull
      BY DEF CanvasOrNull
    <2> HIDE DEF l, u
    <2>6. Whole(u)
      BY <1>1, <2>1, <2>2, <2>4, <2>5, BetweenIsWhole
    <2>7. OnlyMoves(t, u, p, c)
      BY <1>1, <2>4 DEF Between, OnlyMoves
    <2>8. Between(u, r, p, c, r.last[p], Null)
      BY <2>4, <2>5
    <2> QED BY <2>6, <2>7, <2>8 DEF u, AddedInFront, r
  <1>4. /\ Whole(AddedAtBack(t, p, c)) /\ OnlyMoves(t, AddedAtBack(t, p, c), p, c)
        /\ Between(AddedAtBack(t, p, c), r, p, c, Null, r.first[p])
    <2> DEFINE f == r.first[p]
               u == AtBack(r, p, c)
    <2>1. f \in CanvasOrNull /\ f # c
      BY <1>1, CanvasAssumption DEF Whole, LinksType, Firsts, CanvasOrNull
    <2>2. /\ f = Null => r.last[p] = Null
          /\ f # Null => r.parent[f] = p /\ r.prev[f] = Null
      BY <1>1, <1>2 DEF Whole, Firsts
    <2>3. /\ u.parent = [r.parent EXCEPT ![c] = p]
          /\ u.first = [r.first EXCEPT ![p] = c]
          /\ u.last = [r.last EXCEPT ![p] = IF @ = Null THEN c ELSE @]
          /\ u.next = [r.next EXCEPT ![c] = f]
          /\ u.prev = [x \in Canvas |-> IF x = c THEN Null
                            ELSE IF x = f THEN c ELSE r.prev[x]]
          /\ u.count = [r.count EXCEPT ![p] = @ + 1]
          /\ u.layout = [r.layout EXCEPT ![p] = @ \cup {c}]
      BY <1>5 DEF Adopted, AtBack, LinksType
    <2>4. Between(u, r, p, c, Null, f) /\ u \in LinksType
      <3>1. /\ r.parent \in [Canvas -> CanvasOrNull] /\ r.first \in [Canvas -> CanvasOrNull]
            /\ r.last \in [Canvas -> CanvasOrNull] /\ r.next \in [Canvas -> CanvasOrNull]
            /\ r.prev \in [Canvas -> CanvasOrNull] /\ r.count \in [Canvas -> Nat]
            /\ r.layout \in [Canvas -> SUBSET Canvas]
        BY <1>5 DEF LinksType
      <3>2. \A x \in Canvas :
                /\ u.parent[x] = IF x = c THEN p ELSE r.parent[x]
                /\ u.first[x] = IF x = p /\ Null = Null THEN c ELSE r.first[x]
                /\ u.last[x] = IF x = p /\ f = Null THEN c ELSE r.last[x]
        BY <1>2, <2>3, <3>1
      <3>3. \A x \in Canvas :
                /\ u.next[x] = IF x = c THEN f ELSE
                               IF x = Null THEN c ELSE r.next[x]
                /\ u.prev[x] = IF x = c THEN Null ELSE
                               IF x = f THEN c ELSE r.prev[x]
        BY <2>3, <3>1, CanvasAssumption
      <3>4. \A x \in Canvas :
                /\ u.count[x] = IF x = p THEN r.count[x] + 1 ELSE r.count[x]
                /\ u.layout[x] = IF x = p THEN r.layout[x] \cup {c} ELSE r.layout[x]
        <4>1. \A x \in Canvas :
                  u.count[x] = IF x = p THEN r.count[x] + 1 ELSE r.count[x]
          BY <2>3, <3>1
        <4>2. \A x \in Canvas : u.layout[x] =
                  IF x = p THEN r.layout[x] \cup {c} ELSE r.layout[x]
          BY <2>3, <3>1
        <4> QED BY <4>1, <4>2
      <3>5. u \in LinksType
        <4>1. /\ u.parent \in [Canvas -> CanvasOrNull] /\ u.first \in [Canvas -> CanvasOrNull]
              /\ u.last \in [Canvas -> CanvasOrNull]
          BY <2>3, <3>1 DEF CanvasOrNull
        <4>2. u.next \in [Canvas -> CanvasOrNull] /\ u.prev \in [Canvas -> CanvasOrNull]
          BY <2>1, <2>3, <3>1 DEF CanvasOrNull
        <4>3. u.count \in [Canvas -> Nat] /\ u.layout \in [Canvas -> SUBSET Canvas]
          BY <2>3, <3>1
        <4>4. u = [parent |-> u.parent, first |-> u.first, last |-> u.last,
                   next |-> u.next, prev |-> u.prev, count |-> u.count,
                   layout |-> u.layout]
          BY <1>5 DEF Adopted, AtBack, LinksType
        <4> HIDE DEF u
        <4> QED BY <4>1, <4>2, <4>3, <4>4 DEF LinksType
      <3> QED BY <3>2, <3>3, <3>4, <3>5 DEF Between
    <2>5. f = r.first[p] /\ Null \in CanvasOrNull
      BY DEF CanvasOrNull
    <2> HIDE DEF f, u
    <2>6. Whole(u)
      BY <1>1, <2>1, <2>2, <2>4, <2>5, BetweenIsWhole
    <2>7. OnlyMoves(t, u, p, c)
      BY <1>1, <2>4 DEF Between, OnlyMoves
    <2>8. Between(u, r, p, c, Null, r.first[p])
      BY <2>4, <2>5
    <2> QED BY <2>6, <2>7, <2>8 DEF u, AddedAtBack, r
  <1> QED BY <1>3, <1>4 DEF r

LEMMA InsertedIsWhole ==
    ASSUME NEW t, Whole(t), NEW p \in Canvas, NEW c \in Canvas, p # c,
           NEW ref \in CanvasOrNull
    PROVE  /\ Whole(Inserted(t, p, c, ref))
           /\ OnlyMoves(t, Inserted(t, p, c, ref), p, c)
           /\ ref # Null /\ t.parent[ref] = p /\ ref # c =>
                Between(Inserted(t, p, c, ref), Removed(t, c), p, c,
                        Removed(t, c).prev[ref], ref)
  <1>1. CASE ref = Null
    BY <1>1, AddedIsWhole DEF Inserted
  <1>2. CASE ref # Null /\ (t.parent[ref] # p \/ ref = c)
    BY <1>2 DEF Inserted, OnlyMoves
  <1>3. CASE ref # Null /\ t.parent[ref] = p /\ ref # c
    <2> DEFINE r == Removed(t, c)
               q == r.prev[ref]
               u == Before(r, p, c, ref)
    <2>1. ref \in Canvas
      BY <1>3 DEF CanvasOrNull
    <2>2. /\ Whole(r) /\ r.parent[c] = Null /\ r.parent[ref] = p
          /\ \A x \in Canvas \ {c} : r.parent[x] = t.parent[x]
      BY <1>3, <2>1, RemovedIsWhole
    <2> HIDE DEF r
    <2>3. /\ r \in LinksType
          /\ r.parent \in [Canvas -> CanvasOrNull] /\ r.first \in [Canvas -> CanvasOrNull]
          /\ r.last \in [Canvas -> CanvasOrNull] /\ r.next \in [Canvas -> CanvasOrNull]
          /\ r.prev \in [Canvas -> CanvasOrNull] /\ r.count \in [Canvas -> Nat]
          /\ r.layout \in [Canvas -> SUBSET Canvas]
      BY <2>2 DEF Whole, LinksType
    <2>4. q \in CanvasOrNull
      BY <2>1, <2>3
    <2>5. /\ q = Null => r.first[p] = ref
          /\ q # Null => r.parent[q] = p /\ r.next[q] = ref
      BY <2>1, <2>2, CanvasAssumption DEF Whole, Prevs, Ends
    <2>6. u = [parent |-> [r.parent EXCEPT ![c] = p],
               first |-> [r.first EXCEPT ![p] = IF q = Null THEN c ELSE @],
               last |-> r.last,
               next |-> [x \in Canvas |-> IF x = c THEN ref
                            ELSE IF x = q THEN c ELSE r.next[x]],
               prev |-> [r.prev EXCEPT ![c] = q, ![ref] = c],
               count |-> [r.count EXCEPT ![p] = @ + 1],
               layout |-> [r.layout EXCEPT ![p] = @ \cup {c}]]
      BY DEF Before, Adopted
    <2> HIDE DEF u
    <2>7. u \in LinksType
      BY <2>1, <2>3, <2>4, <2>6 DEF LinksType, CanvasOrNull
    <2>8. \A x \in Canvas :
            /\ u.parent[x] = IF x = c THEN p ELSE r.parent[x]
            /\ u.first[x] = IF x = p /\ q = Null THEN c ELSE r.first[x]
            /\ u.last[x] = r.last[x]
            /\ u.next[x] = IF x = c THEN ref ELSE IF x = q THEN c ELSE r.next[x]
            /\ u.prev[x] = IF x = c THEN q ELSE IF x = ref THEN c ELSE r.prev[x]
      BY <1>3, <2>1, <2>3, <2>6
    <2>9. \A x \in Canvas :
            /\ u.count[x] = IF x = p THEN r.count[x] + 1 ELSE r.count[x]
            /\ u.layout[x] = IF x = p THEN r.layout[x] \cup {c} ELSE r.layout[x]
      BY <2>3, <2>6
    <2>10. Between(u, r, p, c, q, ref)
      BY <1>3, <2>8, <2>9 DEF Between
    <2>11. q = r.prev[ref] /\ ref # Null
      BY <1>3
    <2> HIDE DEF q
    <2>12. Whole(u)
      BY <2>2, <2>4, <2>5, <2>7, <2>10, <2>11, BetweenIsWhole
    <2>13. OnlyMoves(t, u, p, c)
      BY <2>2, <2>8 DEF OnlyMoves
    <2>14. Between(u, r, p, c, r.prev[ref], ref)
      BY <2>10, <2>11
    <2> QED BY <1>3, <2>12, <2>13, <2>14 DEF Inserted, u, r
  <1> QED BY <1>1, <1>2, <1>3

LEMMA OrphanedIsWhole ==
    ASSUME NEW t, Whole(t), NEW c \in Canvas, t.parent[c] = Null
    PROVE  /\ \A x \in Canvas : Orphaned(t, c).parent[x] =
                    IF t.parent[x] = c THEN Null ELSE t.parent[x]
           /\ Whole(Orphaned(t, c))
  <1> DEFINE u == Orphaned(t, c)
  <1>1. /\ Null \notin Canvas /\ c # Null
        /\ t.parent \in [Canvas -> CanvasOrNull] /\ t.first \in [Canvas -> CanvasOrNull]
        /\ t.last \in [Canvas -> CanvasOrNull] /\ t.next \in [Canvas -> CanvasOrNull]
        /\ t.prev \in [Canvas -> CanvasOrNull] /\ t.count \in [Canvas -> Nat]
        /\ t.layout \in [Canvas -> SUBSET Canvas]
    BY CanvasAssumption DEF Whole, LinksType
  <1>2. /\ u.parent = [x \in Canvas |-> IF t.parent[x] = c THEN Null ELSE t.parent[x]]
        /\ u.first = [t.first EXCEPT ![c] = Null]
        /\ u.last = [t.last EXCEPT ![c] = Null]
        /\ u.next = [x \in Canvas |-> IF t.parent[x] = c THEN Null ELSE t.next[x]]
        /\ u.prev = [x \in Canvas |-> IF t.parent[x] = c THEN Null ELSE t.prev[x]]
        /\ u.count = [t.count EXCEPT ![c] = 0]
        /\ u.layout = [t.layout EXCEPT ![c] = {}]
    BY DEF Orphaned
  <1>3. \A x \in Canvas :
            /\ u.parent[x] = IF t.parent[x] = c THEN Null ELSE t.parent[x]
            /\ u.first[x] = IF x = c THEN Null ELSE t.first[x]
            /\ u.last[x] = IF x = c THEN Null ELSE t.last[x]
            /\ u.next[x] = IF t.parent[x] = c THEN Null ELSE t.next[x]
            /\ u.prev[x] = IF t.parent[x] = c THEN Null ELSE t.prev[x]
    BY <1>1, <1>2
  <1>4. u \in LinksType
    BY <1>1 DEF Orphaned, LinksType, CanvasOrNull
  <1>5. Alone(t) /\ Nexts(t) /\ Prevs(t) /\ Firsts(t) /\ Lasts(t) /\ Ends(t)
        /\ Both(t) /\ NotItself(t) /\ Told(t)
    BY DEF Whole
  <1>6. \A x \in Canvas : /\ t.next[x] \in CanvasOrNull /\ t.prev[x] \in CanvasOrNull
                         /\ t.first[x] \in CanvasOrNull /\ t.last[x] \in CanvasOrNull
                         /\ t.parent[x] \in CanvasOrNull
    BY <1>1
  <1>7. Told(u)
    <2> SUFFICES ASSUME NEW x \in Canvas
                 PROVE  /\ u.layout[x] = {y \in Canvas : u.parent[y] = x}
                        /\ u.count[x] = Cardinality(u.layout[x])
      BY DEF Told
    <2>1. CASE x = c
      <3>1. u.layout[x] = {} /\ u.count[x] = 0
        BY <1>1, <1>2, <2>1
      <3>2. \A y \in Canvas : u.parent[y] # c
        BY <1>1, <1>3
      <3> QED BY <2>1, <3>1, <3>2, FS_EmptySet
    <2>2. CASE x # c
      <3>1. u.layout[x] = t.layout[x] /\ u.count[x] = t.count[x]
        BY <1>1, <1>2, <2>2
      <3>2. \A y \in Canvas : u.parent[y] = x <=> t.parent[y] = x
        BY <1>1, <1>3, <2>2
      <3> QED BY <1>5, <3>1, <3>2 DEF Told
    <2> QED BY <2>1, <2>2
  <1> HIDE DEF u
  <1>8. Alone(u) /\ Nexts(u) /\ Prevs(u)
    BY <1>1, <1>3, <1>5, <1>6 DEF Alone, Nexts, Prevs, CanvasOrNull
  <1>9. Firsts(u) /\ Lasts(u)
    BY <1>1, <1>3, <1>5, <1>6 DEF Firsts, Lasts, CanvasOrNull
  <1>10. Ends(u) /\ Both(u) /\ NotItself(u)
    BY <1>1, <1>3, <1>5, <1>6
       DEF Nexts, Prevs, Ends, Both, NotItself, CanvasOrNull
  <1> QED BY <1>3, <1>4, <1>5, <1>7, <1>8, <1>9, <1>10 DEF Whole, u
-----------------------------------------------------------------------------
(* The inductive invariant. *)

ParentsLive ==
    \A x \in Canvas : links.parent[x] # Null => x \in alive /\ links.parent[x] \in alive

IInv == TypeOK /\ Whole(links) /\ ParentsLive /\ NamesAreLive

LEMMA InitIsWhole == Init => IInv
  <1> SUFFICES ASSUME Init PROVE IInv
    OBVIOUS
  <1>1. TypeOK
    BY CanvasAssumption DEF Init, NoLinks, TypeOK, CanvasOrNull
  <1>2. Whole(links)
    <2>1. links \in LinksType
      BY DEF Init, NoLinks, LinksType, CanvasOrNull
    <2>2. Alone(links) /\ Nexts(links) /\ Prevs(links) /\ Firsts(links)
          /\ Lasts(links) /\ Ends(links) /\ Both(links) /\ NotItself(links)
      BY CanvasAssumption
         DEF Init, NoLinks, Alone, Nexts, Prevs, Firsts, Lasts, Ends, Both, NotItself
    <2>3. Told(links)
      BY CanvasAssumption, FS_EmptySet DEF Init, NoLinks, Told
    <2> QED BY <2>1, <2>2, <2>3 DEF Whole
  <1>3. ParentsLive /\ NamesAreLive
    BY DEF Init, NoLinks, ParentsLive, NamesAreLive
  <1> QED BY <1>1, <1>2, <1>3 DEF IInv

\* An insertion of a canvas that scripts have among the children of another.
LEMMA InsertionKeeps ==
    ASSUME IInv, NEW p \in alive, NEW c \in alive, NEW u,
           Whole(u), OnlyMoves(links, u, p, c),
           links' = u, UNCHANGED <<alive, id, named, clicked, held>>
    PROVE  IInv'
  <1>1. TypeOK'
    BY DEF IInv, TypeOK, Whole, LinksType
  <1>2. Whole(links)'
    BY DEF Whole, Alone, Nexts, Prevs, Firsts, Lasts, Ends, Both, NotItself, Told
  <1>3. ParentsLive'
    BY DEF IInv, ParentsLive, OnlyMoves
  <1>4. NamesAreLive'
    BY DEF IInv, NamesAreLive
  <1> QED BY <1>1, <1>2, <1>3, <1>4 DEF IInv

LEMMA NextKeeps == IInv /\ [Next]_treeVars => IInv'
  <1> SUFFICES ASSUME IInv, [Next]_treeVars PROVE IInv'
    OBVIOUS
  <1> USE DEF IInv
  <1>1. /\ held \subseteq alive /\ alive \subseteq Canvas /\ links \in LinksType
        /\ clicked \in CanvasOrNull
        /\ \A x \in Canvas : links.parent[x] \in CanvasOrNull /\ links.next[x] \in CanvasOrNull
                           /\ links.parent[x] # x
    BY DEF TypeOK, LinksType, Whole, NotItself
  <1>2. ASSUME NEW c \in Canvas, New(c) PROVE IInv'
    BY <1>2 DEF New, TypeOK, ParentsLive, NamesAreLive
  <1>3. ASSUME NEW c \in Canvas, Find(c) PROVE IInv'
    <2>1. c \in alive
      <3>1. CASE \E n \in Id : named[n] = c
        BY <3>1, CanvasAssumption DEF NamesAreLive
      <3>2. CASE \E d \in held : c \in Neighbours(d)
        <4>1. PICK d \in held : c \in Neighbours(d)
          BY <3>2
        <4>2. \/ links.parent[c] = d
              \/ links.parent[d] = c
              \/ links.parent[c] = links.parent[d] /\ links.parent[d] # Null
          <5>1. d \in Canvas /\ c # Null
            BY <1>1, CanvasAssumption
          <5>2. \/ c = links.parent[d]
                \/ c = links.first[d] \/ c = links.last[d]
                \/ c = links.next[d] \/ c = links.prev[d]
            BY <4>1 DEF Neighbours
          <5>3. Alone(links) /\ Nexts(links) /\ Prevs(links) /\ Firsts(links)
                /\ Lasts(links)
            BY DEF Whole
          <5>4. c = links.first[d] \/ c = links.last[d] => links.parent[c] = d
            BY <5>1, <5>3 DEF Firsts, Lasts
          <5>5. c = links.next[d] \/ c = links.prev[d] =>
                    links.parent[c] = links.parent[d] /\ links.parent[d] # Null
            BY <5>1, <5>3 DEF Alone, Nexts, Prevs
          <5> QED BY <5>2, <5>4, <5>5
        <4> QED BY <1>1, <4>1, <4>2, CanvasAssumption DEF ParentsLive
      <3> QED BY <1>3, <3>1, <3>2 DEF Find
    <2> QED BY <1>3, <2>1 DEF Find, TypeOK, ParentsLive, NamesAreLive
  <1>4. ASSUME NEW c \in held, Drop(c) PROVE IInv'
    BY <1>4 DEF Drop, TypeOK, ParentsLive, NamesAreLive
  <1>5. ASSUME NEW p \in held, NEW c \in held, Add(p, c) PROVE IInv'
    BY <1>1, <1>5, AddedIsWhole, InsertionKeeps DEF Add
  <1>6. ASSUME NEW c \in held, BringToFront(c) \/ SendToBack(c) PROVE IInv'
    <2>1. links.parent[c] \in alive /\ links.parent[c] # c
      BY <1>1, <1>6 DEF BringToFront, SendToBack, ParentsLive
    <2> QED BY <1>1, <1>6, <2>1, AddedIsWhole, InsertionKeeps
            DEF BringToFront, SendToBack
  <1>7. ASSUME NEW p \in held, NEW c \in held, NEW ref \in held,
               InsertBefore(p, c, ref) \/ InsertAfter(p, c, ref)
        PROVE  IInv'
    <2>1. ref \in CanvasOrNull /\ links.next[ref] \in CanvasOrNull
      BY <1>1 DEF CanvasOrNull
    <2> QED BY <1>1, <1>7, <2>1, InsertedIsWhole, InsertionKeeps
            DEF InsertBefore, InsertAfter
  <1>8. ASSUME NEW c \in held, Remove(c) PROVE IInv'
    <2>1. /\ Whole(Removed(links, c))
          /\ \A x \in Canvas : Removed(links, c).parent[x] =
                    IF x = c THEN Null ELSE links.parent[x]
      BY <1>1, RemovedIsWhole
    <2>2. TypeOK'
      BY <1>1, <1>8, <2>1 DEF Remove, Unclicked, TypeOK, Whole, LinksType, CanvasOrNull
    <2>3. Whole(links)'
      BY <1>8, <2>1 DEF Remove, Whole, Alone, Nexts, Prevs, Firsts, Lasts, Ends,
                        Both, NotItself, Told
    <2>4. ParentsLive' /\ NamesAreLive'
      BY <1>8, <2>1 DEF Remove, ParentsLive, NamesAreLive
    <2> QED BY <2>2, <2>3, <2>4
  <1>9. ASSUME NEW c \in held, NEW n \in Id, SetId(c, n) PROVE IInv'
    <2>1. TypeOK'
      BY <1>1, <1>9 DEF SetId, TypeOK, CanvasOrNull
    <2>2. ParentsLive' /\ Whole(links)'
      BY <1>9 DEF SetId, ParentsLive
    <2>3. NamesAreLive'
      BY <1>1, <1>9, CanvasAssumption DEF SetId, NamesAreLive, TypeOK
    <2> QED BY <2>1, <2>2, <2>3
  <1>10. ASSUME NEW c \in Canvas, Collect(c) PROVE IInv'
    <2> DEFINE r == Removed(links, c)
    <2>1. /\ Whole(r) /\ r.parent[c] = Null
          /\ \A x \in Canvas : r.parent[x] = IF x = c THEN Null ELSE links.parent[x]
      BY <1>1, RemovedIsWhole
    <2> HIDE DEF r
    <2>2. /\ Whole(Orphaned(r, c))
          /\ \A x \in Canvas : Orphaned(r, c).parent[x] =
                    IF r.parent[x] = c THEN Null ELSE r.parent[x]
      BY <2>1, OrphanedIsWhole
    <2>3. links' = Orphaned(r, c) /\ alive' = alive \ {c} /\ held' = held
      BY <1>10 DEF Collect, r
    <2>4. c \notin held
      BY <1>10, <1>1 DEF Collect, Traced
    <2>5. TypeOK'
      BY <1>10, <1>1, <2>2, <2>3, <2>4
         DEF Collect, Unclicked, TypeOK, Whole, LinksType, CanvasOrNull
    <2>6. Whole(links)'
      BY <2>2, <2>3 DEF Whole, Alone, Nexts, Prevs, Firsts, Lasts, Ends, Both,
                        NotItself, Told
    <2>7. ParentsLive'
      BY <2>1, <2>2, <2>3 DEF ParentsLive
    <2>8. NamesAreLive'
      BY <1>10, <2>3 DEF Collect, NamesAreLive, TypeOK
    <2> QED BY <2>5, <2>6, <2>7, <2>8
  <1>11. CASE UNCHANGED treeVars
    BY <1>11 DEF treeVars, TypeOK, ParentsLive, NamesAreLive
  <1> QED BY <1>2, <1>3, <1>4, <1>5, <1>6, <1>7, <1>8, <1>9, <1>10, <1>11
          DEF Next, Moves, Naming

LEMMA Inductive == Spec => []IInv
  BY InitIsWhole, NextKeeps, PTL DEF Spec
-----------------------------------------------------------------------------
\* What scripts can do to canvases leaves every field of the handlers of its
\* type, m_nChildren a natural number, and references to what exists.
THEOREM TypeCorrect == Spec => []TypeOK
  <1>1. IInv => TypeOK
    BY DEF IInv
  <1> QED BY <1>1, Inductive, PTL

\* The doubly linked lists of children agree in both directions and with the
\* ends and the parents, after any sequence of operations, for any canvases.
THEOREM ListsAgree == Spec => []LinksAgree
  <1>1. IInv => LinksAgree
    BY DEF IInv, Whole, Alone, Nexts, Prevs, Firsts, Lasts, Ends, LinksAgree
  <1> QED BY <1>1, Inductive, PTL

\* No handler that was deleted is in the tree, and the layout and m_nChildren
\* know exactly the children there are.
THEOREM DeletedIsOut == Spec => []TreeIsAlive
  <1>1. IInv => TreeIsAlive
    BY DEF IInv, Whole, Told, ParentsLive, TreeIsAlive
  <1> QED BY <1>1, Inductive, PTL

\* addChild(), insertBefore(), insertAfter(), removeFromParent() and
\* ~CanvasHandler() keep the tree in one piece.
THEOREM TheTreeIsWhole == Spec => []TreeIsWhole
  BY ListsAgree, DeletedIsOut, PTL DEF TreeIsWhole

\* The list of ids has no handler that was deleted or has another id.
THEOREM IdsAreLive == Spec => []NamesAreLive
  <1>1. IInv => NamesAreLive
    BY DEF IInv
  <1> QED BY <1>1, Inductive, PTL
-----------------------------------------------------------------------------
(* The order of the children. *)

\* The links t hold the children of each canvas in the order k.
Ordered(t, k) ==
    /\ k \in [Canvas -> Seq(Canvas)]
    /\ \A p \in Canvas :
        /\ NoDuplicates(k[p])
        /\ \A x \in Canvas : x \in Elements(k[p]) <=> t.parent[x] = p
        /\ Linked(k[p], t.next, t.first[p], Null)

\* k without c.
Taken(k, c) ==
    [p \in Canvas |-> IF c \in Elements(k[p]) THEN Cut(k[p], Place(k[p], c))
                      ELSE k[p]]

\* The children are in no other order than the one that the links lead through.
LEMMA OrderIsListed ==
    ASSUME NEW t, NEW k, Ordered(t, k)
    PROVE  k = Listed(t)
<1>1. /\ Null \notin Canvas /\ k \in [Canvas -> Seq(Canvas)]
      /\ Cardinality(Canvas) \in Nat
  BY CanvasAssumption, FS_CardinalityType DEF Ordered
<1>2. ASSUME NEW p \in Canvas
      PROVE  k[p] = IF t.first[p] = Null THEN <<>>
                    ELSE Walk(t.next, t.first[p], Null, Cardinality(Canvas))
  <2>1. k[p] \in Seq(Canvas) /\ Linked(k[p], t.next, t.first[p], Null)
    BY <1>1 DEF Ordered
  <2>2. Len(k[p]) <= Cardinality(Canvas)
    BY <2>1, NoLongerThan, CanvasAssumption DEF Ordered
  <2>3. Walk(t.next, t.first[p], Null, Cardinality(Canvas)) = k[p]
    BY <1>1, <2>1, <2>2, WalkFinds
  <2>4. t.first[p] = Null => k[p] = <<>>
    <3>1. k[p] # <<>> => k[p][1] \in Canvas
      BY <2>1
    <3> QED BY <1>1, <2>1, <3>1 DEF Linked
  <2> QED BY <2>3, <2>4
<1> QED BY <1>1, <1>2 DEF Listed

\* The links back, and the ends that parents know, follow the same order.
LEMMA OrderBack ==
    ASSUME NEW t, Whole(t), NEW k, Ordered(t, k), NEW p \in Canvas
    PROVE  /\ \A i \in 1..Len(k[p]) :
                /\ k[p][i] \in Canvas /\ t.parent[k[p][i]] = p
                /\ t.next[k[p][i]] = IF i = Len(k[p]) THEN Null ELSE k[p][i + 1]
                /\ t.prev[k[p][i]] = IF i = 1 THEN Null ELSE k[p][i - 1]
           /\ t.first[p] = IF k[p] = <<>> THEN Null ELSE k[p][1]
           /\ t.last[p] = IF k[p] = <<>> THEN Null ELSE k[p][Len(k[p])]
<1> DEFINE s == k[p]
<1>1. /\ s \in Seq(Canvas) /\ Len(s) \in Nat /\ Null \notin Canvas
      /\ \A x \in Canvas : x \in Elements(s) <=> t.parent[x] = p
      /\ t.first[p] = IF s = <<>> THEN Null ELSE s[1]
      /\ \A i \in 1..Len(s) : t.next[s[i]] = IF i = Len(s) THEN Null ELSE s[i + 1]
  <2>1. /\ s \in Seq(Canvas) /\ Linked(s, t.next, t.first[p], Null)
        /\ \A x \in Canvas : x \in Elements(s) <=> t.parent[x] = p
    BY DEF Ordered
  <2> HIDE DEF s
  <2> QED BY <2>1, CanvasAssumption DEF Linked
<1> HIDE DEF s
<1>2. \A i \in 1..Len(s) : s[i] \in Canvas /\ t.parent[s[i]] = p
  BY <1>1 DEF Elements
<1>3. ASSUME NEW i \in 1..Len(s)
      PROVE  t.prev[s[i]] = IF i = 1 THEN Null ELSE s[i - 1]
  <2>1. CASE i = 1
    <3>1. s # <<>> /\ t.first[p] = s[1] /\ s[1] # Null
      BY <2>1, <1>1, <1>2
    <3> QED BY <2>1, <3>1 DEF Whole, Firsts
  <2>2. CASE i # 1
    <3>1. i - 1 \in 1..Len(s) /\ i - 1 # Len(s) /\ i - 1 + 1 = i
      BY <2>2, <1>1
    <3>2. s[i - 1] \in Canvas /\ t.next[s[i - 1]] = s[i] /\ s[i] # Null
      BY <3>1, <1>1, <1>2
    <3> QED BY <2>2, <3>2 DEF Whole, Nexts
  <2> QED BY <2>1, <2>2
<1>4. t.last[p] = IF s = <<>> THEN Null ELSE s[Len(s)]
  <2>1. CASE s = <<>>
    BY <2>1, <1>1 DEF Whole, Both
  <2>2. CASE s # <<>>
    <3>1. Len(s) \in 1..Len(s)
      BY <2>2, <1>1
    <3>2. /\ s[Len(s)] \in Canvas /\ t.parent[s[Len(s)]] = p
          /\ t.next[s[Len(s)]] = Null
      BY <3>1, <1>1, <1>2
    <3>3. p # Null
      BY <1>1
    <3> QED BY <2>2, <3>2, <3>3 DEF Whole, Ends
  <2> QED BY <2>1, <2>2
<1> QED BY <1>1, <1>2, <1>3, <1>4 DEF s

LEMMA RemovedInOrder ==
    ASSUME NEW t, Whole(t), NEW k, Ordered(t, k), NEW c \in Canvas
    PROVE  Ordered(Removed(t, c), Taken(k, c))
<1> DEFINE u == Removed(t, c)
           j == Taken(k, c)
           q == t.parent[c]
<1>1. /\ Null \notin Canvas /\ k \in [Canvas -> Seq(Canvas)]
      /\ \A p, x \in Canvas : x \in Elements(k[p]) <=> t.parent[x] = p
      /\ \A x \in Canvas : u.parent[x] = IF x = c THEN Null ELSE t.parent[x]
  BY CanvasAssumption, RemovedIsWhole DEF Ordered
<1>2. CASE q = Null
  <2>1. u = t
    BY <1>2 DEF Removed
  <2>2. \A p \in Canvas : c \notin Elements(k[p])
    BY <1>1, <1>2
  <2>3. j = k
    BY <1>1, <2>2 DEF Taken
  <2> QED BY <2>1, <2>3
<1>3. CASE q # Null
  <2>1. /\ q \in Canvas /\ q # c
        /\ t.first \in [Canvas -> CanvasOrNull] /\ t.next \in [Canvas -> CanvasOrNull]
        /\ t.prev \in [Canvas -> CanvasOrNull]
    BY <1>3 DEF Whole, LinksType, CanvasOrNull, NotItself
  <2>2. /\ \A x \in Canvas : u.first[x] =
                IF x = q /\ t.first[x] = c THEN t.next[c] ELSE t.first[x]
        /\ \A x \in Canvas : u.next[x] = IF x = c THEN Null
                ELSE IF x = t.prev[c] THEN t.next[c] ELSE t.next[x]
    <3>1. /\ u.first = [t.first EXCEPT ![q] = IF @ = c THEN t.next[c] ELSE @]
          /\ u.next = [x \in Canvas |-> IF x = c THEN Null
                            ELSE IF x = t.prev[c] THEN t.next[c] ELSE t.next[x]]
      BY <1>3 DEF Removed
    <3> HIDE DEF u
    <3> QED BY <2>1, <3>1
  <2> HIDE DEF u
  <2>3. c \in Elements(k[q]) /\ \A p \in Canvas : p # q => c \notin Elements(k[p])
    BY <1>1, <2>1
  <2> DEFINE s == k[q]
             m == Place(s, c)
  <2>4. s \in Seq(Canvas) /\ m \in 1..Len(s) /\ s[m] = c /\ NoDuplicates(s)
    BY <1>1, <2>1, <2>3, PlaceOf DEF Ordered
  <2>5. /\ \A p \in Canvas : p # q => j[p] = k[p]
        /\ j[q] = Cut(s, m)
        /\ j \in [Canvas -> Seq(Canvas)]
    <3>1. Cut(s, m) \in Seq(Canvas)
      BY <2>4, CutKeeps
    <3> HIDE DEF m
    <3>2. j = [p \in Canvas |-> IF p = q THEN Cut(s, m) ELSE k[p]]
      BY <2>1, <2>3 DEF Taken, m
    <3> HIDE DEF j
    <3> QED BY <1>1, <2>1, <3>1, <3>2
  <2> HIDE DEF j
  <2>6. ASSUME NEW p \in Canvas, p # q
        PROVE  /\ NoDuplicates(j[p])
               /\ \A x \in Canvas : x \in Elements(j[p]) <=> u.parent[x] = p
               /\ Linked(j[p], u.next, u.first[p], Null)
    <3>1. j[p] = k[p] /\ NoDuplicates(k[p]) /\ u.first[p] = t.first[p]
      BY <2>5, <2>6, <2>2 DEF Ordered
    <3>2. \A x \in Canvas : u.parent[x] = p <=> t.parent[x] = p
      BY <1>1, <2>6
    <3>3. ASSUME NEW i \in 1..Len(k[p]) PROVE u.next[k[p][i]] = t.next[k[p][i]]
      <4>1. k[p][i] \in Canvas /\ t.parent[k[p][i]] = p
        BY OrderBack
      <4>2. t.prev[c] # Null => t.parent[t.prev[c]] = q
        BY DEF Whole, Prevs
      <4>3. k[p][i] # c /\ k[p][i] # t.prev[c]
        BY <4>1, <4>2, <1>1, <2>6
      <4> QED BY <4>1, <4>3, <2>2
    <3>4. Linked(k[p], u.next, u.first[p], Null)
      BY <3>1, <3>3 DEF Ordered, Linked
    <3> QED BY <1>1, <3>1, <3>2, <3>4
  <2>7. /\ NoDuplicates(j[q])
        /\ \A x \in Canvas : x \in Elements(j[q]) <=> u.parent[x] = q
        /\ Linked(j[q], u.next, u.first[q], Null)
    <3>1. NoDuplicates(j[q]) /\ Elements(j[q]) = Elements(s) \ {c}
      <4> HIDE DEF s, m
      <4>1. NoDuplicates(Cut(s, m)) /\ Elements(Cut(s, m)) = Elements(s) \ {s[m]}
        BY <2>4, CutKeeps
      <4> QED BY <2>4, <2>5, <4>1
    <3>2. \A x \in Canvas : x \in Elements(j[q]) <=> u.parent[x] = q
      <4>1. \A x \in Canvas : x \in Elements(s) <=> t.parent[x] = q
        BY <1>1, <2>1
      <4> HIDE DEF s, q
      <4>2. \A x \in Canvas : u.parent[x] = q <=> x # c /\ t.parent[x] = q
        BY <1>1, <2>1
      <4> QED BY <3>1, <4>1, <4>2
    <3>3. /\ \A i \in 1..Len(s) : t.next[s[i]] = IF i = Len(s) THEN Null ELSE s[i + 1]
          /\ t.prev[c] = IF m = 1 THEN Null ELSE s[m - 1]
          /\ t.first[q] = s[1]
          /\ \A i \in 1..Len(s) : s[i] \in Canvas
      <4>1. /\ \A i \in 1..Len(s) :
                  /\ s[i] \in Canvas
                  /\ t.next[s[i]] = IF i = Len(s) THEN Null ELSE s[i + 1]
                  /\ t.prev[s[i]] = IF i = 1 THEN Null ELSE s[i - 1]
            /\ t.first[q] = IF s = <<>> THEN Null ELSE s[1]
        BY <2>1, OrderBack
      <4> HIDE DEF s, m
      <4> QED BY <2>4, <4>1
    <3> HIDE DEF s, m, q
    <3>4. Linked(s, t.next, t.first[q], Null)
      BY <2>1 DEF Ordered, s
    <3>5. /\ \A i \in 1..Len(s) : i # m - 1 /\ i # m =>
                u.next[s[i]] = t.next[s[i]]
          /\ m # 1 => u.next[s[m - 1]] = t.next[s[m]]
      <4>1. ASSUME NEW i \in 1..Len(s), i # m
            PROVE  u.next[s[i]] = IF i = m - 1 THEN t.next[s[m]] ELSE t.next[s[i]]
        <5>1. s[i] \in Canvas /\ s[i] # c /\ s[i] # Null
          <6>1. s[i] # s[m]
            BY <2>4, <4>1 DEF NoDuplicates
          <6>2. s[i] \in Canvas
            BY <3>3
          <6> QED BY <1>1, <2>4, <6>1, <6>2, CanvasAssumption
        <5>2. s[i] = t.prev[c] <=> i = m - 1
          <6>1. m # 1 => m - 1 \in 1..Len(s)
            BY <2>4
          <6> QED BY <2>4, <3>3, <5>1, <6>1 DEF NoDuplicates
        <5> QED BY <2>2, <2>4, <5>1, <5>2
      <4>2. m # 1 => m - 1 \in 1..Len(s) /\ m - 1 # m
        BY <2>4
      <4> QED BY <4>1, <4>2
    <3>6. u.first[q] = IF m = 1 THEN t.next[s[m]] ELSE t.first[q]
      <4>1. s[1] = c <=> m = 1
        <5>1. 1 \in 1..Len(s)
          BY <2>4
        <5> QED BY <5>1, <2>4 DEF NoDuplicates
      <4> QED BY <2>1, <2>2, <2>4, <3>3, <4>1
    <3>7. Linked(Cut(s, m), u.next, u.first[q], Null)
      BY <2>4, <3>4, <3>5, <3>6, LinkedCut
    <3> QED BY <2>5, <3>1, <3>2, <3>7
  <2> QED BY <2>5, <2>6, <2>7 DEF Ordered, u, j
<1> QED BY <1>2, <1>3

\* c is put as the i-th child of p, between those that are there.
LEMMA BetweenInOrder ==
    ASSUME NEW t, Whole(t), NEW k, Ordered(t, k), NEW p \in Canvas, NEW c \in Canvas,
           t.parent[c] = Null, NEW i \in 1..(Len(k[p]) + 1), NEW u,
           Between(u, t, p, c, IF i = 1 THEN Null ELSE k[p][i - 1],
                               IF i = Len(k[p]) + 1 THEN Null ELSE k[p][i])
    PROVE  Ordered(u, [k EXCEPT ![p] = Put(@, i, c)])
<1> DEFINE a == IF i = 1 THEN Null ELSE k[p][i - 1]
           b == IF i = Len(k[p]) + 1 THEN Null ELSE k[p][i]
           s == k[p]
           j == [k EXCEPT ![p] = Put(@, i, c)]
<1>1. /\ Null \notin Canvas /\ k \in [Canvas -> Seq(Canvas)] /\ s \in Seq(Canvas)
      /\ \A x, y \in Canvas : x \in Elements(k[y]) <=> t.parent[x] = y
      /\ NoDuplicates(s) /\ c \notin Elements(s) /\ Len(s) \in Nat
  BY CanvasAssumption DEF Ordered
<1>2. \A x \in Canvas :
        /\ u.parent[x] = IF x = c THEN p ELSE t.parent[x]
        /\ u.first[x] = IF x = p /\ a = Null THEN c ELSE t.first[x]
        /\ u.next[x] = IF x = c THEN b ELSE IF x = a THEN c ELSE t.next[x]
  BY DEF Between
<1>3. /\ \A n \in 1..Len(s) : s[n] \in Canvas /\ t.parent[s[n]] = p
      /\ \A y \in Canvas : \A n \in 1..Len(k[y]) :
            k[y][n] \in Canvas /\ t.parent[k[y][n]] = y
  BY OrderBack
<1>4. (a = Null <=> i = 1) /\ (a # Null => a \in Canvas /\ t.parent[a] = p)
  <2>1. i # 1 => i - 1 \in 1..Len(s)
    BY <1>1
  <2> QED BY <1>1, <1>3, <2>1
<1>5. /\ \A y \in Canvas : y # p => j[y] = k[y]
      /\ j[p] = Put(s, i, c) /\ j \in [Canvas -> Seq(Canvas)]
  <2>1. Put(s, i, c) \in Seq(Canvas)
    BY <1>1, PutKeeps
  <2> QED BY <1>1, <2>1
<1> HIDE DEF j
<1>6. ASSUME NEW y \in Canvas, y # p
      PROVE  /\ NoDuplicates(j[y])
             /\ \A x \in Canvas : x \in Elements(j[y]) <=> u.parent[x] = y
             /\ Linked(j[y], u.next, u.first[y], Null)
  <2>1. j[y] = k[y] /\ NoDuplicates(k[y]) /\ u.first[y] = t.first[y]
    BY <1>2, <1>5, <1>6 DEF Ordered
  <2>2. \A x \in Canvas : u.parent[x] = y <=> t.parent[x] = y
    BY <1>1, <1>2, <1>6
  <2> HIDE DEF a, b
  <2>3. ASSUME NEW n \in 1..Len(k[y]) PROVE u.next[k[y][n]] = t.next[k[y][n]]
    <3>1. k[y][n] \in Canvas /\ t.parent[k[y][n]] = y /\ y # Null
      BY <1>1, <1>3
    <3>2. k[y][n] # c /\ k[y][n] # a
      BY <3>1, <1>1, <1>4, <1>6
    <3> QED BY <3>1, <3>2, <1>2
  <2>4. Linked(k[y], u.next, u.first[y], Null)
    BY <2>1, <2>3 DEF Ordered, Linked
  <2> QED BY <1>1, <2>1, <2>2, <2>4
<1>7. /\ NoDuplicates(j[p])
      /\ \A x \in Canvas : x \in Elements(j[p]) <=> u.parent[x] = p
      /\ Linked(j[p], u.next, u.first[p], Null)
  <2>1. NoDuplicates(j[p]) /\ Elements(j[p]) = Elements(s) \cup {c}
    <3> HIDE DEF s
    <3>1. i \in 1..(Len(s) + 1)
      BY DEF s
    <3>2. s \in Seq(Canvas) /\ NoDuplicates(s) /\ c \notin Elements(s)
      BY <1>1
    <3>3. Elements(Put(s, i, c)) = Elements(s) \cup {c}
      BY <3>1, <3>2, PutKeeps
    <3>4. NoDuplicates(Put(s, i, c))
      BY <3>1, <3>2, PutKeeps
    <3> QED BY <1>5, <3>3, <3>4
  <2>2. \A x \in Canvas : x \in Elements(j[p]) <=> u.parent[x] = p
    BY <1>1, <1>2, <2>1
  <2>3. Linked(s, t.next, t.first[p], Null)
    BY DEF Ordered
  <2>4. u.next[c] = IF i = Len(s) + 1 THEN Null ELSE s[i]
    BY <1>2
  <2>5. u.first[p] = IF i = 1 THEN c ELSE t.first[p]
    BY <1>2, <1>4
  <2>6. \A y \in Elements(s) :
            u.next[y] = IF i > 1 /\ y = s[i - 1] THEN c ELSE t.next[y]
    <3> TAKE y \in Elements(s)
    <3>1. y \in Canvas /\ y # Null /\ y # c
      BY <1>1, <1>3 DEF Elements
    <3>2. y = a <=> i > 1 /\ y = s[i - 1]
      BY <1>1, <3>1
    <3> HIDE DEF a
    <3> QED BY <1>2, <3>1, <3>2
  <2> HIDE DEF s, a, b
  <2>7. i \in 1..(Len(s) + 1)
    BY DEF s
  <2>8. Linked(Put(s, i, c), u.next, u.first[p], Null)
    <3>1. s \in Seq(Canvas) /\ NoDuplicates(s) /\ c \notin Elements(s)
      BY <1>1
    <3> QED BY <2>3, <2>4, <2>5, <2>6, <2>7, <3>1, LinkedPut
  <2> QED BY <1>5, <2>1, <2>2, <2>8
<1> QED BY <1>5, <1>6, <1>7 DEF Ordered, j

LEMMA AddedInOrder ==
    ASSUME NEW t, Whole(t), NEW k, Ordered(t, k), NEW p \in Canvas, NEW c \in Canvas,
           p # c
    PROVE  /\ Ordered(AddedInFront(t, p, c), [Taken(k, c) EXCEPT ![p] = Append(@, c)])
           /\ Ordered(AddedAtBack(t, p, c), [Taken(k, c) EXCEPT ![p] = Put(@, 1, c)])
<1> DEFINE r == Removed(t, c)
           j == Taken(k, c)
           s == j[p]
<1>1. Whole(r) /\ Ordered(r, j) /\ r.parent[c] = Null
  BY RemovedIsWhole, RemovedInOrder
<1>2. /\ Between(AddedInFront(t, p, c), r, p, c, r.last[p], Null)
      /\ Between(AddedAtBack(t, p, c), r, p, c, Null, r.first[p])
  BY AddedIsWhole
<1> HIDE DEF r, j
<1>3. s \in Seq(Canvas) /\ Len(s) \in Nat
  BY <1>1 DEF Ordered
<1>4. /\ r.first[p] = IF s = <<>> THEN Null ELSE s[1]
      /\ r.last[p] = IF s = <<>> THEN Null ELSE s[Len(s)]
  BY <1>1, OrderBack
<1>5. /\ Len(s) + 1 \in 1..(Len(s) + 1) /\ 1 \in 1..(Len(s) + 1)
      /\ s = <<>> <=> Len(s) = 0
      /\ Len(s) + 1 - 1 = Len(s) /\ (Len(s) + 1 = 1 <=> Len(s) = 0)
  BY <1>3
<1>6. Ordered(AddedInFront(t, p, c), [j EXCEPT ![p] = Append(@, c)])
  <2>1. Between(AddedInFront(t, p, c), r, p, c,
                IF Len(s) + 1 = 1 THEN Null ELSE s[Len(s) + 1 - 1],
                IF Len(s) + 1 = Len(s) + 1 THEN Null ELSE s[Len(s) + 1])
    BY <1>2, <1>4, <1>5
  <2>2. Ordered(AddedInFront(t, p, c), [j EXCEPT ![p] = Put(@, Len(s) + 1, c)])
    BY <1>1, <1>5, <2>1, BetweenInOrder
  <2>3. Append(s, c) = Put(s, Len(s) + 1, c)
    BY <1>3, AppendIsPut
  <2>4. [j EXCEPT ![p] = Put(@, Len(s) + 1, c)] = [j EXCEPT ![p] = Append(@, c)]
    BY <2>3
  <2> QED BY <2>2, <2>4
<1>7. Ordered(AddedAtBack(t, p, c), [j EXCEPT ![p] = Put(@, 1, c)])
  <2>1. Between(AddedAtBack(t, p, c), r, p, c,
                IF 1 = 1 THEN Null ELSE s[1 - 1],
                IF 1 = Len(s) + 1 THEN Null ELSE s[1])
    BY <1>2, <1>4, <1>5
  <2> QED BY <1>1, <1>5, <2>1, BetweenInOrder
<1> QED BY <1>6, <1>7 DEF j

LEMMA InsertedInOrder ==
    ASSUME NEW t, Whole(t), NEW k, Ordered(t, k), NEW p \in Canvas, NEW c \in Canvas,
           p # c, NEW ref \in Canvas, t.parent[ref] = p, ref # c
    PROVE  Ordered(Inserted(t, p, c, ref),
                   [Taken(k, c) EXCEPT ![p] = Put(@, Place(@, ref), c)])
<1> DEFINE r == Removed(t, c)
           j == Taken(k, c)
           s == j[p]
           i == Place(s, ref)
<1>1. /\ Whole(r) /\ Ordered(r, j) /\ r.parent[c] = Null /\ r.parent[ref] = p
  BY RemovedIsWhole, RemovedInOrder
<1>2. Between(Inserted(t, p, c, ref), r, p, c, r.prev[ref], ref)
  <2>1. ref # Null /\ ref \in CanvasOrNull
    BY CanvasAssumption DEF CanvasOrNull
  <2> QED BY <2>1, InsertedIsWhole
<1> HIDE DEF r, j
<1>3. s \in Seq(Canvas) /\ Len(s) \in Nat /\ ref \in Elements(s)
  BY <1>1 DEF Ordered
<1>4. i \in 1..Len(s) /\ s[i] = ref
  BY <1>3, PlaceOf
<1> HIDE DEF i
<1>5. r.prev[ref] = IF i = 1 THEN Null ELSE s[i - 1]
  <2>1. r.prev[s[i]] = IF i = 1 THEN Null ELSE s[i - 1]
    BY <1>1, <1>4, OrderBack
  <2> QED BY <1>4, <2>1
<1>6. i \in 1..(Len(s) + 1) /\ i # Len(s) + 1
  BY <1>3, <1>4
<1>7. Between(Inserted(t, p, c, ref), r, p, c,
              IF i = 1 THEN Null ELSE s[i - 1],
              IF i = Len(s) + 1 THEN Null ELSE s[i])
  BY <1>2, <1>4, <1>5, <1>6
<1>8. Ordered(Inserted(t, p, c, ref), [j EXCEPT ![p] = Put(@, i, c)])
  BY <1>1, <1>6, <1>7, BetweenInOrder
<1>9. [j EXCEPT ![p] = Put(@, i, c)] = [j EXCEPT ![p] = Put(@, Place(@, ref), c)]
  BY DEF i
<1> QED BY <1>8, <1>9 DEF j

LEMMA OrphanedInOrder ==
    ASSUME NEW t, Whole(t), NEW k, Ordered(t, k), NEW c \in Canvas,
           t.parent[c] = Null
    PROVE  Ordered(Orphaned(t, c), [k EXCEPT ![c] = <<>>])
<1> DEFINE u == Orphaned(t, c)
           j == [k EXCEPT ![c] = <<>>]
<1>1. /\ Null \notin Canvas /\ k \in [Canvas -> Seq(Canvas)]
      /\ \A p, x \in Canvas : x \in Elements(k[p]) <=> t.parent[x] = p
      /\ \A x \in Canvas : u.parent[x] = IF t.parent[x] = c THEN Null ELSE t.parent[x]
      /\ t.first \in [Canvas -> CanvasOrNull]
  BY CanvasAssumption, OrphanedIsWhole DEF Ordered, Whole, LinksType
<1>2. /\ \A x \in Canvas : u.first[x] = IF x = c THEN Null ELSE t.first[x]
      /\ \A x \in Canvas : u.next[x] = IF t.parent[x] = c THEN Null ELSE t.next[x]
  <2>1. /\ u.first = [t.first EXCEPT ![c] = Null]
        /\ u.next = [x \in Canvas |-> IF t.parent[x] = c THEN Null ELSE t.next[x]]
    BY DEF Orphaned
  <2> HIDE DEF u
  <2> QED BY <1>1, <2>1
<1> HIDE DEF u
<1>3. /\ \A y \in Canvas : y # c => j[y] = k[y]
      /\ j[c] = <<>> /\ j \in [Canvas -> Seq(Canvas)]
  BY <1>1
<1> HIDE DEF j
<1>4. ASSUME NEW y \in Canvas
      PROVE  /\ NoDuplicates(j[y])
             /\ \A x \in Canvas : x \in Elements(j[y]) <=> u.parent[x] = y
             /\ Linked(j[y], u.next, u.first[y], Null)
  <2>1. CASE y = c
    <3>1. j[y] = <<>> /\ Len(<<>>) = 0 /\ u.first[y] = Null
      BY <1>2, <1>3, <2>1
    <3>2. \A x \in Canvas : u.parent[x] # y
      BY <1>1, <2>1
    <3> QED BY <3>1, <3>2 DEF NoDuplicates, Elements, Linked
  <2>2. CASE y # c
    <3>1. j[y] = k[y] /\ NoDuplicates(k[y]) /\ u.first[y] = t.first[y]
      BY <1>2, <1>3, <2>2 DEF Ordered
    <3>2. \A x \in Canvas : u.parent[x] = y <=> t.parent[x] = y
      BY <1>1, <2>2
    <3>3. ASSUME NEW n \in 1..Len(k[y]) PROVE u.next[k[y][n]] = t.next[k[y][n]]
      <4>1. k[y][n] \in Canvas /\ t.parent[k[y][n]] = y
        BY OrderBack
      <4> QED BY <4>1, <1>2, <2>2
    <3>4. Linked(k[y], u.next, u.first[y], Null)
      BY <3>1, <3>3 DEF Ordered, Linked
    <3> QED BY <1>1, <3>1, <3>2, <3>4
  <2> QED BY <2>1, <2>2
<1> QED BY <1>3, <1>4 DEF Ordered, u, j
-----------------------------------------------------------------------------
(* The tree implements the abstract one. *)

InOrder == Ordered(links, Listed(links))

LEMMA WithoutIsTaken ==
    ASSUME NEW c
    PROVE  TreeInOrder!Without(c) = Taken(Listed(links), c)
<1>1. \A s, x : /\ TreeInOrder!Elements(s) = Elements(s)
                /\ TreeInOrder!Cut(s, x) = Cut(s, x)
                /\ TreeInOrder!Place(s, x) = Place(s, x)
  BY DEF TreeInOrder!Elements, TreeInOrder!Cut, TreeInOrder!Place,
         Elements, Cut, Place
<1> QED BY <1>1 DEF TreeInOrder!Without, TreeInOrder!IsChild, Taken

LEMMA NewOrder ==
    ASSUME NEW k, Ordered(links', k)
    PROVE  Listed(links)' = k /\ InOrder'
<1>1. k = Listed(links')
  BY OrderIsListed
<1>2. Listed(links)' = Listed(links')
  BY DEF Listed
<1>3. Ordered(links, Listed(links))' <=> Ordered(links', Listed(links'))
  BY DEF Ordered, Listed, Linked, NoDuplicates, Elements
<1> QED BY <1>1, <1>2, <1>3 DEF InOrder

\* The one that follows in the lists is the one that m_Next leads to.
LEMMA FollowersAreNext ==
    ASSUME Whole(links), InOrder, NEW ref \in Canvas
    PROVE  TreeInOrder!Followers(ref) = {links.next[ref]} \ {Null}
<1> DEFINE k == Listed(links)
<1>1. Ordered(links, k) /\ Null \notin Canvas /\ links.next[ref] \in CanvasOrNull
      /\ links.parent[ref] \in CanvasOrNull
  BY CanvasAssumption DEF InOrder, Whole, LinksType
<1> HIDE DEF k
<1>2. \A q \in Canvas :
        /\ Len(k[q]) \in Nat /\ (ref \in Elements(k[q]) <=> links.parent[ref] = q)
        /\ \A i \in 1..Len(k[q]) : k[q][i] = ref =>
                links.next[ref] = IF i = Len(k[q]) THEN Null ELSE k[q][i + 1]
  <2> SUFFICES ASSUME NEW q \in Canvas
               PROVE  /\ Len(k[q]) \in Nat /\ (ref \in Elements(k[q]) <=> links.parent[ref] = q)
                      /\ \A i \in 1..Len(k[q]) : k[q][i] = ref =>
                            links.next[ref] = IF i = Len(k[q]) THEN Null ELSE k[q][i + 1]
    OBVIOUS
  <2>1. k[q] \in Seq(Canvas) /\ (ref \in Elements(k[q]) <=> links.parent[ref] = q)
    BY <1>1 DEF Ordered
  <2>2. \A i \in 1..Len(k[q]) :
            links.next[k[q][i]] = IF i = Len(k[q]) THEN Null ELSE k[q][i + 1]
    BY <1>1, OrderBack
  <2> QED BY <2>1, <2>2
<1>3. ASSUME NEW d \in Canvas, NEW q \in Canvas, NEW i \in 1..(Len(k[q]) - 1),
             k[q][i] = ref, k[q][i + 1] = d
      PROVE  d = links.next[ref]
  <2>1. i \in 1..Len(k[q]) /\ i # Len(k[q])
    BY <1>2
  <2> QED BY <1>2, <1>3, <2>1
<1>4. ASSUME links.next[ref] # Null
      PROVE  \E q \in Canvas : \E i \in 1..(Len(k[q]) - 1) :
                k[q][i] = ref /\ k[q][i + 1] = links.next[ref]
  <2>1. links.parent[ref] # Null
    BY <1>4 DEF Whole, Alone
  <2>2. PICK q \in Canvas : links.parent[ref] = q
    BY <1>1, <2>1 DEF CanvasOrNull
  <2>3. PICK i \in 1..Len(k[q]) : k[q][i] = ref
    BY <1>2, <2>2 DEF Elements
  <2>4. i # Len(k[q]) /\ links.next[ref] = k[q][i + 1]
    BY <1>2, <1>4, <2>3
  <2>5. i \in 1..(Len(k[q]) - 1)
    BY <1>2, <2>3, <2>4
  <2> QED BY <2>3, <2>4, <2>5
<1>5. TreeInOrder!Followers(ref) =
        {d \in Canvas : \E q \in Canvas : \E i \in 1..(Len(k[q]) - 1) :
            k[q][i] = ref /\ k[q][i + 1] = d}
  BY DEF TreeInOrder!Followers, k
<1>6. links.next[ref] # Null => links.next[ref] \in Canvas
  BY <1>1 DEF CanvasOrNull
<1> QED BY <1>1, <1>3, <1>4, <1>5, <1>6

\* What each operation makes of the links is what the one of the same name says.
LEMMA AddIsNamed ==
    ASSUME Whole(links), InOrder, NEW p \in Canvas, NEW c \in Canvas, p # c
    PROVE  /\ links' = AddedInFront(links, p, c) => InOrder' /\ TreeInOrder!Add(p, c)
           /\ links' = AddedAtBack(links, p, c) => InOrder' /\ TreeInOrder!PutFirst(p, c)
<1> DEFINE k == Listed(links)
<1>1. Ordered(links, k)
  BY DEF InOrder
<1> HIDE DEF k
<1>2. ASSUME links' = AddedInFront(links, p, c)
      PROVE  InOrder' /\ TreeInOrder!Add(p, c)
  <2>1. Listed(links)' = [Taken(k, c) EXCEPT ![p] = Append(@, c)] /\ InOrder'
    BY <1>1, <1>2, AddedInOrder, NewOrder
  <2> QED BY <2>1, WithoutIsTaken DEF TreeInOrder!Add, k
<1>3. ASSUME links' = AddedAtBack(links, p, c)
      PROVE  InOrder' /\ TreeInOrder!PutFirst(p, c)
  <2>1. Listed(links)' = [Taken(k, c) EXCEPT ![p] = Put(@, 1, c)] /\ InOrder'
    BY <1>1, <1>3, AddedInOrder, NewOrder
  <2> QED BY <2>1, WithoutIsTaken DEF TreeInOrder!PutFirst, TreeInOrder!Put, Put, k
<1> QED BY <1>2, <1>3

LEMMA InsertIsNamed ==
    ASSUME Whole(links), InOrder, NEW p \in Canvas, NEW c \in Canvas, p # c,
           NEW ref \in CanvasOrNull, links' = Inserted(links, p, c, ref)
    PROVE  InOrder' /\ TreeInOrder!InsertBefore(p, c, ref)
<1> DEFINE k == Listed(links)
<1>1. Ordered(links, k) /\ Null \notin Canvas
  BY CanvasAssumption DEF InOrder
<1>2. CASE ref = Null
  <2>1. links' = AddedInFront(links, p, c)
    BY <1>2 DEF Inserted
  <2> QED BY <1>2, <2>1, AddIsNamed DEF TreeInOrder!InsertBefore
<1> HIDE DEF k
<1>3. ref # Null => (TreeInOrder!IsChild(ref, p) <=> links.parent[ref] = p)
  BY <1>1 DEF TreeInOrder!IsChild, TreeInOrder!Elements, Ordered, Elements, k, CanvasOrNull
<1>4. CASE ref # Null /\ links.parent[ref] = p /\ ref # c
  <2>1. ref \in Canvas
    BY <1>4 DEF CanvasOrNull
  <2>2. Ordered(links', [Taken(k, c) EXCEPT ![p] = Put(@, Place(@, ref), c)])
    BY <1>1, <1>4, <2>1, InsertedInOrder
  <2>3. /\ Listed(links)' = [Taken(k, c) EXCEPT ![p] = Put(@, Place(@, ref), c)]
        /\ InOrder'
    BY <2>2, NewOrder
  <2>4. [Taken(k, c) EXCEPT ![p] = Put(@, Place(@, ref), c)] =
        [Taken(k, c) EXCEPT ![p] = TreeInOrder!Put(@, TreeInOrder!Place(@, ref), c)]
    BY DEF TreeInOrder!Put, TreeInOrder!Place, Put, Place
  <2>5. TreeInOrder!PutBefore(p, c, ref)
    BY <2>3, <2>4, WithoutIsTaken DEF TreeInOrder!PutBefore, k
  <2> QED BY <1>3, <1>4, <2>1, <2>3, <2>5 DEF TreeInOrder!InsertBefore
<1>5. CASE ref # Null /\ ~(links.parent[ref] = p /\ ref # c)
  <2>1. links' = links /\ ref \in Canvas
    BY <1>5 DEF Inserted, CanvasOrNull
  <2>2. Listed(links)' = k /\ InOrder'
    BY <1>1, <2>1, NewOrder
  <2> QED BY <1>3, <1>5, <2>1, <2>2 DEF TreeInOrder!InsertBefore, k
<1> QED BY <1>2, <1>4, <1>5

LEMMA RemoveIsNamed ==
    ASSUME Whole(links), InOrder, NEW c \in Canvas
    PROVE  /\ links' = Removed(links, c) => InOrder' /\ TreeInOrder!Remove(c)
           /\ links' = Orphaned(Removed(links, c), c) => InOrder' /\ TreeInOrder!Collect(c)
<1> DEFINE k == Listed(links)
<1>1. Ordered(links, k)
  BY DEF InOrder
<1> HIDE DEF k
<1>2. /\ Whole(Removed(links, c)) /\ Removed(links, c).parent[c] = Null
      /\ Ordered(Removed(links, c), Taken(k, c))
  BY <1>1, RemovedIsWhole, RemovedInOrder
<1>3. ASSUME links' = Removed(links, c)
      PROVE  InOrder' /\ TreeInOrder!Remove(c)
  <2>1. Listed(links)' = Taken(k, c) /\ InOrder'
    BY <1>2, <1>3, NewOrder
  <2> QED BY <2>1, WithoutIsTaken DEF TreeInOrder!Remove, k
<1>4. ASSUME links' = Orphaned(Removed(links, c), c)
      PROVE  InOrder' /\ TreeInOrder!Collect(c)
  <2>1. Ordered(links', [Taken(k, c) EXCEPT ![c] = <<>>])
    BY <1>2, <1>4, OrphanedInOrder
  <2>2. Listed(links)' = [Taken(k, c) EXCEPT ![c] = <<>>] /\ InOrder'
    BY <2>1, NewOrder
  <2> QED BY <2>2, WithoutIsTaken DEF TreeInOrder!Collect, k
<1> QED BY <1>3, <1>4

\* Each operation, on the canvases it is called with.
LEMMA OperationsAreNamed ==
    ASSUME IInv, InOrder, NEW c \in Canvas
    PROVE  /\ BringToFront(c) => InOrder' /\ TreeInOrder!BringToFront(c)
           /\ SendToBack(c) => InOrder' /\ TreeInOrder!SendToBack(c)
           /\ Remove(c) => InOrder' /\ TreeInOrder!Remove(c)
           /\ Collect(c) => InOrder' /\ TreeInOrder!Collect(c)
           /\ \A p \in Canvas :
                /\ Add(p, c) => InOrder' /\ TreeInOrder!Add(p, c)
                /\ \A ref \in Canvas :
                    /\ InsertBefore(p, c, ref) =>
                            InOrder' /\ TreeInOrder!InsertBefore(p, c, ref)
                    /\ InsertAfter(p, c, ref) =>
                            InOrder' /\ TreeInOrder!InsertAfter(p, c, ref)
<1>1. /\ Whole(links) /\ Null \notin Canvas
      /\ \A x \in Canvas : links.parent[x] \in CanvasOrNull /\ links.next[x] \in CanvasOrNull
                           /\ links.parent[x] # x
  BY CanvasAssumption DEF IInv, TypeOK, Whole, NotItself
<1>2. ASSUME links.parent[c] # Null
      PROVE  /\ links.parent[c] \in Canvas /\ links.parent[c] # c
             /\ TreeInOrder!IsChild(c, links.parent[c])
  <2>1. links.parent[c] \in Canvas /\ links.parent[c] # c
    BY <1>1, <1>2 DEF CanvasOrNull
  <2>2. c \in Elements(Listed(links)[links.parent[c]])
    BY <2>1 DEF InOrder, Ordered
  <2> QED BY <2>1, <2>2 DEF TreeInOrder!IsChild, TreeInOrder!Elements, Elements
<1>3. BringToFront(c) => InOrder' /\ TreeInOrder!BringToFront(c)
  BY <1>1, <1>2, AddIsNamed DEF BringToFront, TreeInOrder!BringToFront
<1>4. SendToBack(c) => InOrder' /\ TreeInOrder!SendToBack(c)
  BY <1>1, <1>2, AddIsNamed DEF SendToBack, TreeInOrder!SendToBack
<1>5. /\ Remove(c) => InOrder' /\ TreeInOrder!Remove(c)
      /\ Collect(c) => InOrder' /\ TreeInOrder!Collect(c)
  BY <1>1, RemoveIsNamed DEF Remove, Collect
<1>6. ASSUME NEW p \in Canvas
      PROVE  Add(p, c) => InOrder' /\ TreeInOrder!Add(p, c)
  BY <1>1, AddIsNamed DEF Add
<1>7. ASSUME NEW p \in Canvas, NEW ref \in Canvas, InsertBefore(p, c, ref)
      PROVE  InOrder' /\ TreeInOrder!InsertBefore(p, c, ref)
  BY <1>1, <1>7, InsertIsNamed DEF InsertBefore, CanvasOrNull
<1>8. ASSUME NEW p \in Canvas, NEW ref \in Canvas, InsertAfter(p, c, ref)
      PROVE  InOrder' /\ TreeInOrder!InsertAfter(p, c, ref)
  <2>1. InOrder' /\ TreeInOrder!InsertBefore(p, c, links.next[ref])
    BY <1>1, <1>8, InsertIsNamed DEF InsertAfter
  <2>2. TreeInOrder!Followers(ref) = {links.next[ref]} \ {Null}
    BY <1>1, FollowersAreNext
  <2>3. CASE links.next[ref] = Null
    BY <2>1, <2>2, <2>3 DEF TreeInOrder!InsertAfter
  <2>4. CASE links.next[ref] # Null
    BY <2>1, <2>2, <2>4 DEF TreeInOrder!InsertAfter
  <2> QED BY <2>1, <2>3, <2>4
<1> QED BY <1>3, <1>4, <1>5, <1>6, <1>7, <1>8

LEMMA EachIsNamed == IInv /\ InOrder => AsNamed
<1> SUFFICES ASSUME IInv, InOrder PROVE AsNamed
  OBVIOUS
<1>1. held \subseteq Canvas /\ alive \subseteq Canvas
  BY DEF IInv, TypeOK
<1> QED BY <1>1, OperationsAreNamed DEF AsNamed

\* No other step changes the order of the children.
LEMMA TreeStep ==
    ASSUME IInv, InOrder, Next \/ UNCHANGED links
    PROVE  InOrder' /\ (TreeInOrder!Next \/ Listed(links)' = Listed(links))
<1>1. held \subseteq Canvas /\ Ordered(links, Listed(links))
  BY DEF IInv, TypeOK, InOrder
<1>2. ASSUME UNCHANGED links
      PROVE  InOrder' /\ Listed(links)' = Listed(links)
  BY <1>1, <1>2, NewOrder
<1>3. ASSUME NEW c \in Canvas,
             BringToFront(c) \/ SendToBack(c) \/ Remove(c) \/ Collect(c)
      PROVE  InOrder' /\ TreeInOrder!Changes
  <2>1. /\ InOrder'
        /\ \/ TreeInOrder!BringToFront(c) \/ TreeInOrder!SendToBack(c)
           \/ TreeInOrder!Remove(c) \/ TreeInOrder!Collect(c)
    BY <1>3, OperationsAreNamed
  <2> QED BY <2>1 DEF TreeInOrder!Changes
<1>4. ASSUME NEW p \in held, NEW c \in held, Add(p, c)
      PROVE  InOrder' /\ TreeInOrder!Changes
  <2>1. InOrder' /\ TreeInOrder!Add(p, c) /\ p # c
    BY <1>1, <1>4, OperationsAreNamed DEF Add
  <2> QED BY <1>1, <2>1 DEF TreeInOrder!Changes
<1>5. ASSUME NEW p \in held, NEW c \in held, NEW ref \in held,
             InsertBefore(p, c, ref) \/ InsertAfter(p, c, ref)
      PROVE  InOrder' /\ TreeInOrder!Changes
  <2>1. /\ InOrder' /\ p # c
        /\ TreeInOrder!InsertBefore(p, c, ref) \/ TreeInOrder!InsertAfter(p, c, ref)
    BY <1>1, <1>5, OperationsAreNamed DEF InsertBefore, InsertAfter
  <2> QED BY <1>1, <2>1 DEF TreeInOrder!Changes
<1>6. Next => InOrder' /\ (TreeInOrder!Changes \/ UNCHANGED links)
  BY <1>1, <1>2, <1>3, <1>4, <1>5 DEF Next, Moves, Naming, New, Find, Drop, SetId
<1> QED BY <1>2, <1>6 DEF TreeInOrder!Next

LEMMA OrderInitially == Init => InOrder /\ TreeInOrder!Init
<1> SUFFICES ASSUME Init PROVE InOrder /\ TreeInOrder!Init
  OBVIOUS
<1> DEFINE k == [p \in Canvas |-> <<>>]
<1>1. Ordered(links, k)
  <2>1. k \in [Canvas -> Seq(Canvas)] /\ \A p \in Canvas : k[p] = <<>>
    OBVIOUS
  <2> HIDE DEF k
  <2> QED BY <2>1, CanvasAssumption
          DEF Init, NoLinks, Ordered, NoDuplicates, Elements, Linked
<1>2. k = Listed(links)
  BY <1>1, OrderIsListed
<1> QED BY <1>1, <1>2 DEF InOrder, TreeInOrder!Init

\* The doubly linked lists of addChild(), insertBefore(), insertAfter() and
\* removeFromParent() implement sequences of children: each operation does to
\* the order of all of them what the one of the same name says, for any canvases
\* it is called with.
THEOREM TreeRefinement == Spec => KeepsOrder
<1>1. IInv /\ InOrder /\ [Next]_treeVars => InOrder' /\ [TreeInOrder!Next]_(Listed(links))
  BY TreeStep DEF treeVars
<1>2. IInv /\ InOrder => [links' # links => AsNamed]_links
  BY EachIsNamed
<1> QED BY <1>1, <1>2, OrderInitially, InitIsWhole, NextKeeps, PTL
        DEF Spec, KeepsOrder, TreeInOrder!Spec
-----------------------------------------------------------------------------
(* Frames. *)

(* The calls in progress: those of the walk, those of the delivery of events. *)

WalkName == {"descend", "layerize", "next", "loaded", "painted", "frame", "load",
             "paint"}
WalkCall == [f : WalkName, on : Canvas, ev : {0, 1}, about : {Null}]
EventCall == [f : {"bubble", "bubbled", "input"}, on : Canvas,
              ev : 1..Len(events), about : CanvasOrNull]
InputName == {"drag", "dragover", "dragend", "drop", "undrag", "unclick", "cursor"}
InputCall == [f : InputName \cup Mouse, on : Canvas, ev : {0, 1},
              about : CanvasOrNull]
DeliveryCall == EventCall \cup InputCall
ToTrigger == <<Call("compose"), Call("trigger"), Call("clear")>>
ToClear == <<Call("trigger"), Call("clear")>>

EventType == [type : Mouse, depth : Nat, through : CanvasOrNull]
CopyType == [handler : Canvas, ev : 1..Len(events), depth : Nat,
             under : CanvasOrNull]
FrameTypes ==
    /\ events \in Seq(EventType) /\ lists \in Seq(CopyType)
    /\ handled \in Seq(Seq(Canvas)) /\ Len(handled) = Len(events)
    /\ pending \in Seq(Mouse) /\ dragged \subseteq Canvas

\* The copy that triggerEvents() gives event i to: one at most, of the canvas
\* that took the last copy, until the event is handled.
Final(j, i) == lists[j].ev = i /\ lists[j].depth = events[i].depth
HeardOnce(i) ==
    \/ /\ events[i].through = Null /\ handled[i] = <<>>
       /\ \A j \in 1..Len(lists) : ~Final(j, i)
    \/ /\ events[i].through # Null /\ handled[i] = <<>>
       /\ \E j \in 1..Len(lists) :
            /\ Final(j, i) /\ lists[j].handler = events[i].through
            /\ \A k \in 1..Len(lists) : Final(k, i) => k = j
    \/ /\ events[i].through # Null /\ handled[i] = <<events[i].through>>
       /\ \A j \in 1..Len(lists) : ~Final(j, i)
EachHeardOnce == \A i \in 1..Len(events) : HeardOnce(i)

\* Until the walk is over nothing is handled, and no copy is deeper than its
\* event.
Unheard == \A i \in 1..Len(events) : handled[i] = <<>>
Bounded == \A j \in 1..Len(lists) : lists[j].depth <= events[lists[j].ev].depth

\* Where the frame is.
Building ==
    /\ \E calls \in Seq(WalkCall) : todo = calls \o ToTrigger
    /\ Unheard /\ Bounded
Delivering == \E calls \in Seq(DeliveryCall) : todo = calls \o ToClear
Phases ==
    \/ todo = <<>> /\ lists = <<>> /\ Unheard
    \/ Building
    \/ Delivering
    \/ todo = <<Call("clear")>> /\ lists = <<>>

FrameInv == IInv /\ FrameTypes /\ EachHeardOnce /\ Phases
-----------------------------------------------------------------------------
(* The stack of calls. *)

LEMMA CallOfSequence ==
    ASSUME NEW S, NEW T, NEW s \in Seq(S), NEW t \in Seq(T), s # <<>>
    PROVE  /\ Head(s \o t) = Head(s) /\ Tail(s \o t) = Tail(s) \o t
           /\ Head(s) \in S /\ Tail(s) \in Seq(S) /\ s \o t # <<>>
<1> DEFINE U == S \cup T
<1>1. s \in Seq(U) /\ t \in Seq(U)
  <2>1. S \subseteq U /\ T \subseteq U  OBVIOUS
  <2> QED  BY <2>1, SeqMonotonic
<1> HIDE DEF U
<1>2. /\ s \o t \in Seq(U) /\ Len(s \o t) = Len(s) + Len(t)
      /\ \A i \in 1..(Len(s) + Len(t)) :
            (s \o t)[i] = IF i <= Len(s) THEN s[i] ELSE t[i - Len(s)]
  BY <1>1, ConcatProperties
<1>3. Len(s) \in Nat \ {0} /\ Len(t) \in Nat  BY LenProperties, EmptySeq
<1>4. s \o t # <<>>  BY <1>2, <1>3
<1>5. /\ Head(s) = s[1] /\ Head(s) \in S /\ Tail(s) \in Seq(S) /\ Tail(s) \in Seq(U)
      /\ Len(Tail(s)) = Len(s) - 1 /\ \A i \in 1..(Len(s) - 1) : Tail(s)[i] = s[i + 1]
  BY <1>1, <1>3, HeadTailProperties
<1>6. /\ Head(s \o t) = (s \o t)[1] /\ Tail(s \o t) \in Seq(U)
      /\ Len(Tail(s \o t)) = Len(s) + Len(t) - 1
      /\ \A i \in 1..(Len(s) + Len(t) - 1) : Tail(s \o t)[i] = (s \o t)[i + 1]
  BY <1>2, <1>3, <1>4, HeadTailProperties
<1>7. /\ Tail(s) \o t \in Seq(U) /\ Len(Tail(s) \o t) = Len(s) - 1 + Len(t)
      /\ \A i \in 1..(Len(s) - 1 + Len(t)) :
            (Tail(s) \o t)[i] = IF i <= Len(s) - 1 THEN Tail(s)[i] ELSE t[i - (Len(s) - 1)]
  BY <1>1, <1>3, <1>5, ConcatProperties
<1>8. Tail(s \o t) = Tail(s) \o t
  <2>1. Len(Tail(s \o t)) = Len(Tail(s) \o t)  BY <1>3, <1>6, <1>7
  <2>2. ASSUME NEW i \in 1..Len(Tail(s \o t))
        PROVE  Tail(s \o t)[i] = (Tail(s) \o t)[i]
    <3>1. i \in 1..(Len(s) + Len(t) - 1) /\ i + 1 \in 1..(Len(s) + Len(t))
      BY <1>3, <1>6
    <3>2. Tail(s \o t)[i] = IF i + 1 <= Len(s) THEN s[i + 1] ELSE t[i + 1 - Len(s)]
      BY <1>2, <1>6, <3>1
    <3>3. (Tail(s) \o t)[i] = IF i <= Len(s) - 1 THEN Tail(s)[i] ELSE t[i - (Len(s) - 1)]
      BY <1>3, <1>7, <3>1
    <3>4. CASE i + 1 <= Len(s)  BY <1>3, <1>5, <3>1, <3>2, <3>3, <3>4
    <3>5. CASE i + 1 > Len(s)
      <4>1. i - (Len(s) - 1) = i + 1 - Len(s)  BY <1>3, <3>1
      <4> QED  BY <1>3, <3>1, <3>2, <3>3, <3>5, <4>1
    <3> QED  BY <1>3, <3>1, <3>4, <3>5
  <2> QED  BY <1>6, <1>7, <2>1, <2>2, SeqEqual
<1> QED  BY <1>2, <1>3, <1>4, <1>5, <1>6, <1>8

\* Calls that take the place of the innermost one, of a sequence in front of
\* calls that stay.
LEMMA RestInFront ==
    ASSUME NEW S, NEW T, NEW calls \in Seq(S), NEW t \in Seq(T), calls # <<>>,
           todo = calls \o t, NEW new \in Seq(S), Rest(new)
    PROVE  \E after \in Seq(S) : todo' = after \o t
<1> DEFINE U == S \cup T
           left == Tail(calls)
<1>1. Tail(todo) = left \o t /\ left \in Seq(S)
  BY CallOfSequence
<1> HIDE DEF left
<1>2. todo' = new \o (left \o t)  BY <1>1 DEF Rest
<1>3. new \in Seq(U) /\ left \in Seq(U) /\ t \in Seq(U)
  <2>1. S \subseteq U /\ T \subseteq U  OBVIOUS
  <2> QED  BY <1>1, <2>1, SeqMonotonic
<1> HIDE DEF U
<1>4. (new \o left) \o t = new \o (left \o t)  BY <1>3, ConcatAssociative
<1>5. new \o left \in Seq(S)  BY <1>1, ConcatProperties
<1> QED  BY <1>2, <1>4, <1>5

EndCall == {Call("compose"), Call("trigger"), Call("clear")}
LEMMA Ends3 ==
    /\ ToTrigger \in Seq(EndCall) /\ ToClear \in Seq(EndCall)
    /\ Head(ToTrigger) = Call("compose") /\ Tail(ToTrigger) = ToClear
    /\ Head(ToClear) = Call("trigger") /\ Tail(ToClear) = <<Call("clear")>>
    /\ ToTrigger # <<>> /\ ToClear # <<>>
BY DEF ToTrigger, ToClear, EndCall

\* What is on top tells the phase.
LEMMA TopTellsThePhase ==
    ASSUME Phases, todo # <<>>
    PROVE  \/ /\ Building /\ Head(todo) \in WalkCall
              /\ \E calls \in Seq(WalkCall) : calls # <<>> /\ todo = calls \o ToTrigger
           \/ Building /\ Head(todo) = Call("compose") /\ Tail(todo) = ToClear
           \/ /\ Head(todo) \in DeliveryCall
              /\ \E calls \in Seq(DeliveryCall) : calls # <<>> /\ todo = calls \o ToClear
           \/ Head(todo) = Call("trigger") /\ todo = ToClear
           \/ Head(todo) = Call("clear") /\ Tail(todo) = <<>> /\ lists = <<>>
<1>1. CASE Building
  <2>1. PICK calls \in Seq(WalkCall) : todo = calls \o ToTrigger  BY <1>1 DEF Building
  <2>2. CASE calls = <<>>
    <3>1. todo = ToTrigger  BY <2>1, <2>2, Ends3, ConcatEmptySeq
    <3> QED  BY <1>1, <3>1, Ends3
  <2>3. CASE calls # <<>>
    <3>1. Head(todo) = Head(calls) /\ Head(calls) \in WalkCall
      BY <2>1, <2>3, Ends3, CallOfSequence
    <3> QED  BY <1>1, <2>1, <2>3, <3>1
  <2> QED  BY <2>2, <2>3
<1>2. CASE Delivering
  <2>1. PICK calls \in Seq(DeliveryCall) : todo = calls \o ToClear
    BY <1>2 DEF Delivering
  <2>2. CASE calls = <<>>
    <3>1. todo = ToClear  BY <2>1, <2>2, Ends3, ConcatEmptySeq
    <3> QED  BY <3>1, Ends3
  <2>3. CASE calls # <<>>
    <3>1. Head(todo) = Head(calls) /\ Head(calls) \in DeliveryCall
      BY <2>1, <2>3, Ends3, CallOfSequence
    <3> QED  BY <2>1, <2>3, <3>1
  <2> QED  BY <2>2, <2>3
<1>3. CASE todo = <<Call("clear")>> /\ lists = <<>>
  BY <1>3
<1> QED  BY <1>1, <1>2, <1>3 DEF Phases

LEMMA CallNames ==
    /\ \A c \in WalkCall : c.f \in WalkName
    /\ \A c \in DeliveryCall :
            c.f \in {"bubble", "bubbled", "input"} \cup InputName \cup Mouse
    /\ Call("compose").f = "compose" /\ Call("trigger").f = "trigger"
    /\ Call("clear").f = "clear"
<1>1. \A c \in WalkCall : c.f \in WalkName
  BY DEF WalkCall
<1>2. \A c \in EventCall : c.f \in {"bubble", "bubbled", "input"}
  BY DEF EventCall
<1>3. \A c \in InputCall : c.f \in InputName \cup Mouse
  BY DEF InputCall
<1> QED  BY <1>1, <1>2, <1>3 DEF DeliveryCall, Call, CallOn, CallFor

\* The names of the kinds of calls tell them apart.
LEMMA NamesDiffer ==
    /\ \A f \in WalkName :
            /\ f \notin {"bubble", "bubbled", "input"} \cup InputName \cup Mouse
            /\ f \notin {"compose", "trigger", "clear"}
    /\ \A f \in {"bubble", "bubbled", "input"} \cup InputName \cup Mouse :
            f \notin {"compose", "trigger", "clear"}
    /\ \A f \in InputName \cup Mouse : f \notin {"bubble", "bubbled", "input"}
BY DEF WalkName, InputName, Mouse

\* The handlers' calls.
LEMMA HandlerCalls ==
    ASSUME NEW c \in Canvas
    PROVE  /\ \A e \in {"frame", "load", "paint"} : Handler(e, c) \in Seq(WalkCall)
           /\ \A e \in {"drag", "dragend"} \cup Mouse : \A d \in CanvasOrNull :
                HandlerAbout(e, c, d) \in Seq(DeliveryCall)
<1>1. ASSUME NEW e \in {"frame", "load", "paint"}
      PROVE  CallFor(e, c, 0, Null) \in WalkCall
  BY DEF CallFor, WalkCall, WalkName
<1>2. ASSUME NEW e \in {"drag", "dragend"} \cup Mouse, NEW d \in CanvasOrNull
      PROVE  CallFor(e, c, 0, d) \in DeliveryCall
  BY DEF CallFor, DeliveryCall, InputCall, InputName
<1> QED  BY <1>1, <1>2 DEF Handler, HandlerAbout
-----------------------------------------------------------------------------
(* The tree. *)

\* What handlers and scripts do to the tree is what scripts can do.
LEMMA ChangesAreMoves ==
    ASSUME IInv, NEW call, Changes(call)  PROVE IInv'
<1>1. held \subseteq Canvas  BY DEF IInv, TypeOK
<1>2. Next  BY <1>1 DEF Changes, Next, Moves
<1> QED  BY <1>2, NextKeeps

LEMMA CollectionsKeep ==
    ASSUME IInv, NEW c \in Canvas, Collect(c)  PROVE IInv'
BY NextKeeps DEF Next

LEMMA ClickKeeps ==
    ASSUME IInv, clicked' \in CanvasOrNull, UNCHANGED <<links, alive, id, named, held>>
    PROVE  IInv'
<1>1. TypeOK'  BY DEF IInv, TypeOK
<1>2. Whole(links)'  BY DEF IInv, Whole, Alone, Nexts, Prevs, Firsts, Lasts, Ends, Both,
                            NotItself, Told
<1>3. ParentsLive' /\ NamesAreLive'  BY DEF IInv, ParentsLive, NamesAreLive
<1> QED  BY <1>1, <1>2, <1>3 DEF IInv

LEMMA TreeStays == ASSUME IInv, UNCHANGED treeVars  PROVE IInv'
BY NextKeeps DEF treeVars

LEMMA LinksAreTyped ==
    ASSUME IInv, NEW c \in Canvas
    PROVE  /\ links.parent[c] \in CanvasOrNull /\ links.first[c] \in CanvasOrNull
           /\ links.next[c] \in CanvasOrNull /\ clicked \in CanvasOrNull
BY DEF IInv, TypeOK
-----------------------------------------------------------------------------
(* What most steps do to a frame. *)

LEMMA HeardStays ==
    ASSUME EachHeardOnce, UNCHANGED <<events, lists, handled>>
    PROVE  EachHeardOnce'
<1> SUFFICES ASSUME NEW i \in 1..Len(events)  PROVE HeardOnce(i)'
  BY DEF EachHeardOnce
<1>1. HeardOnce(i)  BY DEF EachHeardOnce
<1>2. \A j : Final(j, i)' <=> Final(j, i)  BY DEF Final
<1> QED  BY <1>1, <1>2 DEF HeardOnce

LEMMA FrameStays ==
    ASSUME FrameInv, IInv', UNCHANGED <<events, lists, handled, todo>>,
           pending' \in Seq(Mouse), dragged' \subseteq Canvas
    PROVE  FrameInv'
<1>1. FrameTypes'  BY DEF FrameInv, FrameTypes, CopyType
<1>2. EachHeardOnce'  BY HeardStays DEF FrameInv
<1>3. DeliveryCall' = DeliveryCall  BY DEF DeliveryCall, EventCall, InputCall
<1>4. Phases'  BY <1>3 DEF FrameInv, Phases, Building, Delivering, Unheard, Bounded
<1> QED  BY <1>1, <1>2, <1>4 DEF FrameInv

\* A call of the walk or of the delivery, which calls others of its kind.
LEMMA CallGoesOn ==
    ASSUME FrameInv, IInv', UNCHANGED <<events, lists, handled, pending>>,
           dragged' \subseteq Canvas, todo # <<>>, NEW new, Rest(new),
           \/ Head(todo) \in WalkCall /\ new \in Seq(WalkCall)
           \/ Head(todo) \in DeliveryCall /\ new \in Seq(DeliveryCall)
    PROVE  FrameInv'
<1>1. FrameTypes'  BY DEF FrameInv, FrameTypes, CopyType
<1>2. EachHeardOnce'  BY HeardStays DEF FrameInv
<1>3. DeliveryCall' = DeliveryCall  BY DEF DeliveryCall, EventCall, InputCall
<1>4. CASE Head(todo) \in WalkCall /\ new \in Seq(WalkCall)
  <2>1. /\ Building
        /\ \E calls \in Seq(WalkCall) : calls # <<>> /\ todo = calls \o ToTrigger
    BY <1>4, TopTellsThePhase, CallNames, NamesDiffer DEF FrameInv
  <2>2. PICK calls \in Seq(WalkCall) : calls # <<>> /\ todo = calls \o ToTrigger
    BY <2>1
  <2>3. \E after \in Seq(WalkCall) : todo' = after \o ToTrigger
    BY <1>4, <2>2, Ends3, RestInFront
  <2>4. Building'  BY <2>1, <2>3 DEF Building, Unheard, Bounded
  <2> QED  BY <1>1, <1>2, <2>4 DEF FrameInv, Phases
<1>5. CASE Head(todo) \in DeliveryCall /\ new \in Seq(DeliveryCall)
  <2>1. \E calls \in Seq(DeliveryCall) : calls # <<>> /\ todo = calls \o ToClear
    BY <1>5, TopTellsThePhase, CallNames, NamesDiffer DEF FrameInv
  <2>2. PICK calls \in Seq(DeliveryCall) : calls # <<>> /\ todo = calls \o ToClear
    BY <2>1
  <2>3. \E after \in Seq(DeliveryCall) : todo' = after \o ToClear
    BY <1>5, <2>2, Ends3, RestInFront
  <2>4. Delivering'  BY <1>3, <2>3 DEF Delivering
  <2> QED  BY <1>1, <1>2, <2>4 DEF FrameInv, Phases
<1> QED  BY <1>4, <1>5

\* Which kind of call is on top, and what it is about.
LEMMA TopOfWalk ==
    ASSUME FrameInv, NEW f, At(f), f \in WalkName
    PROVE  todo # <<>> /\ Head(todo) \in WalkCall /\ On \in Canvas
<1>1. todo # <<>> /\ Head(todo).f = f  BY DEF At
<1>2. Head(todo) \in WalkCall
  BY <1>1, TopTellsThePhase, CallNames, NamesDiffer DEF FrameInv
<1>3. On \in Canvas  BY <1>2 DEF On, WalkCall
<1> QED  BY <1>1, <1>2, <1>3

LEMMA TopOfDelivery ==
    ASSUME FrameInv, NEW f, At(f),
           f \in {"bubble", "bubbled", "input"} \cup InputName \cup Mouse
    PROVE  /\ todo # <<>> /\ Head(todo) \in DeliveryCall
           /\ On \in Canvas /\ About \in CanvasOrNull
           /\ f \in {"bubble", "bubbled", "input"} =>
                Ev \in 1..Len(events) /\ events[Ev].type \in Mouse
           /\ f \notin {"bubble", "bubbled", "input"} => Head(todo) \in InputCall
<1>1. todo # <<>> /\ Head(todo).f = f  BY DEF At
<1>2. Head(todo) \in DeliveryCall
  BY <1>1, TopTellsThePhase, CallNames, NamesDiffer DEF FrameInv
<1>3. CASE Head(todo) \in EventCall
  <2>1. On \in Canvas /\ Ev \in 1..Len(events) /\ About \in CanvasOrNull
    BY <1>3 DEF On, Ev, About, EventCall
  <2>2. events[Ev] \in EventType  BY <2>1, ElementOfSeq DEF FrameInv, FrameTypes
  <2>3. events[Ev].type \in Mouse  BY <2>2 DEF EventType
  <2>4. f \in {"bubble", "bubbled", "input"}  BY <1>1, <1>3 DEF EventCall
  <2> QED  BY <1>1, <1>2, <2>1, <2>3, <2>4
<1>4. CASE Head(todo) \in InputCall
  <2>1. On \in Canvas /\ About \in CanvasOrNull /\ f \in InputName \cup Mouse
    BY <1>1, <1>4 DEF On, About, InputCall
  <2>2. f \notin {"bubble", "bubbled", "input"}  BY <2>1, NamesDiffer
  <2> QED  BY <1>1, <1>2, <1>4, <2>1, <2>2
<1> QED  BY <1>2, <1>3, <1>4 DEF DeliveryCall
-----------------------------------------------------------------------------
(* The steps of a frame. *)

LEMMA IdleHasNothing ==
    ASSUME Phases, todo = <<>>  PROVE lists = <<>> /\ Unheard
<1>1. ASSUME NEW S, NEW calls \in Seq(S)
      PROVE  calls \o ToTrigger # <<>> /\ calls \o ToClear # <<>>
  <2>1. CASE calls = <<>>  BY <2>1, Ends3, ConcatEmptySeq
  <2>2. CASE calls # <<>>  BY <2>2, Ends3, CallOfSequence
  <2> QED  BY <2>1, <2>2
<1>2. ~Building /\ ~Delivering  BY <1>1 DEF Building, Delivering
<1>3. todo # <<Call("clear")>>  OBVIOUS
<1> QED  BY <1>2, <1>3 DEF Phases

LEMMA FrameBegins == ASSUME FrameInv, Frame  PROVE FrameInv'
<1> DEFINE first == CallOn("descend", Root)
           before == Handler("frame", Root)
<1>1. IInv'  BY TreeStays DEF FrameInv, Frame
<1>2. UNCHANGED <<events, pending, lists, dragged, handled>>  BY DEF Frame
<1>3. FrameTypes'  BY <1>2 DEF FrameInv, FrameTypes, CopyType
<1>4. EachHeardOnce'  BY <1>2, HeardStays DEF FrameInv
<1>5. lists = <<>> /\ Unheard  BY IdleHasNothing DEF FrameInv, Frame, MainLoop
<1>6. before \in Seq(WalkCall)  BY CanvasAssumption, HandlerCalls
<1>7. first \in WalkCall  BY CanvasAssumption DEF WalkCall, WalkName, CallOn, CallFor
<1>8. todo' = before \o <<first, Call("compose"), Call("trigger"), Call("clear")>>
  BY DEF Frame
<1> HIDE DEF first, before
<1>9. <<first, Call("compose"), Call("trigger"), Call("clear")>> = <<first>> \o ToTrigger
  BY DEF ToTrigger
<1>10. \E calls \in Seq(WalkCall) : todo' = calls \o ToTrigger
  <2> DEFINE U == WalkCall \cup EndCall
  <2>1. before \in Seq(U) /\ <<first>> \in Seq(U) /\ ToTrigger \in Seq(U)
    <3>1. WalkCall \subseteq U /\ EndCall \subseteq U  OBVIOUS
    <3>2. <<first>> \in Seq(WalkCall)  BY <1>7
    <3> QED  BY <1>6, <3>1, <3>2, Ends3, SeqMonotonic
  <2> HIDE DEF U
  <2>2. (before \o <<first>>) \o ToTrigger = before \o (<<first>> \o ToTrigger)
    BY <2>1, ConcatAssociative
  <2>3. <<first>> \in Seq(WalkCall)  BY <1>7
  <2>4. before \o <<first>> \in Seq(WalkCall)  BY <1>6, <2>3, ConcatProperties
  <2> QED  BY <1>8, <1>9, <2>2, <2>4
<1>11. Building'
  <2>1. Unheard'
    BY <1>2, <1>5 DEF Unheard
  <2>2. 1..Len(lists') = {}
    BY <1>2, <1>5
  <2>3. Bounded'
    BY <2>2 DEF Bounded
  <2> QED BY <1>10, <2>1, <2>3 DEF Building
<1> QED  BY <1>1, <1>3, <1>4, <1>11 DEF FrameInv, Phases

LEMMA VisitCalls ==
    ASSUME NEW c \in CanvasOrNull  PROVE Visit(c) \in Seq(WalkCall)
<1>1. c # Null => CallOn("layerize", c) \in WalkCall /\ CallOn("next", c) \in WalkCall
  BY DEF CanvasOrNull, WalkCall, WalkName, CallOn, CallFor
<1> QED  BY <1>1 DEF Visit

LEMMA WalkGoesOn ==
    ASSUME FrameInv, Descend \/ NextSibling \/ Loads \/ NotDrawn \/ Painted
    PROVE  FrameInv'
<1>1. IInv' /\ UNCHANGED <<events, lists, handled, pending, dragged>>
  BY TreeStays DEF FrameInv, Descend, NextSibling, Loads, NotDrawn, Painted
<1>2. todo # <<>> /\ Head(todo) \in WalkCall /\ On \in Canvas
  <2>1. \E f \in WalkName : At(f)
    BY DEF Descend, NextSibling, Loads, NotDrawn, Layerizes, Painted, WalkName
  <2> QED  BY <2>1, TopOfWalk
<1>3. Visit(links.first[On]) \in Seq(WalkCall) /\ Visit(links.next[On]) \in Seq(WalkCall)
      /\ <<>> \in Seq(WalkCall)
  BY <1>2, LinksAreTyped, VisitCalls DEF FrameInv
<1>4. \E new \in Seq(WalkCall) : Rest(new)
  <2>1. CASE Loads
    <3>1. CallOn("loaded", On) \in WalkCall
      BY <1>2 DEF CallOn, CallFor, WalkCall, WalkName
    <3>2. <<CallOn("loaded", On)>> \in Seq(WalkCall)  BY <3>1
    <3>3. Handler("load", On) \in Seq(WalkCall)  BY <1>2, HandlerCalls
    <3> QED  BY <2>1, <3>2, <3>3, ConcatProperties DEF Loads
  <2>2. CASE Descend \/ NextSibling \/ NotDrawn \/ Painted
    BY <1>3, <2>2 DEF Descend, NextSibling, NotDrawn, Painted
  <2> QED  BY <2>1, <2>2
<1>5. dragged' \subseteq Canvas  BY <1>1 DEF FrameInv, FrameTypes
<1> QED  BY <1>1, <1>2, <1>4, <1>5, CallGoesOn

LEMMA ComposeKeeps == ASSUME FrameInv, Compose  PROVE FrameInv'
<1>1. IInv' /\ UNCHANGED <<events, lists, handled, pending, dragged>>
  BY TreeStays DEF FrameInv, Compose
<1>2. FrameTypes'  BY <1>1 DEF FrameInv, FrameTypes, CopyType
<1>3. EachHeardOnce'  BY <1>1, HeardStays DEF FrameInv
<1>4. Tail(todo) = ToClear
  BY TopTellsThePhase, CallNames, NamesDiffer DEF FrameInv, Compose, At
<1>5. todo' = <<>> \o ToClear  BY <1>4 DEF Compose, Rest
<1>6. <<>> \in Seq(DeliveryCall')  OBVIOUS
<1>7. Delivering'  BY <1>5, <1>6 DEF Delivering
<1> QED  BY <1>1, <1>2, <1>3, <1>7 DEF FrameInv, Phases

LEMMA DeliveryGoesOn ==
    ASSUME FrameInv,
           \/ Bubble \/ Bubbled \/ InputDown \/ InputMove \/ InputUp
           \/ Undrag \/ Unclick \/ Cursor
    PROVE  FrameInv'
<1>1. UNCHANGED <<events, lists, handled, pending>>
  BY DEF Bubble, Bubbled, InputDown, InputMove, InputUp, Undrag, Unclick, Cursor
<1>2. /\ todo # <<>> /\ Head(todo) \in DeliveryCall
      /\ On \in Canvas /\ About \in CanvasOrNull
      /\ At("bubble") \/ At("bubbled") \/ At("input") =>
            Ev \in 1..Len(events) /\ events[Ev].type \in Mouse
  <2>1. \E f \in {"bubble", "bubbled", "input"} \cup InputName \cup Mouse : At(f)
    BY DEF Bubble, Bubbled, InputDown, InputMove, InputUp, Undrag, Unclick, Cursor,
           InputName
  <2> QED  BY <2>1, TopOfDelivery
<1>3. clicked \in CanvasOrNull /\ dragged \subseteq Canvas
  BY DEF FrameInv, FrameTypes, IInv, TypeOK
<1>4. \A f \in InputName : \A c \in Canvas : \A d \in CanvasOrNull :
            CallFor(f, c, 0, d) \in DeliveryCall
  BY DEF CallFor, DeliveryCall, InputCall
<1>5. \A f \in {"bubble", "bubbled"} : \A c \in Canvas : \A i \in 1..Len(events) :
            \A d \in CanvasOrNull : CallFor(f, c, i, d) \in DeliveryCall
  BY DEF CallFor, DeliveryCall, EventCall
<1>6. \A c \in Canvas : \A d \in CanvasOrNull : \A e \in {"drag", "dragend"} \cup Mouse :
            HandlerAbout(e, c, d) \in Seq(DeliveryCall)
  BY HandlerCalls
<1>7. Canvas \subseteq CanvasOrNull /\ Null \in CanvasOrNull  BY DEF CanvasOrNull
<1>8. Target \in Canvas
  BY <1>2 DEF Target, Underneath, CanvasOrNull
<1>9. /\ \A x \in DeliveryCall : <<x>> \in Seq(DeliveryCall)
      /\ \A x, y \in DeliveryCall : <<x, y>> \in Seq(DeliveryCall)
      /\ <<>> \in Seq(DeliveryCall)
  OBVIOUS
<1>10. \A s, t \in Seq(DeliveryCall) : s \o t \in Seq(DeliveryCall)
  BY ConcatProperties
<1>11. /\ IInv' /\ dragged' \subseteq Canvas
       /\ \E new \in Seq(DeliveryCall) : Rest(new)
  <2>1. CASE Bubble
    <3>1. IInv' /\ dragged' = dragged  BY <2>1, TreeStays DEF FrameInv, Bubble
    <3>2. /\ HandlerAbout(events[Ev].type, On, About) \in Seq(DeliveryCall)
          /\ <<CallFor("bubbled", On, Ev, About)>> \in Seq(DeliveryCall)
      BY <1>2, <1>5, <1>6, <1>9, <2>1 DEF Bubble
    <3> QED  BY <1>3, <1>10, <2>1, <3>1, <3>2 DEF Bubble
  <2>2. CASE Bubbled
    <3>1. IInv' /\ dragged' = dragged  BY <2>2, TreeStays DEF FrameInv, Bubbled
    <3>2. links.parent[On] # Null => links.parent[On] \in Canvas
      BY <1>2, LinksAreTyped DEF FrameInv, CanvasOrNull
    <3>3. links.parent[On] # Null =>
            <<CallFor("bubble", links.parent[On], Ev, About)>> \in Seq(DeliveryCall)
      BY <1>2, <1>5, <1>9, <2>2, <3>2 DEF Bubbled
    <3> QED  BY <1>3, <1>9, <2>2, <3>1, <3>3 DEF Bubbled
  <2>3. CASE InputDown
    <3>1. clicked' \in CanvasOrNull  BY <1>2, <1>7, <2>3 DEF InputDown
    <3>2. IInv' /\ dragged' = dragged
      BY <2>3, <3>1, ClickKeeps DEF FrameInv, InputDown
    <3> QED  BY <1>3, <1>9, <2>3, <3>2 DEF InputDown
  <2>4. CASE InputMove
    <3>1. IInv'  BY <2>4, TreeStays DEF FrameInv, InputMove
    <3>2. CASE clicked = Null
      BY <1>3, <1>9, <2>4, <3>1, <3>2 DEF InputMove
    <3>3. CASE clicked # Null
      <4> DEFINE over == CallFor("dragover", Target, 0, clicked)
                 last == CallOn("cursor", On)
                 drag == HandlerAbout("drag", clicked, Target)
      <4>1. clicked \in Canvas  BY <1>3, <3>3 DEF CanvasOrNull
      <4>2. over \in DeliveryCall /\ last \in DeliveryCall
        BY <1>2, <1>4, <1>7, <1>8, <4>1 DEF CallOn, InputName
      <4>3. drag \in Seq(DeliveryCall)
        BY <1>6, <1>7, <1>8, <4>1
      <4>4. dragged' = dragged \cup {clicked} /\ Rest(drag \o <<over, last>>)
        BY <2>4, <3>3 DEF InputMove
      <4> HIDE DEF over, last, drag
      <4>5. drag \o <<over, last>> \in Seq(DeliveryCall)
        BY <1>9, <1>10, <4>2, <4>3
      <4> QED  BY <1>3, <3>1, <4>1, <4>4, <4>5
    <3> QED  BY <3>2, <3>3
  <2>5. CASE InputUp
    <3>1. IInv' /\ dragged' = dragged  BY <2>5, TreeStays DEF FrameInv, InputUp
    <3> DEFINE drop == CallFor("drop", Target, 0, clicked)
               undrag == CallOn("undrag", clicked)
               last == CallOn("unclick", On)
               dragend == HandlerAbout("dragend", clicked, Target)
               end == IF clicked \notin dragged THEN <<>>
                      ELSE dragend \o <<drop, undrag>>
    <3>2. end \in Seq(DeliveryCall)
      <4>1. CASE clicked \notin dragged  BY <1>9, <4>1
      <4>2. CASE clicked \in dragged
        <5>1. clicked \in Canvas  BY <1>3, <4>2
        <5>2. drop \in DeliveryCall /\ undrag \in DeliveryCall
          BY <1>4, <1>7, <1>8, <5>1 DEF CallOn, InputName
        <5>3. dragend \in Seq(DeliveryCall)
          BY <1>6, <1>7, <1>8, <5>1
        <5> HIDE DEF drop, undrag, dragend
        <5> QED  BY <1>9, <1>10, <4>2, <5>2, <5>3
      <4> QED  BY <4>1, <4>2
    <3>3. Rest(end \o <<last>>)  BY <2>5 DEF InputUp
    <3>4. last \in DeliveryCall  BY <1>2, <1>4, <1>7 DEF CallOn, InputName
    <3> HIDE DEF end, last
    <3>5. end \o <<last>> \in Seq(DeliveryCall)
      BY <1>9, <1>10, <3>2, <3>4
    <3> QED  BY <1>3, <3>1, <3>3, <3>5
  <2>6. CASE Undrag
    BY <1>3, <1>9, <2>6, TreeStays DEF FrameInv, Undrag
  <2>7. CASE Unclick
    <3>1. clicked' \in CanvasOrNull /\ dragged' = dragged
      BY <2>7 DEF Unclick, CanvasOrNull
    <3>2. IInv'  BY <2>7, <3>1, ClickKeeps DEF FrameInv, Unclick
    <3> QED  BY <1>3, <1>9, <2>7, <3>1, <3>2 DEF Unclick
  <2>8. CASE Cursor
    BY <1>3, <1>9, <2>8, TreeStays DEF FrameInv, Cursor
  <2> QED  BY <2>1, <2>2, <2>3, <2>4, <2>5, <2>6, <2>7, <2>8
<1> QED  BY <1>1, <1>2, <1>11, CallGoesOn

\* A handler is called in the walk, or in the delivery of events.
LEMMA TopOfHandler ==
    ASSUME FrameInv, NEW event \in HandlerEvents, At(event)
    PROVE  /\ todo # <<>>
           /\ Head(todo) \in WalkCall \/ Head(todo) \in InputCall
<1>1. CASE event \in WalkName  BY <1>1, TopOfWalk
<1>2. CASE event \notin WalkName
  <2>1. event \in InputName \cup Mouse
    BY <1>2 DEF HandlerEvents, WalkName, InputName, Mouse
  <2> QED  BY <2>1, NamesDiffer, TopOfDelivery
<1> QED  BY <1>1, <1>2

LEMMA ObjectsKeep == ASSUME FrameInv, MakesObject  PROVE FrameInv'
<1>1. PICK event \in HandlerEvents : At(event)  BY DEF MakesObject
<1>2. UNCHANGED <<events, pending, lists, dragged, handled>> /\ IInv'
  BY TreeStays DEF FrameInv, MakesObject
<1>3. dragged' \subseteq Canvas  BY <1>2 DEF FrameInv, FrameTypes
<1> DEFINE call == CallFor(Head(todo).f, On, 1, About)
<1>4. Rest(<<call>>)  BY DEF MakesObject
<1>5. CASE Head(todo) \in WalkCall
  <2>1. call \in WalkCall  BY <1>5 DEF CallFor, On, About, WalkCall
  <2> HIDE DEF call
  <2>2. <<call>> \in Seq(WalkCall)  BY <2>1
  <2> QED  BY <1>1, <1>2, <1>3, <1>4, <1>5, <2>2, TopOfHandler, CallGoesOn
<1>6. CASE Head(todo) \in InputCall
  <2>1. call \in DeliveryCall /\ Head(todo) \in DeliveryCall
    BY <1>6 DEF CallFor, On, About, InputCall, DeliveryCall
  <2> HIDE DEF call
  <2>2. <<call>> \in Seq(DeliveryCall)  BY <2>1
  <2> QED  BY <1>1, <1>2, <1>3, <1>4, <2>1, <2>2, TopOfHandler, CallGoesOn
<1> QED  BY <1>1, <1>5, <1>6, TopOfHandler

LEMMA HandlersKeep == ASSUME FrameInv, Handles  PROVE FrameInv'
<1>1. PICK event \in HandlerEvents :
        /\ At(event)
        /\ \/ Rest(<<>>) /\ UNCHANGED treeVars
           \/ /\ \E call \in env.calls : call[1] = event /\ Changes(call[2])
              /\ UNCHANGED todo
  BY DEF Handles
<1>2. UNCHANGED <<events, pending, lists, dragged, handled>>  BY DEF Handles
<1>3. IInv'  BY <1>1, TreeStays, ChangesAreMoves DEF FrameInv
<1>4. pending' \in Seq(Mouse) /\ dragged' \subseteq Canvas
  BY <1>2 DEF FrameInv, FrameTypes
<1>5. CASE UNCHANGED todo  BY <1>2, <1>3, <1>4, <1>5, FrameStays
<1>6. CASE Rest(<<>>)
  <2>1. <<>> \in Seq(WalkCall) /\ <<>> \in Seq(DeliveryCall)  OBVIOUS
  <2>2. todo # <<>> /\ (Head(todo) \in WalkCall \/ Head(todo) \in DeliveryCall)
    BY <1>1, TopOfHandler DEF DeliveryCall
  <2> QED  BY <1>2, <1>3, <1>4, <1>6, <2>1, <2>2, CallGoesOn
<1> QED  BY <1>1, <1>5, <1>6

LEMMA ScriptsKeep ==
    ASSUME FrameInv,
           \/ CollectsInFrame \/ ScriptInLoop
           \/ \E type \in Mouse : PushEvent(type)
           \/ \E c \in Canvas : RequestPaint(c)
    PROVE  FrameInv'
<1>1. IInv'
  BY TreeStays, ChangesAreMoves, CollectionsKeep
  DEF FrameInv, CollectsInFrame, ScriptInLoop, PushEvent, RequestPaint
<1>2. UNCHANGED <<events, lists, handled, todo>>
  BY DEF CollectsInFrame, ScriptInLoop, PushEvent, RequestPaint, frameVars
<1>3. pending' \in Seq(Mouse)
  <2>1. pending \in Seq(Mouse)  BY DEF FrameInv, FrameTypes
  <2>2. pending' = pending \/ \E type \in Mouse : pending' = Append(pending, type)
    BY DEF CollectsInFrame, ScriptInLoop, PushEvent, RequestPaint, frameVars
  <2> QED  BY <2>1, <2>2, AppendProperties
<1>4. dragged' \subseteq Canvas
  BY DEF CollectsInFrame, ScriptInLoop, PushEvent, RequestPaint, frameVars,
         FrameInv, FrameTypes
<1> QED  BY <1>1, <1>2, <1>3, <1>4, FrameStays

LEMMA DrawnKeeps == ASSUME FrameInv, Drawn  PROVE FrameInv'
<1>1. PICK own \in Chosen(Len(events)) :
        /\ lists' = lists \o [k \in 1..Len(own) |->
                [handler |-> On, ev |-> own[k], depth |-> events[own[k]].depth + 1,
                 under |-> events[own[k]].through]]
        /\ events' = [i \in 1..Len(events) |->
                IF \A k \in DOMAIN own : own[k] # i THEN events[i]
                ELSE [type |-> events[i].type, depth |-> events[i].depth + 1,
                      through |-> On]]
  BY DEF Drawn
<1> DEFINE n == Len(events)
           copies == [k \in 1..Len(own) |->
                [handler |-> On, ev |-> own[k], depth |-> events[own[k]].depth + 1,
                 under |-> events[own[k]].through]]
           L == Len(lists)
           Mine(i) == \E k \in 1..Len(own) : own[k] = i
<1>2. todo # <<>> /\ Head(todo) \in WalkCall /\ On \in Canvas
  <2>1. At("layerize") \/ At("loaded")  BY DEF Drawn, Layerizes
  <2> QED  BY <2>1, TopOfWalk DEF WalkName
<1>3. IInv' /\ UNCHANGED <<pending, dragged, handled>>
  BY TreeStays DEF FrameInv, Drawn
<1>4. /\ events \in Seq(EventType) /\ lists \in Seq(CopyType) /\ n \in Nat /\ L \in Nat
      /\ \A i \in 1..n : events[i] \in EventType
      /\ \A j \in 1..L : lists[j] \in CopyType
  BY LenProperties, ElementOfSeq DEF FrameInv, FrameTypes
<1>5. /\ own \in Seq(1..n) /\ Len(own) \in Nat /\ DOMAIN own = 1..Len(own)
      /\ \A k, m \in 1..Len(own) : own[k] = own[m] => k = m
      /\ \A k \in 1..Len(own) : own[k] \in 1..n
  <2>1. PICK c \in 0..n : own \in [1..c -> 1..n]  BY <1>1 DEF Chosen
  <2>2. \A i, j \in DOMAIN own : i < j => own[i] < own[j]  BY <1>1 DEF Chosen
  <2>3. c \in Nat /\ DOMAIN own = 1..c  BY <1>4, <2>1
  <2>4. own \in Seq(1..n) /\ Len(own) = c  BY <2>1, <2>3
  <2>5. \A k, m \in 1..c : own[k] = own[m] => k = m
    <3> SUFFICES ASSUME NEW k \in 1..c, NEW m \in 1..c, k # m  PROVE own[k] # own[m]
      OBVIOUS
    <3>1. own[k] \in Int /\ own[m] \in Int  BY <1>4, <2>1
    <3>2. k < m \/ m < k  BY <2>3
    <3> QED  BY <2>2, <2>3, <3>1, <3>2
  <2> QED  BY <2>1, <2>3, <2>4, <2>5
<1>6. Building /\ \E calls \in Seq(WalkCall) : calls # <<>> /\ todo = calls \o ToTrigger
  BY <1>2, TopTellsThePhase, CallNames, NamesDiffer DEF FrameInv
<1>7. events' = [i \in 1..n |->
            IF ~Mine(i) THEN events[i]
            ELSE [type |-> events[i].type, depth |-> events[i].depth + 1, through |-> On]]
  BY <1>1, <1>5
<1>8. /\ copies \in Seq(CopyType) /\ Len(copies) = Len(own)
      /\ \A k \in 1..Len(own) :
            /\ copies[k].handler = On /\ copies[k].ev = own[k]
            /\ copies[k].depth = events[own[k]].depth + 1
  <2>1. \A k \in 1..Len(own) :
            [handler |-> On, ev |-> own[k], depth |-> events[own[k]].depth + 1,
             under |-> events[own[k]].through] \in CopyType
    BY <1>2, <1>4, <1>5 DEF CopyType, EventType
  <2> QED  BY <1>5, <2>1
<1>9. lists' = lists \o copies  BY <1>1
<1> HIDE DEF n, copies, L, Mine
<1>10. /\ lists' \in Seq(CopyType) /\ Len(lists') = L + Len(own)
       /\ \A j \in 1..L : lists'[j] = lists[j]
       /\ \A k \in 1..Len(own) : lists'[L + k] = copies[k]
  <2>1. /\ lists' \in Seq(CopyType) /\ Len(lists') = L + Len(own)
        /\ \A j \in 1..(L + Len(own)) :
             lists'[j] = IF j <= L THEN lists[j] ELSE copies[j - L]
    <3>1. /\ lists \o copies \in Seq(CopyType)
          /\ Len(lists \o copies) = Len(lists) + Len(copies)
          /\ \A j \in 1..(Len(lists) + Len(copies)) : (lists \o copies)[j] =
                IF j <= Len(lists) THEN lists[j] ELSE copies[j - Len(lists)]
      <4>1. lists \in Seq(CopyType) /\ copies \in Seq(CopyType)  BY <1>4, <1>8
      <4> QED  BY <4>1, ConcatProperties
    <3> QED  BY <1>8, <1>9, <3>1 DEF L
  <2>2. L \in Nat /\ Len(own) \in Nat  BY <1>4, <1>5
  <2>3. \A j \in 1..L : j \in 1..(L + Len(own)) /\ j <= L  BY <2>2
  <2>4. \A j \in 1..L : lists'[j] = lists[j]
    BY <2>1, <2>3
  <2>5. ASSUME NEW k \in 1..Len(own)  PROVE lists'[L + k] = copies[k]
    <3> DEFINE i == L + k
    <3>1. i \in 1..(L + Len(own)) /\ ~(i <= L) /\ i - L = k  BY <2>2
    <3> HIDE DEF i
    <3>2. lists'[i] = copies[i - L]  BY <2>1, <3>1
    <3> QED  BY <3>1, <3>2 DEF i
  <2> QED  BY <2>1, <2>4, <2>5
<1>11. /\ events' \in Seq(EventType) /\ Len(events') = n
       /\ \A i \in 1..n : /\ ~Mine(i) => events'[i] = events[i]
                          /\ Mine(i) => /\ events'[i].depth = events[i].depth + 1
                                        /\ events'[i].through = On
  <2>1. \A i \in 1..n :
            [type |-> events[i].type, depth |-> events[i].depth + 1, through |-> On]
                \in EventType
    BY <1>2, <1>4 DEF EventType, CanvasOrNull
  <2>2. \A i \in 1..n :
            (IF ~Mine(i) THEN events[i]
             ELSE [type |-> events[i].type, depth |-> events[i].depth + 1, through |-> On])
                \in EventType
    BY <1>4, <2>1
  <2>3. events' \in [1..n -> EventType]  BY <1>7, <2>2
  <2>4. events' \in Seq(EventType) /\ Len(events') = n  BY <1>4, <2>3
  <2> QED  BY <1>7, <2>4
<1>12. CopyType' = CopyType  BY <1>11 DEF CopyType, n
<1>13. FrameTypes'
  BY <1>3, <1>10, <1>11, <1>12 DEF FrameInv, FrameTypes, n
<1>14. \A i \in 1..n : events[i].depth \in Nat  BY <1>4 DEF EventType
<1>15. \A j \in 1..L : lists[j].depth \in Nat /\ lists[j].ev \in 1..n
  BY <1>4 DEF CopyType, n
<1>16. Unheard /\ \A j \in 1..L : lists[j].depth <= events[lists[j].ev].depth
  BY <1>6 DEF Building, Bounded, L
<1>17. \A j \in 1..Len(lists') :
            \/ j \in 1..L /\ lists'[j] = lists[j]
            \/ \E k \in 1..Len(own) : j = L + k /\ lists'[j] = copies[k]
  <2> SUFFICES ASSUME NEW j \in 1..Len(lists'), j \notin 1..L
               PROVE  \E k \in 1..Len(own) : j = L + k /\ lists'[j] = copies[k]
    BY <1>10
  <2>1. j - L \in 1..Len(own) /\ j = L + (j - L)  BY <1>4, <1>5, <1>10
  <2> QED  BY <1>10, <2>1
<1>18. Bounded'
  <2> SUFFICES ASSUME NEW j \in 1..Len(lists')
               PROVE  lists'[j].depth <= events'[lists'[j].ev].depth
    BY DEF Bounded
  <2>1. CASE j \in 1..L /\ lists'[j] = lists[j]
    <3> DEFINE e == lists[j].ev
    <3>1. e \in 1..n /\ lists[j].depth \in Nat /\ lists[j].depth <= events[e].depth
      BY <1>15, <1>16, <2>1
    <3> HIDE DEF e
    <3>2. events'[e].depth = events[e].depth \/ events'[e].depth = events[e].depth + 1
      BY <1>11, <3>1
    <3>3. lists[j].depth <= events'[e].depth  BY <1>14, <3>1, <3>2
    <3> QED  BY <2>1, <3>3 DEF e
  <2>2. ASSUME NEW k \in 1..Len(own), lists'[j] = copies[k]
        PROVE  lists'[j].depth <= events'[lists'[j].ev].depth
    <3>1. Mine(own[k]) /\ own[k] \in 1..n  BY <1>5 DEF Mine
    <3>2. /\ lists'[j].ev = own[k]
          /\ lists'[j].depth = events[own[k]].depth + 1
      BY <1>8, <2>2
    <3>3. events'[own[k]].depth = events[own[k]].depth + 1
      BY <1>11, <3>1
    <3>4. events[own[k]].depth + 1 \in Nat
      BY <1>14, <3>1
    <3> QED  BY <3>2, <3>3, <3>4
  <2> QED  BY <1>17, <2>1, <2>2
<1>19. EachHeardOnce'
  <2> SUFFICES ASSUME NEW i \in 1..n  PROVE HeardOnce(i)'
    BY <1>11 DEF EachHeardOnce
  <2>1. HeardOnce(i) /\ handled'[i] = <<>> /\ handled[i] = <<>>
    BY <1>3, <1>16 DEF FrameInv, EachHeardOnce, Unheard, n
  <2>2. CASE ~Mine(i)
    <3>1. events'[i] = events[i]  BY <1>11, <2>2
    <3>2. \A j \in 1..L : Final(j, i)' <=> Final(j, i)
      BY <1>10, <3>1 DEF Final
    <3>3. \A j \in 1..Len(lists') : Final(j, i)' => j \in 1..L
      BY <1>8, <1>17, <2>2 DEF Final, Mine
    <3>4. \A j \in 1..L : j \in 1..Len(lists') /\ lists'[j] = lists[j]
      BY <1>4, <1>5, <1>10
    <3>5. CASE events[i].through = Null
      BY <2>1, <3>1, <3>2, <3>3, <3>5 DEF HeardOnce, L
    <3>6. CASE events[i].through # Null
      <4>1. handled[i] # <<events[i].through>>  BY <2>1
      <4>2. PICK j \in 1..L : /\ Final(j, i) /\ lists[j].handler = events[i].through
                              /\ \A k \in 1..L : Final(k, i) => k = j
        BY <2>1, <3>6, <4>1 DEF HeardOnce, L
      <4>3. /\ j \in 1..Len(lists') /\ Final(j, i)'
            /\ lists'[j].handler = events'[i].through
            /\ \A k \in 1..Len(lists') : Final(k, i)' => k = j
        BY <3>1, <3>2, <3>3, <3>4, <4>2
      <4> QED  BY <2>1, <3>1, <3>6, <4>3 DEF HeardOnce
    <3> QED  BY <3>5, <3>6
  <2>3. CASE Mine(i)
    <3>1. PICK k \in 1..Len(own) : own[k] = i  BY <2>3 DEF Mine
    <3>2. events'[i].depth = events[i].depth + 1 /\ events'[i].through = On
      BY <1>11, <2>3
    <3>3. \A j \in 1..L : ~Final(j, i)'
      <4> SUFFICES ASSUME NEW j \in 1..L, Final(j, i)'  PROVE FALSE
        OBVIOUS
      <4>1. lists[j].ev = i /\ lists[j].depth = events[i].depth + 1
        BY <1>10, <3>2 DEF Final
      <4>2. lists[j].depth <= events[i].depth  BY <1>16, <4>1
      <4> QED  BY <1>14, <4>1, <4>2
    <3>4. PICK j0 \in 1..Len(lists') : j0 = L + k /\ lists'[j0] = copies[k]
      <4>1. L + k \in 1..Len(lists') /\ lists'[L + k] = copies[k]
        BY <1>4, <1>5, <1>10
      <4> QED  BY <4>1
    <3>5. /\ lists'[j0].ev = i /\ lists'[j0].depth = events'[i].depth
          /\ lists'[j0].handler = On
      BY <1>8, <3>1, <3>2, <3>4
    <3>6. Final(j0, i)'  BY <3>5 DEF Final
    <3>7. ASSUME NEW j \in 1..Len(lists'), Final(j, i)'  PROVE j = j0
      <4>1. PICK m \in 1..Len(own) : j = L + m /\ lists'[j] = copies[m]
        BY <1>17, <3>3, <3>7
      <4>2. own[m] = i  BY <1>8, <3>7, <4>1 DEF Final
      <4> QED  BY <1>5, <3>1, <3>4, <4>1, <4>2
    <3>8. On # Null  BY <1>2, CanvasAssumption
    <3>9. /\ events'[i].through # Null
          /\ Final(j0, i)' /\ lists'[j0].handler = events'[i].through
          /\ \A j \in 1..Len(lists') : Final(j, i)' => j = j0
      BY <3>2, <3>5, <3>6, <3>7, <3>8
    <3> QED  BY <2>1, <3>4, <3>9 DEF HeardOnce
  <2> QED  BY <2>2, <2>3
<1>20. Building'
  <2> DEFINE before == IF On \in needPaint THEN Handler("paint", On) ELSE <<>>
  <2>1. before \in Seq(WalkCall)  BY <1>2, HandlerCalls
  <2>2. CallOn("painted", On) \in WalkCall
    BY <1>2 DEF CallOn, CallFor, WalkCall, WalkName
  <2>3. Rest(before \o <<CallOn("painted", On)>>)  BY DEF Drawn
  <2> HIDE DEF before
  <2>4. <<CallOn("painted", On)>> \in Seq(WalkCall)  BY <2>2
  <2>5. before \o <<CallOn("painted", On)>> \in Seq(WalkCall)
    BY <2>1, <2>4, ConcatProperties
  <2>6. PICK calls \in Seq(WalkCall) : calls # <<>> /\ todo = calls \o ToTrigger
    BY <1>6
  <2>7. \E after \in Seq(WalkCall) : todo' = after \o ToTrigger
    BY <2>3, <2>5, <2>6, Ends3, RestInFront
  <2>8. Unheard'  BY <1>3, <1>11, <1>16 DEF Unheard, n
  <2> QED  BY <1>18, <2>7, <2>8 DEF Building
<1> QED  BY <1>3, <1>13, <1>19, <1>20 DEF FrameInv, Phases

LEMMA TriggerKeeps == ASSUME FrameInv, Trigger  PROVE FrameInv'
<1>1. /\ At("trigger") /\ IInv'
      /\ UNCHANGED <<events, pending, dragged>>
  BY TreeStays DEF FrameInv, Trigger
<1>2. todo = ToClear /\ todo # <<>> /\ Tail(todo) = <<Call("clear")>>
  BY <1>1, TopTellsThePhase, CallNames, NamesDiffer, Ends3 DEF FrameInv, At
<1>3. CASE lists = <<>>
  <2>1. UNCHANGED <<lists, handled>> /\ todo' = <<>> \o <<Call("clear")>>
    BY <1>2, <1>3 DEF Trigger, Rest
  <2>2. <<Call("clear")>> \in Seq(EndCall)  BY DEF EndCall
  <2>3. todo' = <<Call("clear")>>  BY <2>1, <2>2, ConcatEmptySeq
  <2>4. FrameTypes'  BY <1>1, <2>1 DEF FrameInv, FrameTypes, CopyType
  <2>5. EachHeardOnce'  BY <1>1, <2>1, HeardStays DEF FrameInv
  <2> QED  BY <1>1, <1>3, <2>1, <2>3, <2>4, <2>5 DEF FrameInv, Phases
<1>4. CASE lists # <<>>
  <2> DEFINE copy == lists[1]
             L == Len(lists)
             final == copy.depth = events[copy.ev].depth
             calls == <<CallFor("bubble", copy.handler, copy.ev, copy.handler),
                        CallFor("input", copy.handler, copy.ev, copy.under)>>
  <2>1. /\ events \in Seq(EventType) /\ lists \in Seq(CopyType) /\ L \in Nat \ {0}
        /\ handled \in Seq(Seq(Canvas)) /\ Len(handled) = Len(events)
    BY <1>4, LenProperties, EmptySeq DEF FrameInv, FrameTypes
  <2>2. /\ Head(lists) = copy /\ copy \in CopyType
        /\ Tail(lists) \in Seq(CopyType) /\ Len(Tail(lists)) = L - 1
        /\ \A j \in 1..(L - 1) : Tail(lists)[j] = lists[j + 1]
    BY <1>4, <2>1, HeadTailProperties
  <2>3. /\ copy.handler \in Canvas /\ copy.ev \in 1..Len(events)
        /\ copy.under \in CanvasOrNull
    BY <2>2 DEF CopyType
  <2>4. /\ lists' = Tail(lists)
        /\ final => /\ handled' = [handled EXCEPT ![copy.ev] =
                                        Append(handled[copy.ev], copy.handler)]
                    /\ todo' = calls \o todo
        /\ ~final => UNCHANGED <<todo, handled>>
    BY <1>4, <2>2 DEF Trigger
  <2>5. calls \in Seq(DeliveryCall)
    <3>1. CallFor("bubble", copy.handler, copy.ev, copy.handler) \in EventCall
          /\ CallFor("input", copy.handler, copy.ev, copy.under) \in EventCall
      BY <2>3 DEF CallFor, EventCall, CanvasOrNull
    <3> HIDE DEF copy
    <3> QED  BY <3>1 DEF DeliveryCall
  <2> HIDE DEF calls, copy, L, final
  <2>6. DeliveryCall' = DeliveryCall /\ CopyType' = CopyType
    BY <1>1 DEF DeliveryCall, EventCall, InputCall, CopyType
  <2>7. Delivering'
    <3>1. CASE final  BY <1>2, <2>4, <2>5, <2>6, <3>1 DEF Delivering
    <3>2. CASE ~final
      <4>1. todo' = <<>> \o ToClear  BY <1>2, <2>4, <3>2, Ends3, ConcatEmptySeq
      <4>2. <<>> \in Seq(DeliveryCall')  OBVIOUS
      <4> QED  BY <4>1, <4>2 DEF Delivering
    <3> QED  BY <3>1, <3>2
  <2>8. /\ handled' \in Seq(Seq(Canvas)) /\ Len(handled') = Len(events)
        /\ \A i \in 1..Len(events) : i # copy.ev \/ ~final => handled'[i] = handled[i]
        /\ final => handled'[copy.ev] = Append(handled[copy.ev], copy.handler)
    <3>1. CASE ~final  BY <2>1, <2>4, <3>1
    <3>2. CASE final
      <4>1. handled[copy.ev] \in Seq(Canvas)  BY <2>1, <2>3, ElementOfSeq
      <4>2. Append(handled[copy.ev], copy.handler) \in Seq(Canvas)
        BY <2>3, <4>1, AppendProperties
      <4> DEFINE v == Append(handled[copy.ev], copy.handler)
                 e == copy.ev
      <4>3. handled' = [handled EXCEPT ![e] = v] /\ e \in 1..Len(handled)
            /\ v \in Seq(Canvas) /\ e = copy.ev
        BY <2>1, <2>3, <2>4, <3>2, <4>2
      <4> HIDE DEF v, e
      <4>4. /\ handled' \in Seq(Seq(Canvas)) /\ Len(handled') = Len(handled)
            /\ \A i \in 1..Len(handled) : handled'[i] = IF i = e THEN v ELSE handled[i]
        BY <2>1, <4>3, ExceptSeq
      <4> QED  BY <2>1, <3>2, <4>3, <4>4 DEF v
    <3> QED  BY <3>1, <3>2
  <2>9. FrameTypes'
    BY <1>1, <2>1, <2>2, <2>4, <2>6, <2>8 DEF FrameInv, FrameTypes
  <2>10. /\ Len(lists') = L - 1 /\ \A j \in 1..(L - 1) : lists'[j] = lists[j + 1]
         /\ 1 \in 1..L
    BY <2>1, <2>2, <2>4
  <2>11. EachHeardOnce'
    <3> SUFFICES ASSUME NEW i \in 1..Len(events)  PROVE HeardOnce(i)'
      BY <1>1 DEF EachHeardOnce
    <3>1. HeardOnce(i)  BY DEF FrameInv, EachHeardOnce
    <3>2. \A j \in 1..(L - 1) : Final(j, i)' <=> Final(j + 1, i)
      BY <1>1, <2>10 DEF Final
    <3>3. \A j \in 1..L : j # 1 => j - 1 \in 1..(L - 1) /\ (j - 1) + 1 = j
      BY <2>1
    <3>4. \A j \in 1..(L - 1) : j + 1 \in 1..L /\ j + 1 # 1
      BY <2>1
    <3>5. Final(1, i) <=> copy.ev = i /\ final
      BY DEF Final, copy, final
    <3>6. CASE copy.ev = i /\ final
      <4>1. /\ events[i].through # Null /\ handled[i] = <<>>
            /\ copy.handler = events[i].through
            /\ \A k \in 1..L : Final(k, i) => k = 1
        BY <2>10, <3>1, <3>5, <3>6 DEF HeardOnce, L, copy
      <4>2. handled'[i] = <<events'[i].through>>
        BY <1>1, <2>8, <3>6, <4>1
      <4>3. \A j \in 1..(L - 1) : ~Final(j, i)'
        BY <3>2, <3>4, <4>1
      <4> QED  BY <1>1, <2>10, <4>1, <4>2, <4>3 DEF HeardOnce
    <3>7. CASE ~(copy.ev = i /\ final)
      <4>1. handled'[i] = handled[i] /\ events'[i] = events[i] /\ ~Final(1, i)
        BY <1>1, <2>8, <3>5, <3>7
      <4>2. CASE \A j \in 1..L : ~Final(j, i)
        <5>1. \A j \in 1..(L - 1) : ~Final(j, i)'  BY <3>2, <3>4, <4>2
        <5>2. ~(\E j \in 1..L : Final(j, i))  BY <4>2
        <5> QED  BY <2>10, <3>1, <4>1, <5>1, <5>2 DEF HeardOnce, L
      <4>3. ASSUME NEW j \in 1..L, Final(j, i)  PROVE HeardOnce(i)'
        <5>1. /\ events[i].through # Null /\ handled[i] = <<>>
              /\ lists[j].handler = events[i].through
              /\ \A k \in 1..L : Final(k, i) => k = j
          BY <3>1, <4>3 DEF HeardOnce, L
        <5> DEFINE j1 == j - 1
        <5>2. j # 1 /\ j1 \in 1..(L - 1) /\ j1 + 1 = j
          BY <3>3, <4>1, <4>3
        <5> HIDE DEF j1
        <5>3. Final(j1, i)' /\ lists'[j1].handler = events'[i].through
          BY <2>10, <3>2, <4>1, <4>3, <5>1, <5>2
        <5>4. \A k \in 1..(L - 1) : Final(k, i)' => k = j1
          <6> SUFFICES ASSUME NEW k \in 1..(L - 1), Final(k, i)'  PROVE k = j1
            OBVIOUS
          <6>1. k + 1 = j  BY <3>2, <3>4, <5>1
          <6> QED  BY <2>1, <5>2, <6>1
        <5> QED  BY <2>10, <4>1, <5>1, <5>2, <5>3, <5>4 DEF HeardOnce
      <4> QED  BY <4>2, <4>3
    <3> QED  BY <3>6, <3>7
  <2> QED  BY <1>1, <2>7, <2>9, <2>11 DEF FrameInv, Phases
<1> QED  BY <1>3, <1>4

LEMMA ClearKeeps == ASSUME FrameInv, Clear  PROVE FrameInv'
<1>1. /\ IInv' /\ UNCHANGED <<lists, dragged>> /\ pending' = <<>>
      /\ events' = [i \in DOMAIN pending |-> Fresh(pending[i])]
      /\ handled' = [i \in DOMAIN pending |-> <<>>]
  BY TreeStays DEF FrameInv, Clear
<1>2. Tail(todo) = <<>> /\ lists = <<>>
  BY TopTellsThePhase, CallNames, NamesDiffer DEF FrameInv, Clear, At
<1>3. todo' = <<>>
  <2>1. todo' = <<>> \o <<>>  BY <1>2 DEF Clear, Rest
  <2>2. <<>> \in Seq(WalkCall)  OBVIOUS
  <2> QED  BY <2>1, <2>2, ConcatEmptySeq
<1>4. pending \in Seq(Mouse) /\ Len(pending) \in Nat /\ DOMAIN pending = 1..Len(pending)
      /\ \A i \in 1..Len(pending) : pending[i] \in Mouse
  BY LenProperties, ElementOfSeq DEF FrameInv, FrameTypes
<1>5. \A i \in 1..Len(pending) : Fresh(pending[i]) \in EventType
  BY <1>4 DEF Fresh, EventType, CanvasOrNull
<1>6. /\ events' \in Seq(EventType) /\ Len(events') = Len(pending)
      /\ \A i \in 1..Len(pending) : events'[i] = Fresh(pending[i])
  BY <1>1, <1>4, <1>5
<1>7. /\ handled' \in Seq(Seq(Canvas)) /\ Len(handled') = Len(pending)
      /\ \A i \in 1..Len(pending) : handled'[i] = <<>>
  <2>1. <<>> \in Seq(Canvas)  OBVIOUS
  <2>2. handled' \in [1..Len(pending) -> Seq(Canvas)]  BY <1>1, <1>4, <2>1
  <2> QED  BY <1>1, <1>4, <2>2
<1>8. lists' = <<>> /\ lists' \in Seq(CopyType') /\ Len(lists') = 0
  BY <1>1, <1>2, EmptySeq
<1>9. FrameTypes'
  BY <1>1, <1>6, <1>7, <1>8 DEF FrameInv, FrameTypes
<1>10. EachHeardOnce'
  <2> SUFFICES ASSUME NEW i \in 1..Len(events')  PROVE HeardOnce(i)'
    BY DEF EachHeardOnce
  <2>0. i \in 1..Len(pending) /\ events'[i] = Fresh(pending[i])  BY <1>6
  <2>1. events'[i].through = Null  BY <2>0 DEF Fresh
  <2> QED  BY <1>6, <1>7, <1>8, <2>1 DEF HeardOnce
<1>11. Unheard'  BY <1>6, <1>7 DEF Unheard
<1> QED  BY <1>1, <1>3, <1>8, <1>9, <1>10, <1>11 DEF FrameInv, Phases
-----------------------------------------------------------------------------
LEMMA FrameInitially == FrameInit => FrameInv
<1> SUFFICES ASSUME FrameInit  PROVE FrameInv
  OBVIOUS
<1>1. IInv  BY InitIsWhole DEF FrameInit
<1>2. /\ events = <<>> /\ lists = <<>> /\ handled = <<>> /\ pending = <<>> /\ todo = <<>>
      /\ dragged = {}
  BY DEF FrameInit
<1>3. FrameTypes  BY <1>2, EmptySeq DEF FrameTypes
<1>4. EachHeardOnce /\ Unheard  BY <1>2, EmptySeq DEF EachHeardOnce, Unheard
<1> QED  BY <1>1, <1>2, <1>3, <1>4 DEF FrameInv, Phases

LEMMA FrameStep == FrameInv /\ [FrameNext]_vars => FrameInv'
<1>1. ASSUME FrameInv, UNCHANGED vars  PROVE FrameInv'
  <2>1. UNCHANGED <<treeVars, events, lists, handled, todo, pending, dragged>>
    BY <1>1 DEF vars, frameVars
  <2>2. IInv'  BY <1>1, <2>1, TreeStays DEF FrameInv
  <2> QED  BY <1>1, <2>1, <2>2, FrameStays DEF FrameInv, FrameTypes
<1> QED
  BY <1>1, FrameBegins, WalkGoesOn, DrawnKeeps, ComposeKeeps, TriggerKeeps,
     DeliveryGoesOn, ClearKeeps, ObjectsKeep, HandlersKeep, ScriptsKeep
  DEF FrameNext

\* The inductive invariant of the frames of a window.
THEOREM FrameInvariance == FrameSpec => []FrameInv
BY FrameInitially, FrameStep, PTL DEF FrameSpec

\* An event of the mouse is handled once, by the canvas that was drawn last of
\* those it is inside (dispatchMouseEvents(), triggerEvents()), whatever
\* handlers do to the tree while it is walked, for any number of canvases and
\* of events, and any handlers.
THEOREM TopmostHandles == FrameSpec => []TopmostHandlesOnce
<1>1. FrameInv => TopmostHandlesOnce
  <2> SUFFICES ASSUME FrameInv, At("clear")  PROVE TopmostHandlesOnce
    BY DEF TopmostHandlesOnce
  <2>1. lists = <<>>  BY TopTellsThePhase, CallNames, NamesDiffer DEF FrameInv, At
  <2>2. DOMAIN events = 1..Len(events) /\ Len(lists) = 0
    BY <2>1, LenProperties, EmptySeq DEF FrameInv, FrameTypes
  <2>3. ASSUME NEW i \in 1..Len(events)
        PROVE  handled[i] = IF events[i].through = Null THEN <<>>
                            ELSE <<events[i].through>>
    <3>1. HeardOnce(i)  BY DEF FrameInv, EachHeardOnce
    <3> QED  BY <2>2, <3>1 DEF HeardOnce
  <2> QED  BY <2>2, <2>3 DEF TopmostHandlesOnce
<1> QED  BY <1>1, FrameInvariance, PTL

\* The tree stays whole when handlers change it in the middle of a frame, and
\* while events are delivered.
THEOREM WholeInFrames == FrameSpec => [](TreeIsWhole /\ NamesAreLive)
<1>1. FrameInv => TreeIsWhole /\ NamesAreLive
  BY DEF FrameInv, IInv, Whole, Alone, Nexts, Prevs, Firsts, Lasts, Ends, Told,
         ParentsLive, TreeIsWhole, LinksAgree, TreeIsAlive
<1> QED  BY <1>1, FrameInvariance, PTL

LEMMA FrameMoves ==
    ASSUME IInv, [FrameNext]_vars
    PROVE  Next \/ UNCHANGED links
<1>1. ASSUME NEW call, Changes(call)  PROVE Next
  BY <1>1 DEF IInv, TypeOK, Changes, Next, Moves
<1>2. Handles => Next \/ UNCHANGED links
  BY <1>1 DEF Handles, treeVars
<1>3. CollectsInFrame \/ ScriptInLoop => Next \/ UNCHANGED links
  BY <1>1 DEF CollectsInFrame, ScriptInLoop, Next
<1>4. Frame \/ Descend \/ NextSibling \/ Loads \/ NotDrawn \/ Drawn \/ Painted
      \/ Compose \/ Trigger => UNCHANGED links
  BY DEF Frame, Descend, NextSibling, Loads, NotDrawn, Drawn, Painted, Compose,
         Trigger, treeVars
<1>5. Bubble \/ Bubbled \/ InputDown \/ InputMove \/ InputUp \/ Undrag \/ Unclick
      \/ Cursor \/ Clear \/ MakesObject => UNCHANGED links
  BY DEF Bubble, Bubbled, InputDown, InputMove, InputUp, Undrag, Unclick, Cursor,
         Clear, MakesObject, treeVars
<1>6. /\ \A type \in Mouse : PushEvent(type) => UNCHANGED links
      /\ \A c \in Canvas : RequestPaint(c) => UNCHANGED links
  BY DEF PushEvent, RequestPaint, treeVars
<1>7. UNCHANGED vars => UNCHANGED links
  BY DEF vars, treeVars
<1> QED  BY <1>2, <1>3, <1>4, <1>5, <1>6, <1>7 DEF FrameNext

\* The operations on the tree do to the order of the children what those of
\* CanvasTree with their names and arguments do, in the middle of a frame and
\* while events are delivered, too.
THEOREM OrderInFrames == FrameSpec => KeepsOrder
<1>1. IInv /\ InOrder /\ [FrameNext]_vars =>
        InOrder' /\ [TreeInOrder!Next]_(Listed(links))
  BY FrameMoves, TreeStep
<1>2. FrameInit => InOrder /\ TreeInOrder!Init
  BY OrderInitially DEF FrameInit
<1>3. FrameInv => IInv
  BY DEF FrameInv
<1>4. IInv /\ InOrder => [links' # links => AsNamed]_links
  BY EachIsNamed
<1> QED  BY <1>1, <1>2, <1>3, <1>4, FrameInvariance, PTL
         DEF FrameSpec, KeepsOrder, TreeInOrder!Spec
-----------------------------------------------------------------------------
(* The events of an object. *)

FireCall == [name : Name, on : Events \cup {NoEvents}, at : 0..MaxListeners,
         due : 0..MaxListeners]

JSEvent == [listeners : 0..MaxListeners, tmp : 0..MaxListeners,
            isFiring : BOOLEAN, deleteAfterFire : BOOLEAN]

\* The table names what exists, has listeners and is not about to be deleted,
\* and names it once.
TableInv ==
    /\ \A n \in Name : table[n] # NoEvents =>
          /\ state[table[n]] = "alive" /\ ~fields[table[n]].deleteAfterFire
          /\ fields[table[n]].listeners > 0
    /\ \A n, m \in Name : table[n] # NoEvents /\ table[n] = table[m] => n = m
    /\ \A e \in Events : state[e] = "new" => ~fields[e].deleteAfterFire

\* The call i fires e, alone, and knows which listener is next, or that all
\* that were there have been called.
Exact(e, i) ==
    /\ state[e] = "alive" /\ fields[e].isFiring
    /\ stack[i].due <= fields[e].listeners
    /\ \/ fields[e].tmp = stack[i].at + 1
       \/ fields[e].tmp = 0 /\ stack[i].at >= stack[i].due
FiringInv ==
    \A e \in Events \ again : \A i \in 1..Len(stack) : stack[i].on = e =>
        /\ Exact(e, i)
        /\ \A j \in 1..Len(stack) : stack[j].on = e => j = i

EventsIInv ==
    /\ EventsTypeOK /\ stack \in Seq(FireCall)
    /\ TableInv /\ FiringInv /\ RemovedIsNotUsed

\* A change of the fields of e.
LEMMA EventsSet ==
    ASSUME EventsTypeOK, NEW e \in Events, NEW v \in JSEvent,
           fields' = [fields EXCEPT ![e] = v]
    PROVE  /\ fields' \in [Events -> JSEvent]
           /\ fields'[e] = v /\ \A x \in Events \ {e} : fields'[x] = fields[x]
BY DEF EventsTypeOK, JSEvent

\* What a call that is pushed does to the stack, and the return of the innermost.
LEMMA EventsPush ==
    ASSUME NEW s \in Seq(FireCall), NEW c \in FireCall
    PROVE  /\ <<c>> \o s \in Seq(FireCall) /\ Len(<<c>> \o s) = Len(s) + 1
           /\ (<<c>> \o s)[1] = c
           /\ \A i \in 2..(Len(s) + 1) : (<<c>> \o s)[i] = s[i - 1]
<1>1. <<c>> \in Seq(FireCall) /\ Len(<<c>>) = 1 /\ <<c>>[1] = c  OBVIOUS
<1>2. Len(s) \in Nat  BY LenProperties
<1> QED  BY <1>1, <1>2, ConcatProperties

LEMMA EventsPop ==
    ASSUME NEW s \in Seq(FireCall), s # <<>>
    PROVE  /\ Head(s) = s[1] /\ Head(s) \in FireCall /\ Len(s) \in Nat \ {0}
           /\ Tail(s) \in Seq(FireCall) /\ Len(Tail(s)) = Len(s) - 1
           /\ \A i \in 1..(Len(s) - 1) : Tail(s)[i] = s[i + 1]
BY HeadTailProperties, EmptySeq

LEMMA EventsInitially == EventsInit => EventsIInv
<1> SUFFICES ASSUME EventsInit PROVE EventsIInv  OBVIOUS
<1> USE EventsAssumption
<1>1. stack \in Seq(FireCall) /\ Len(stack) = 0 /\ stack = <<>>
  BY EmptySeq DEF EventsInit
<1>2. \A i \in DOMAIN stack : stack[i] \in FireCall  BY <1>1
<1>3. Empty \in JSEvent  BY DEF Empty, JSEvent
<1>4. EventsTypeOK
  <2>1. fields \in [Events -> JSEvent]  BY <1>3 DEF EventsInit
  <2>2. /\ table \in [Name -> Events \cup {NoEvents}]
        /\ state \in [Events -> {"new", "alive", "freed"}]
        /\ again = {} /\ misused = {} /\ hangs \in BOOLEAN
    BY DEF EventsInit
  <2> QED  BY <1>1, <1>2, <2>1, <2>2 DEF EventsTypeOK, JSEvent, FireCall
<1>5. TableInv  BY DEF EventsInit, TableInv, Empty
<1>6. FiringInv  BY <1>1 DEF FiringInv
<1>7. RemovedIsNotUsed  BY DEF EventsInit, RemovedIsNotUsed
<1> QED  BY <1>1, <1>4, <1>5, <1>6, <1>7 DEF EventsIInv

\* What does not touch the stack keeps it exact when no JSEvents that is fired
\* alone is freed, or loses listeners.
LEMMA EventsSameStack ==
    ASSUME EventsIInv, UNCHANGED <<stack, again>>,
           \A e \in Events \ again : state[e] = "alive" /\ fields[e].isFiring =>
              /\ state'[e] = "alive" /\ fields'[e].isFiring
              /\ fields'[e].tmp = fields[e].tmp
              /\ fields'[e].listeners \in Nat
              /\ fields'[e].listeners >= fields[e].listeners
    PROVE  FiringInv'
<1>1. stack \in Seq(FireCall) /\ fields \in [Events -> [listeners : 0..MaxListeners,
         tmp : 0..MaxListeners, isFiring : BOOLEAN, deleteAfterFire : BOOLEAN]]
  BY DEF EventsIInv, EventsTypeOK
<1> SUFFICES ASSUME NEW e \in Events \ again, NEW i \in 1..Len(stack), stack[i].on = e
             PROVE  Exact(e, i)'
                    /\ \A j \in 1..Len(stack) : stack[j].on = e => j = i
  BY DEF FiringInv
<1>2. Exact(e, i) /\ \A j \in 1..Len(stack) : stack[j].on = e => j = i
  BY DEF EventsIInv, FiringInv
<1>3. stack[i] \in FireCall  BY <1>1, ElementOfSeq
<1>4. stack[i].due \in 0..MaxListeners /\ fields[e].listeners \in 0..MaxListeners
  BY <1>1, <1>3 DEF FireCall
<1>5. Exact(e, i)'  BY <1>2, <1>4, EventsAssumption DEF Exact
<1> QED  BY <1>2, <1>5

LEMMA EventsAdd ==
    ASSUME EventsIInv, NEW n \in Name, AddListener(n)  PROVE EventsIInv'
<1> USE EventsAssumption
<1> DEFINE e == IF table[n] # NoEvents THEN table[n]
                ELSE CHOOSE x \in Events : state[x] = "new"
           v == [fields[e] EXCEPT !.listeners = fields[e].listeners + 1]
<1>1. EventsTypeOK /\ stack \in Seq(FireCall) /\ TableInv /\ RemovedIsNotUsed
  BY DEF EventsIInv
<1>2. e \in Events /\ (table[n] = e \/ (table[n] = NoEvents /\ state[e] = "new"))
  BY <1>1 DEF AddListener, EventsTypeOK
<1>3. /\ fields[e].listeners < MaxListeners
      /\ state' = [state EXCEPT ![e] = "alive"]
      /\ table' = [table EXCEPT ![n] = e]
      /\ fields' = [fields EXCEPT ![e] = v]
      /\ UNCHANGED <<stack, again, misused, hangs>>
  BY DEF AddListener
<1> HIDE DEF e
<1>4. /\ fields[e] \in JSEvent /\ ~fields[e].deleteAfterFire
      /\ fields[e].listeners \in Nat
  BY <1>1, <1>2 DEF EventsTypeOK, TableInv, JSEvent
<1>5. /\ v \in JSEvent /\ v.tmp = fields[e].tmp /\ v.isFiring = fields[e].isFiring
      /\ v.deleteAfterFire = fields[e].deleteAfterFire
      /\ v.listeners = fields[e].listeners + 1
  BY <1>3, <1>4 DEF JSEvent
<1> HIDE DEF v
<1>6. /\ fields' \in [Events -> JSEvent] /\ fields'[e] = v
      /\ \A x \in Events \ {e} : fields'[x] = fields[x]
  BY <1>1, <1>2, <1>3, <1>5, EventsSet
<1>7. EventsTypeOK'
  BY <1>1, <1>2, <1>3, <1>6 DEF EventsTypeOK, JSEvent
<1>8. TableInv'
  BY <1>1, <1>2, <1>3, <1>4, <1>5, <1>6 DEF EventsTypeOK, TableInv
<1>9. \A x \in Events : fields[x].listeners \in Nat /\ fields'[x].listeners \in Nat
  BY <1>1, <1>6 DEF EventsTypeOK, JSEvent
<1>10. FiringInv'
  <2>1. \A x \in Events : state[x] = "alive" =>
          /\ state'[x] = "alive" /\ fields'[x].isFiring = fields[x].isFiring
          /\ fields'[x].tmp = fields[x].tmp
          /\ fields'[x].listeners >= fields[x].listeners
    BY <1>1, <1>2, <1>3, <1>4, <1>5, <1>6, <1>9 DEF EventsTypeOK
  <2> QED  BY <1>3, <1>9, <2>1, EventsSameStack
<1> QED  BY <1>1, <1>3, <1>7, <1>8, <1>10 DEF EventsIInv, RemovedIsNotUsed

LEMMA EventsRemove ==
    ASSUME EventsIInv, NEW n \in Name, RemoveAll(n)  PROVE EventsIInv'
<1> USE EventsAssumption
<1> DEFINE e == table[n]
           v == [fields[e] EXCEPT !.deleteAfterFire = TRUE]
<1>1. EventsTypeOK /\ stack \in Seq(FireCall) /\ TableInv /\ RemovedIsNotUsed
  BY DEF EventsIInv
<1>2. e \in Events /\ e # NoEvents  BY <1>1 DEF RemoveAll, EventsTypeOK
<1>3. /\ table' = [table EXCEPT ![n] = NoEvents]
      /\ UNCHANGED <<stack, again, misused, hangs>>
      /\ \/ /\ fields[e].isFiring /\ state' = state
            /\ fields' = [fields EXCEPT ![e] = v]
         \/ /\ ~fields[e].isFiring /\ fields' = fields
            /\ state' = [state EXCEPT ![e] = "freed"]
  BY DEF RemoveAll, RemoveEvents
<1>4. \A m \in Name \ {n} : table[m] # e
  BY <1>1, <1>2 DEF TableInv
<1>5. fields[e] \in JSEvent /\ state[e] = "alive"
  BY <1>1, <1>2 DEF EventsTypeOK, TableInv, JSEvent
<1>6. /\ v \in JSEvent /\ v.tmp = fields[e].tmp /\ v.isFiring = fields[e].isFiring
      /\ v.listeners = fields[e].listeners
  BY <1>5 DEF JSEvent
<1>7. table[n] = e  OBVIOUS
<1> HIDE DEF e, v
<1>8. fields' \in [Events -> JSEvent]
      /\ \A x \in Events : fields'[x] = fields[x] \/ (x = e /\ fields'[x] = v)
  BY <1>1, <1>2, <1>3, <1>6, EventsSet DEF EventsTypeOK, JSEvent
<1>9. EventsTypeOK'
  BY <1>1, <1>2, <1>3, <1>8 DEF EventsTypeOK, JSEvent
<1>10. TableInv'
  <2>1. \A m \in Name : table'[m] # NoEvents =>
            m # n /\ table'[m] = table[m] /\ table[m] # e
    BY <1>1, <1>3, <1>4 DEF EventsTypeOK
  <2>2. \A x \in Events \ {e} : state'[x] = state[x] /\ fields'[x] = fields[x]
    BY <1>1, <1>2, <1>3, <1>8 DEF EventsTypeOK
  <2>3. state'[e] # "new"
    BY <1>1, <1>2, <1>3, <1>5 DEF EventsTypeOK
  <2>4. \A m \in Name : table'[m] # NoEvents =>
          /\ table'[m] \in Events \ {e} /\ table'[m] = table[m]
          /\ state'[table'[m]] = "alive" /\ ~fields'[table'[m]].deleteAfterFire
          /\ fields'[table'[m]].listeners > 0
    BY <1>1, <2>1, <2>2 DEF EventsTypeOK, TableInv
  <2>5. \A m, k \in Name : table'[m] # NoEvents /\ table'[m] = table'[k] => m = k
    BY <1>1, <2>4 DEF TableInv
  <2>6. \A x \in Events : state'[x] = "new" => ~fields'[x].deleteAfterFire
    BY <1>1, <2>2, <2>3 DEF TableInv
  <2> QED  BY <2>4, <2>5, <2>6 DEF TableInv
<1>11. FiringInv'
  <2>1. \A x \in Events : state[x] = "alive" /\ fields[x].isFiring =>
          /\ state'[x] = "alive" /\ fields'[x].isFiring = fields[x].isFiring
          /\ fields'[x].tmp = fields[x].tmp
          /\ fields'[x].listeners = fields[x].listeners
    BY <1>1, <1>2, <1>3, <1>6, <1>8 DEF EventsTypeOK
  <2>2. \A x \in Events : fields[x].listeners \in Nat
    BY <1>1 DEF EventsTypeOK
  <2> QED  BY <1>3, <2>1, <2>2, EventsSameStack
<1> QED  BY <1>1, <1>3, <1>9, <1>10, <1>11 DEF EventsIInv, RemovedIsNotUsed

LEMMA EventsRemoveOne ==
    ASSUME EventsIInv, NEW n \in Name, RemoveOne(n)  PROVE EventsIInv'
<1>1. UNCHANGED <<table, state, fields, stack, again, misused>> /\ hangs' = TRUE
  BY DEF RemoveOne
<1> QED  BY <1>1 DEF EventsIInv, EventsTypeOK, TableInv, FiringInv, Exact,
                     RemovedIsNotUsed

LEMMA EventsFire ==
    ASSUME EventsIInv, NEW n \in Name, Fire(n)  PROVE EventsIInv'
<1> USE EventsAssumption
<1> DEFINE c == [name |-> n, on |-> NoEvents, at |-> 0, due |-> 0]
<1>1. EventsTypeOK /\ stack \in Seq(FireCall) /\ TableInv /\ RemovedIsNotUsed
  BY DEF EventsIInv
<1>2. c \in FireCall /\ c.on = NoEvents  BY DEF FireCall
<1>3. /\ Len(stack) < MaxDepth /\ stack' = <<c>> \o stack
      /\ UNCHANGED <<table, state, fields, again, misused, hangs>>
  BY DEF Fire
<1> HIDE DEF c
<1>4. /\ stack' \in Seq(FireCall) /\ Len(stack') = Len(stack) + 1 /\ stack'[1] = c
      /\ \A i \in 2..(Len(stack) + 1) : stack'[i] = stack[i - 1]
      /\ Len(stack) \in Nat
  BY <1>1, <1>2, <1>3, EventsPush, LenProperties
<1>5. \A i \in DOMAIN stack' : stack'[i] \in FireCall
  BY <1>4, ElementOfSeq, LenProperties
<1>6. EventsTypeOK'
  BY <1>1, <1>3, <1>4, <1>5 DEF EventsTypeOK, FireCall
<1>7. FiringInv'
  <2> SUFFICES ASSUME NEW e \in Events \ again, NEW i \in 1..Len(stack'),
                      stack'[i].on = e
               PROVE  Exact(e, i)'
                      /\ \A j \in 1..Len(stack') : stack'[j].on = e => j = i
    BY <1>3 DEF FiringInv
  <2>1. i # 1 /\ i - 1 \in 1..Len(stack) /\ stack'[i] = stack[i - 1]
    BY <1>2, <1>4
  <2>2. Exact(e, i - 1) /\ \A j \in 1..Len(stack) : stack[j].on = e => j = i - 1
    BY <2>1 DEF EventsIInv, FiringInv
  <2>3. Exact(e, i)'  BY <1>3, <2>1, <2>2 DEF Exact
  <2>4. ASSUME NEW j \in 1..Len(stack'), stack'[j].on = e  PROVE j = i
    <3>1. j # 1 /\ j - 1 \in 1..Len(stack) /\ stack'[j] = stack[j - 1]
      BY <1>2, <1>4, <2>4
    <3> QED  BY <2>2, <2>4, <3>1
  <2> QED  BY <2>3, <2>4
<1> QED  BY <1>1, <1>3, <1>4, <1>6, <1>7 DEF EventsIInv, TableInv, RemovedIsNotUsed

\* A return of the innermost call keeps the rest, when what it changes is only
\* what that call fires, alone.
LEMMA EventsReturn ==
    ASSUME EventsIInv, stack # <<>>, stack' = Tail(stack), again' = again,
           NEW f \in Events \cup {NoEvents}, f = stack[1].on,
           \A e \in Events \ {f} : state'[e] = state[e] /\ fields'[e] = fields[e]
    PROVE  /\ stack' \in Seq(FireCall) /\ Len(stack') = Len(stack) - 1
           /\ Len(stack') <= MaxDepth
           /\ \A i \in DOMAIN stack' : stack'[i] \in FireCall
           /\ FiringInv'
<1> USE EventsAssumption
<1>1. /\ stack' \in Seq(FireCall) /\ Len(stack) \in Nat \ {0}
      /\ Len(stack') = Len(stack) - 1 /\ Len(stack) <= MaxDepth
      /\ \A i \in 1..(Len(stack) - 1) : stack'[i] = stack[i + 1]
  BY EventsPop DEF EventsIInv, EventsTypeOK
<1>2. \A i \in DOMAIN stack' : stack'[i] \in FireCall
  BY <1>1, ElementOfSeq, LenProperties
<1>3. FiringInv'
  <2> SUFFICES ASSUME NEW e \in Events \ again, NEW i \in 1..Len(stack'),
                      stack'[i].on = e
               PROVE  Exact(e, i)'
                      /\ \A j \in 1..Len(stack') : stack'[j].on = e => j = i
    BY DEF FiringInv
  <2>1. i + 1 \in 1..Len(stack) /\ stack'[i] = stack[i + 1] /\ i + 1 # 1
    BY <1>1
  <2>2. Exact(e, i + 1) /\ \A j \in 1..Len(stack) : stack[j].on = e => j = i + 1
    BY <2>1 DEF EventsIInv, FiringInv
  <2>3. e # f
    BY <1>1, <2>1, <2>2
  <2>4. Exact(e, i)'  BY <2>1, <2>2, <2>3 DEF Exact
  <2>5. ASSUME NEW j \in 1..Len(stack'), stack'[j].on = e  PROVE j = i
    <3>1. j + 1 \in 1..Len(stack) /\ stack'[j] = stack[j + 1]
      BY <1>1
    <3> QED  BY <2>2, <2>5, <3>1
  <2> QED  BY <2>4, <2>5
<1> QED  BY <1>1, <1>2, <1>3

LEMMA EventsHandler ==
    ASSUME EventsIInv, HandlerReturns  PROVE EventsIInv'
<1> USE EventsAssumption
<1> DEFINE e == table[Top.name]
           top == [name |-> Top.name, on |-> e, at |-> 1, due |-> fields[e].listeners]
<1>1. EventsTypeOK /\ stack \in Seq(FireCall) /\ TableInv /\ RemovedIsNotUsed
  BY DEF EventsIInv
<1>2. /\ stack # <<>> /\ Top = stack[1] /\ Top \in FireCall /\ Len(stack) \in Nat \ {0}
      /\ stack[1].on = NoEvents
  BY <1>1, EventsPop DEF HandlerReturns, Top, Firing
<1>3. e \in Events \cup {NoEvents}  BY <1>1, <1>2 DEF EventsTypeOK, FireCall
<1>4. UNCHANGED <<table, state, misused, hangs>>  BY DEF HandlerReturns
<1>5. CASE e = NoEvents
  <2>1. stack' = Tail(stack) /\ UNCHANGED <<fields, again>>
    BY <1>5 DEF HandlerReturns
  <2>2. /\ stack' \in Seq(FireCall) /\ Len(stack') <= MaxDepth
        /\ \A i \in DOMAIN stack' : stack'[i] \in FireCall
        /\ FiringInv'
    BY <1>2, <1>4, <2>1, EventsReturn
  <2> QED
    BY <1>1, <1>4, <2>1, <2>2
    DEF EventsIInv, EventsTypeOK, TableInv, RemovedIsNotUsed, FireCall
<1>6. CASE e # NoEvents
  <2>1. /\ stack' = [stack EXCEPT ![1] = top]
        /\ fields' = [fields EXCEPT ![e] =
                        [@ EXCEPT !.isFiring = TRUE, !.tmp = After(e, 1)]]
        /\ again' = again \cup (IF Fires(e) THEN {e} ELSE {})
    BY <1>6 DEF HandlerReturns
  <2>2. /\ e \in Events /\ state[e] = "alive" /\ ~fields[e].deleteAfterFire
        /\ fields[e].listeners \in 1..MaxListeners
    BY <1>1, <1>2, <1>3, <1>6 DEF TableInv, FireCall, EventsTypeOK
  <2>3. /\ top \in FireCall /\ top.on = e /\ top.at = 1
        /\ top.due = fields[e].listeners
    <3>1. stack[1] \in FireCall  BY <1>2
    <3> HIDE DEF e
    <3>2. fields[e].listeners \in 0..MaxListeners /\ 1 \in 0..MaxListeners
      BY <2>2
    <3> QED  BY <1>2, <2>2, <3>1, <3>2 DEF FireCall
  <2>4. top.on = e /\ top.at = 1 /\ top.due = fields[e].listeners  BY <2>3
  <2>5. After(e, 1) \in 0..MaxListeners
        /\ (After(e, 1) = 2 \/ (After(e, 1) = 0 /\ 1 >= fields[e].listeners))
    BY <2>2 DEF After
  <2>6. Fires(e) <=> \E i \in 1..Len(stack) : stack[i].on = e
    BY <1>1, LenProperties DEF Fires
  <2> HIDE DEF e, top
  <2>7. /\ stack' \in Seq(FireCall) /\ Len(stack') = Len(stack) /\ stack'[1] = top
        /\ \A i \in 2..Len(stack) : stack'[i] = stack[i]
    BY <1>1, <1>2, <2>1, <2>3, ExceptSeq
  <2>8. \A i \in DOMAIN stack' : stack'[i] \in FireCall
    BY <2>7, ElementOfSeq, LenProperties
  <2>9. /\ fields' \in [Events -> [listeners : 0..MaxListeners, tmp : 0..MaxListeners,
                                   isFiring : BOOLEAN, deleteAfterFire : BOOLEAN]]
        /\ fields'[e].isFiring /\ fields'[e].tmp = After(e, 1)
        /\ fields'[e].listeners = fields[e].listeners
        /\ fields'[e].deleteAfterFire = fields[e].deleteAfterFire
        /\ \A x \in Events \ {e} : fields'[x] = fields[x]
    <3> DEFINE v == [fields[e] EXCEPT !.isFiring = TRUE, !.tmp = After(e, 1)]
    <3>1. fields[e] \in JSEvent  BY <1>1, <2>2 DEF EventsTypeOK, JSEvent
    <3>2. /\ v \in JSEvent /\ v.isFiring /\ v.tmp = After(e, 1)
          /\ v.listeners = fields[e].listeners
          /\ v.deleteAfterFire = fields[e].deleteAfterFire
      BY <2>5, <3>1 DEF JSEvent
    <3>3. fields' = [fields EXCEPT ![e] = v]  BY <2>1
    <3> HIDE DEF v
    <3>4. /\ fields' \in [Events -> JSEvent] /\ fields'[e] = v
          /\ \A x \in Events \ {e} : fields'[x] = fields[x]
      BY <1>1, <2>2, <3>2, <3>3, EventsSet
    <3> QED  BY <3>2, <3>4 DEF JSEvent
  <2>10. EventsTypeOK'
    BY <1>1, <1>4, <2>1, <2>2, <2>7, <2>8, <2>9 DEF EventsTypeOK, FireCall
  <2>11. TableInv'
    BY <1>1, <1>4, <2>2, <2>9 DEF TableInv, EventsTypeOK
  <2>12. FiringInv'
    <3> SUFFICES ASSUME NEW x \in Events \ again', NEW i \in 1..Len(stack'),
                        stack'[i].on = x
                 PROVE  Exact(x, i)'
                        /\ \A j \in 1..Len(stack') : stack'[j].on = x => j = i
      BY DEF FiringInv
    <3>1. CASE x = e
      <4>1. \A j \in 1..Len(stack) : stack[j].on # e
        BY <2>1, <2>6, <3>1
      <4>2. i = 1 /\ \A j \in 1..Len(stack') : stack'[j].on = x => j = 1
        BY <1>2, <2>7, <3>1, <4>1
      <4>3. Exact(x, i)'
        BY <1>4, <2>2, <2>4, <2>5, <2>7, <2>9, <3>1, <4>2 DEF Exact
      <4> QED  BY <4>2, <4>3
    <3>2. CASE x # e
      <4>1. i # 1 /\ i \in 2..Len(stack) /\ stack'[i] = stack[i] /\ x \notin again
        BY <1>2, <2>1, <2>4, <2>7, <3>2
      <4>2. Exact(x, i) /\ \A j \in 1..Len(stack) : stack[j].on = x => j = i
        BY <4>1, <1>2 DEF EventsIInv, FiringInv
      <4>3. Exact(x, i)'  BY <1>4, <2>9, <3>2, <4>1, <4>2 DEF Exact
      <4>4. \A j \in 1..Len(stack') : stack'[j].on = x => j = i
        BY <1>2, <2>4, <2>7, <3>2, <4>2
      <4> QED  BY <4>3, <4>4
    <3> QED  BY <3>1, <3>2
  <2> QED  BY <1>1, <1>4, <2>1, <2>7, <2>10, <2>11, <2>12 DEF EventsIInv, RemovedIsNotUsed
<1> QED  BY <1>5, <1>6

LEMMA EventsListener ==
    ASSUME EventsIInv, ListenerReturns  PROVE EventsIInv'
<1> USE EventsAssumption
<1> DEFINE f == Firing
           next == fields[Firing].tmp
           top == [stack[1] EXCEPT !.at = next]
<1>1. EventsTypeOK /\ stack \in Seq(FireCall) /\ TableInv /\ RemovedIsNotUsed
  BY DEF EventsIInv
<1>2. /\ stack # <<>> /\ Top = stack[1] /\ Top \in FireCall /\ Len(stack) \in Nat \ {0}
      /\ f = stack[1].on /\ f \in Events
  BY <1>1, EventsPop DEF ListenerReturns, Top, Firing, FireCall
<1>3. UNCHANGED <<table, again, hangs>>  BY DEF ListenerReturns
<1>4. f \notin again => Exact(f, 1) /\ \A j \in 1..Len(stack) : stack[j].on = f => j = 1
  BY <1>2 DEF EventsIInv, FiringInv
<1>5. CASE state[f] = "freed"
  <2>1. misused' = {f} /\ UNCHANGED <<stack, fields, state>>
    BY <1>5 DEF ListenerReturns
  <2>2. f \in again  BY <1>4, <1>5 DEF Exact
  <2> HIDE DEF f
  <2> QED
    BY <1>1, <1>2, <1>3, <2>1, <2>2
    DEF EventsIInv, EventsTypeOK, TableInv, FiringInv, Exact, RemovedIsNotUsed
<1>6. CASE state[f] # "freed" /\ fields[f].deleteAfterFire
  <2>1. /\ misused' = {} /\ state' = [state EXCEPT ![f] = "freed"]
        /\ stack' = Tail(stack) /\ fields' = fields
    BY <1>6 DEF ListenerReturns
  <2> HIDE DEF f
  <2>2. /\ stack' \in Seq(FireCall) /\ Len(stack') <= MaxDepth
        /\ \A i \in DOMAIN stack' : stack'[i] \in FireCall
        /\ FiringInv'
    BY <1>1, <1>2, <1>3, <2>1, EventsReturn DEF EventsTypeOK
  <2>3. TableInv'
    BY <1>1, <1>2, <1>3, <1>6, <2>1 DEF TableInv, EventsTypeOK
  <2> QED
    BY <1>1, <1>2, <1>3, <2>1, <2>2, <2>3
    DEF EventsIInv, EventsTypeOK, RemovedIsNotUsed, FireCall
<1>7. CASE state[f] # "freed" /\ ~fields[f].deleteAfterFire /\ next = 0
  <2>1. /\ misused' = {} /\ stack' = Tail(stack) /\ state' = state
        /\ fields' = [fields EXCEPT ![f] = [@ EXCEPT !.isFiring = FALSE, !.tmp = 0]]
    BY <1>7 DEF ListenerReturns
  <2> DEFINE u == [fields[f] EXCEPT !.isFiring = FALSE]
             v == [u EXCEPT !.tmp = 0]
  <2> HIDE DEF f
  <2>2. fields[f] \in JSEvent  BY <1>1, <1>2 DEF EventsTypeOK, JSEvent
  <2>3. /\ v \in JSEvent /\ v.listeners = fields[f].listeners
        /\ v.deleteAfterFire = fields[f].deleteAfterFire
    <3>1. /\ u \in JSEvent /\ u.listeners = fields[f].listeners
          /\ u.deleteAfterFire = fields[f].deleteAfterFire
      BY <2>2 DEF JSEvent
    <3> HIDE DEF u
    <3> QED  BY <3>1 DEF JSEvent
  <2>4. fields' = [fields EXCEPT ![f] = v]  BY <2>1
  <2> HIDE DEF v
  <2>5. /\ fields' \in [Events -> JSEvent] /\ fields'[f] = v
        /\ \A x \in Events \ {f} : fields'[x] = fields[x]
    BY <1>1, <1>2, <2>3, <2>4, EventsSet
  <2>6. /\ stack' \in Seq(FireCall) /\ Len(stack') <= MaxDepth
        /\ \A i \in DOMAIN stack' : stack'[i] \in FireCall
        /\ FiringInv'
    BY <1>1, <1>2, <1>3, <2>1, <2>5, EventsReturn
  <2>7. TableInv'
    BY <1>1, <1>2, <1>3, <2>1, <2>3, <2>5 DEF TableInv, EventsTypeOK
  <2>8. EventsTypeOK'
    BY <1>1, <1>2, <1>3, <2>1, <2>5, <2>6 DEF EventsTypeOK, FireCall, JSEvent
  <2>9. RemovedIsNotUsed'  BY <2>1 DEF RemovedIsNotUsed
  <2> QED
    BY <2>6, <2>7, <2>8, <2>9 DEF EventsIInv
<1>8. CASE state[f] # "freed" /\ ~fields[f].deleteAfterFire /\ next # 0
  <2>1. /\ misused' = {} /\ stack' = [stack EXCEPT ![1] = top] /\ state' = state
        /\ fields' = [fields EXCEPT ![f] = [@ EXCEPT !.tmp = After(f, next)]]
    BY <1>8 DEF ListenerReturns
  <2>2. next \in 1..MaxListeners /\ fields[f].listeners \in 0..MaxListeners
    BY <1>1, <1>2, <1>8 DEF EventsTypeOK
  <2>3. top \in FireCall /\ top.on = f /\ top.at = next /\ top.due = stack[1].due
        /\ stack[1].at \in Nat /\ stack[1].due \in Nat
    BY <1>2, <2>2 DEF FireCall
  <2>4. After(f, next) \in 0..MaxListeners
        /\ (After(f, next) = next + 1 \/ (After(f, next) = 0 /\ next >= fields[f].listeners))
    BY <2>2 DEF After
  <2>5. f \notin again => fields[f].tmp = next  BY DEF Exact
  <2> HIDE DEF f, top, next
  <2>6. /\ stack' \in Seq(FireCall) /\ Len(stack') = Len(stack) /\ stack'[1] = top
        /\ \A i \in 2..Len(stack) : stack'[i] = stack[i]
    BY <1>1, <1>2, <2>1, <2>3, ExceptSeq
  <2>7. \A i \in DOMAIN stack' : stack'[i] \in FireCall
    BY <2>6, ElementOfSeq, LenProperties
  <2>8. /\ fields' \in [Events -> [listeners : 0..MaxListeners, tmp : 0..MaxListeners,
                                   isFiring : BOOLEAN, deleteAfterFire : BOOLEAN]]
        /\ fields'[f].isFiring = fields[f].isFiring
        /\ fields'[f].tmp = After(f, next)
        /\ fields'[f].listeners = fields[f].listeners
        /\ fields'[f].deleteAfterFire = fields[f].deleteAfterFire
        /\ \A x \in Events \ {f} : fields'[x] = fields[x]
    <3> DEFINE v == [fields[f] EXCEPT !.tmp = After(f, next)]
    <3>1. fields[f] \in JSEvent  BY <1>1, <1>2 DEF EventsTypeOK, JSEvent
    <3>2. /\ v \in JSEvent /\ v.tmp = After(f, next)
          /\ v.isFiring = fields[f].isFiring /\ v.listeners = fields[f].listeners
          /\ v.deleteAfterFire = fields[f].deleteAfterFire
      BY <2>4, <3>1 DEF JSEvent
    <3>3. fields' = [fields EXCEPT ![f] = v]  BY <2>1
    <3> HIDE DEF v
    <3>4. /\ fields' \in [Events -> JSEvent] /\ fields'[f] = v
          /\ \A x \in Events \ {f} : fields'[x] = fields[x]
      BY <1>1, <1>2, <3>2, <3>3, EventsSet
    <3> QED  BY <3>2, <3>4 DEF JSEvent
  <2>9. EventsTypeOK'
    BY <1>1, <1>3, <2>1, <2>6, <2>7, <2>8 DEF EventsTypeOK, FireCall
  <2>10. TableInv'
    BY <1>1, <1>2, <1>3, <2>1, <2>8 DEF TableInv, EventsTypeOK
  <2>11. FiringInv'
    <3> SUFFICES ASSUME NEW x \in Events \ again, NEW i \in 1..Len(stack'),
                        stack'[i].on = x
                 PROVE  Exact(x, i)'
                        /\ \A j \in 1..Len(stack') : stack'[j].on = x => j = i
      BY <1>3 DEF FiringInv
    <3>1. i \in 1..Len(stack) /\ stack[i].on = x
          /\ \A j \in 1..Len(stack') : stack'[j].on = x => stack[j].on = x
      BY <1>2, <2>3, <2>6
    <3>2. Exact(x, i) /\ \A j \in 1..Len(stack) : stack[j].on = x => j = i
      BY <3>1 DEF EventsIInv, FiringInv
    <3>3. Exact(x, i)'
      <4>1. CASE i = 1
        <5>1. x = f  BY <1>2, <3>1, <4>1
        <5>2. /\ state'[x] = "alive" /\ fields'[x].isFiring
              /\ stack[1].due <= fields[x].listeners
          BY <2>1, <2>8, <3>2, <4>1, <5>1 DEF Exact
        <5> QED  BY <2>2, <2>3, <2>4, <2>6, <2>8, <4>1, <5>1, <5>2 DEF Exact
      <4>2. CASE i # 1
        <5>1. x # f  BY <1>2, <3>2, <4>2
        <5> QED  BY <2>1, <2>6, <2>8, <3>1, <3>2, <4>2, <5>1 DEF Exact
      <4> QED  BY <4>1, <4>2
    <3> QED  BY <2>6, <3>1, <3>2, <3>3
  <2> QED
    BY <1>1, <1>3, <2>1, <2>6, <2>9, <2>10, <2>11 DEF EventsIInv, RemovedIsNotUsed
<1> QED  BY <1>5, <1>6, <1>7, <1>8

LEMMA EventsStutter ==
    ASSUME EventsIInv, UNCHANGED eventVars  PROVE EventsIInv'
BY DEF EventsIInv, EventsTypeOK, TableInv, FiringInv, Exact, RemovedIsNotUsed,
       eventVars

\* The inductive invariant of the events of an object (JSEvents::fire()).
THEOREM EventsInvariance == EventsSpec => []EventsIInv
<1>1. EventsIInv /\ [EventsNext]_eventVars => EventsIInv'
  BY EventsAdd, EventsRemove, EventsRemoveOne, EventsFire, EventsHandler,
     EventsListener, EventsStutter
  DEF EventsNext
<1> QED  BY EventsInitially, <1>1, PTL DEF EventsSpec

\* fire() does not use a JSEvents that a listener has removed, whatever
\* listeners add, remove and fire, but for one that is fired within itself.
THEOREM RemovedAreNotUsed == EventsSpec => []RemovedIsNotUsed
<1>1. EventsIInv => RemovedIsNotUsed  BY DEF EventsIInv
<1> QED  BY EventsInvariance, <1>1, PTL

LEMMA EventsStepHears ==
    ASSUME EventsIInv, [EventsNext]_eventVars, NEW e \in Events \ again',
           stack # <<>>, Firing = e, state'[e] = "alive"
    PROVE  \/ Len(stack') > Len(stack)
           \/ Len(stack') = Len(stack) /\ stack'[1].at \in {Top.at, Top.at + 1}
           \/ Len(stack') < Len(stack) /\ Top.at >= Top.due
<1> USE EventsAssumption
<1>1. /\ stack \in Seq(FireCall) /\ Top = stack[1] /\ Top \in FireCall
      /\ Len(stack) \in Nat \ {0} /\ stack[1].on = e /\ e # NoEvents
  BY EventsPop DEF EventsIInv, Top, Firing
<1>2. CASE stack' = stack  BY <1>1, <1>2
<1>3. ASSUME NEW n \in Name, Fire(n)
      PROVE  Len(stack') > Len(stack)
  <2>1. [name |-> n, on |-> NoEvents, at |-> 0, due |-> 0] \in FireCall  BY DEF FireCall
  <2> QED  BY <1>1, <1>3, <2>1, EventsPush DEF Fire
<1>4. CASE ListenerReturns
  <2>1. again' = again /\ Exact(e, 1)
    BY <1>1, <1>4 DEF ListenerReturns, EventsIInv, FiringInv
  <2>2. CASE fields[e].deleteAfterFire
    <3>1. state' = [state EXCEPT ![e] = "freed"]
      BY <1>4, <2>1, <2>2 DEF ListenerReturns, Exact
    <3> QED  BY <3>1 DEF EventsIInv, EventsTypeOK
  <2>3. CASE ~fields[e].deleteAfterFire /\ fields[e].tmp = 0
    <3>1. stack' = Tail(stack)  BY <1>4, <2>1, <2>3 DEF ListenerReturns, Exact
    <3>2. Len(stack') < Len(stack)  BY <1>1, <3>1, EventsPop
    <3>3. stack[1].at >= stack[1].due  BY <1>1, <2>1, <2>3 DEF Exact, FireCall
    <3> QED  BY <1>1, <3>2, <3>3
  <2>4. CASE ~fields[e].deleteAfterFire /\ fields[e].tmp # 0
    <3>1. stack' = [stack EXCEPT ![1] = [@ EXCEPT !.at = fields[e].tmp]]
      BY <1>4, <2>1, <2>4 DEF ListenerReturns, Exact
    <3>2. fields[e].tmp = stack[1].at + 1  BY <2>1, <2>4 DEF Exact
    <3>3. fields[e].tmp \in 0..MaxListeners  BY DEF EventsIInv, EventsTypeOK
    <3>4. [stack[1] EXCEPT !.at = fields[e].tmp] \in FireCall  BY <1>1, <3>3 DEF FireCall
    <3>5. /\ Len(stack') = Len(stack)
          /\ stack'[1] = [stack[1] EXCEPT !.at = fields[e].tmp]
      BY <1>1, <3>1, <3>4, ExceptSeq
    <3>6. stack'[1].at = fields[e].tmp  BY <1>1, <3>5 DEF FireCall
    <3> QED  BY <1>1, <3>2, <3>5, <3>6
  <2> QED  BY <2>2, <2>3, <2>4
<1>5. CASE HandlerReturns  BY <1>1, <1>5 DEF HandlerReturns, Firing
<1> QED
  BY <1>2, <1>3, <1>4, <1>5
  DEF EventsNext, eventVars, AddListener, RemoveAll, RemoveOne

\* Whatever listeners do, the listeners an event had when it was fired are
\* called by fire(), each once and in their order, unless the event has been
\* removed in the meantime or fired again by one of them.
THEOREM Heard == EventsSpec => EveryListenerHears
<1> DEFINE Hears == \A e \in Events \ again' :
               stack # <<>> /\ Firing = e /\ state'[e] = "alive" =>
            \/ Len(stack') > Len(stack)
            \/ Len(stack') = Len(stack) /\ stack'[1].at \in {Top.at, Top.at + 1}
            \/ Len(stack') < Len(stack) /\ Top.at >= Top.due
<1>1. EventsIInv /\ [EventsNext]_eventVars => [Hears]_eventVars
  BY EventsStepHears
<1> QED  BY EventsInvariance, <1>1, PTL DEF EventsSpec, EveryListenerHears
=============================================================================
