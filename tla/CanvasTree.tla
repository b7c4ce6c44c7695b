----------------------------- MODULE CanvasTree -----------------------------
(***************************************************************************)
(* What the tree of canvases promises: each canvas has a sequence of       *)
(* children, a child is the child of one canvas, once, and each operation  *)
(* that scripts have does to the sequences what is said here.              *)
(***************************************************************************)
EXTENDS Lists

CONSTANTS Canvas, Null
VARIABLE kids

Init == kids = [c \in Canvas |-> <<>>]

\* c taken from wherever it was.
IsChild(c, p) == c \in Elements(kids[p])
Without(c) ==
    [p \in Canvas |-> IF IsChild(c, p) THEN Cut(kids[p], Place(kids[p], c))
                      ELSE kids[p]]

Add(p, c) == kids' = [Without(c) EXCEPT ![p] = Append(@, c)]
PutFirst(p, c) == kids' = [Without(c) EXCEPT ![p] = Put(@, 1, c)]
PutBefore(p, c, ref) ==
    kids' = [Without(c) EXCEPT ![p] = Put(@, Place(@, ref), c)]

\* The last child is the one in front.
BringToFront(c) == \E p \in Canvas : IsChild(c, p) /\ Add(p, c)
SendToBack(c) == \E p \in Canvas : IsChild(c, p) /\ PutFirst(p, c)
\* Before a child of p, in front if there is no ref, and else nowhere.
InsertBefore(p, c, ref) ==
    \/ ref = Null /\ Add(p, c)
    \/ ref \in Canvas /\ IsChild(ref, p) /\ c # ref /\ PutBefore(p, c, ref)
    \/ ref \in Canvas /\ ~(IsChild(ref, p) /\ c # ref) /\ UNCHANGED kids
\* Before the one that follows ref, among the children of whatever canvas.
Followers(ref) ==
    {d \in Canvas : \E q \in Canvas : \E i \in 1..(Len(kids[q]) - 1) :
        kids[q][i] = ref /\ kids[q][i + 1] = d}
InsertAfter(p, c, ref) ==
    \/ Followers(ref) = {} /\ InsertBefore(p, c, Null)
    \/ \E d \in Followers(ref) : InsertBefore(p, c, d)
Remove(c) == kids' = Without(c)
\* What becomes of the children of a canvas that is deleted.
Collect(c) == kids' = [Without(c) EXCEPT ![c] = <<>>]

Changes ==
    \/ \E c \in Canvas : Remove(c) \/ Collect(c) \/ BringToFront(c) \/ SendToBack(c)
    \/ \E p, c \in Canvas : p # c /\ Add(p, c)
    \/ \E p, c, ref \in Canvas :
        p # c /\ (InsertBefore(p, c, ref) \/ InsertAfter(p, c, ref))

Next == kids' # kids /\ Changes

Spec == Init /\ [][Next]_kids
=============================================================================
