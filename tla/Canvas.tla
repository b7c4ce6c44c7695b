------------------------------- MODULE Canvas -------------------------------
(***************************************************************************)
(* The tree of canvases (Graphics/CanvasHandler.cpp), the operations that  *)
(* scripts have on it (Binding/JSCanvas.cpp), the ids, the canvas that was *)
(* clicked last, and the collector, which deletes the handlers.            *)
(*                                                                         *)
(* Children are a doubly linked list: links is the fields of all handlers. *)
(* The layout library (external) keeps children of its own.                *)
(***************************************************************************)
EXTENDS Naturals, Sequences, FiniteSets, Lists

CONSTANTS
    Canvas,     \* the addresses of handlers
    Null,
    Root,       \* m_RootHandler
    Id,         \* the ids that scripts give
    NoId

ASSUME CanvasAssumption ==
    Root \in Canvas /\ Null \notin Canvas /\ NoId \notin Id /\ IsFiniteSet(Canvas)

VARIABLES
    links,      \* the fields of the handlers
    alive,      \* the handlers that exist
    id,         \* m_Identifier.str
    named,      \* m_CanvasList
    clicked,    \* m_CurrentClickedHandler
    held        \* the canvases that scripts have a reference to

treeVars == <<links, alive, id, named, clicked, held>>
CanvasOrNull == Canvas \cup {Null}

NoLinks ==
    [parent |-> [c \in Canvas |-> Null],
     first  |-> [c \in Canvas |-> Null],    \* m_Children
     last   |-> [c \in Canvas |-> Null],
     next   |-> [c \in Canvas |-> Null],
     prev   |-> [c \in Canvas |-> Null],
     count  |-> [c \in Canvas |-> 0],       \* m_nChildren
     layout |-> [c \in Canvas |-> {}]]      \* the children of m_YogaRef

Init ==
    /\ links = NoLinks
    /\ alive = {Root} /\ held = {Root}
    /\ id = [c \in Canvas |-> NoId]
    /\ named = [n \in Id |-> Null]
    /\ clicked = Null

TypeOK ==
    /\ links \in [parent : [Canvas -> CanvasOrNull],
                  first : [Canvas -> CanvasOrNull],
                  last : [Canvas -> CanvasOrNull],
                  next : [Canvas -> CanvasOrNull],
                  prev : [Canvas -> CanvasOrNull],
                  count : [Canvas -> Nat], layout : [Canvas -> SUBSET Canvas]]
    /\ alive \subseteq Canvas /\ held \subseteq alive
    /\ id \in [Canvas -> Id \cup {NoId}]
    /\ named \in [Id -> CanvasOrNull]
    /\ clicked \in CanvasOrNull
-----------------------------------------------------------------------------
(* The lists. *)

\* removeFromParent(): what it leaves of the links t.
RemovedWrongly(t, c) ==
    LET p == t.parent[c]
    IN  IF p = Null THEN t
        ELSE [parent |-> [t.parent EXCEPT ![c] = Null],
              first |-> [t.first EXCEPT ![p] = IF @ = c THEN t.next[c] ELSE @],
              last |-> t.last,
              next |-> [x \in Canvas |-> IF x = c THEN Null
                            ELSE IF x = t.prev[c] THEN t.next[c] ELSE t.next[x]],
              prev |-> [x \in Canvas |-> IF x = c THEN Null
                            ELSE IF x = t.next[c] THEN t.prev[c] ELSE t.prev[x]],
              count |-> [t.count EXCEPT ![p] = @ - 1],
              layout |-> [t.layout EXCEPT ![p] = @ \ {c}]]
Removed(t, c) ==
    LET p == t.parent[c]
    IN  IF p = Null THEN t
        ELSE [parent |-> [t.parent EXCEPT ![c] = Null],
              first |-> [t.first EXCEPT ![p] = IF @ = c THEN t.next[c] ELSE @],
              last |-> [t.last EXCEPT ![p] = IF @ = c THEN t.prev[c] ELSE @],
              next |-> [x \in Canvas |-> IF x = c THEN Null
                            ELSE IF x = t.prev[c] THEN t.next[c] ELSE t.next[x]],
              prev |-> [x \in Canvas |-> IF x = c THEN Null
                            ELSE IF x = t.next[c] THEN t.prev[c] ELSE t.prev[x]],
              count |-> [t.count EXCEPT ![p] = @ - 1],
              layout |-> [t.layout EXCEPT ![p] = @ \ {c}]]

\* An insertion: what it makes of the list, and what it does besides.
Adopted(t, p, c, first, last, next, prev) ==
    [parent |-> [t.parent EXCEPT ![c] = p],
     first |-> first, last |-> last, next |-> next, prev |-> prev,
     count |-> [t.count EXCEPT ![p] = @ + 1],
     layout |-> [t.layout EXCEPT ![p] = @ \cup {c}]]

\* addChild(), for c # p.  It takes c from its parent first.
AtFront(t, p, c) ==
    Adopted(t, p, c,
            [t.first EXCEPT ![p] = IF @ = Null THEN c ELSE @],
            [t.last EXCEPT ![p] = c],
            [x \in Canvas |-> IF x = c THEN Null
                 ELSE IF x = t.last[p] THEN c ELSE t.next[x]],
            [t.prev EXCEPT ![c] = t.last[p]])
AtBack(t, p, c) ==
    Adopted(t, p, c,
            [t.first EXCEPT ![p] = c],
            [t.last EXCEPT ![p] = IF @ = Null THEN c ELSE @],
            [t.next EXCEPT ![c] = t.first[p]],
            [x \in Canvas |-> IF x = c THEN Null
                 ELSE IF x = t.first[p] THEN c ELSE t.prev[x]])
AddedInFront(t, p, c) == AtFront(Removed(t, c), p, c)
AddedAtBack(t, p, c) == AtBack(Removed(t, c), p, c)

\* insertBefore(), where it does not return at once.
Before(t, p, c, ref) ==
    Adopted(t, p, c,
            [t.first EXCEPT ![p] = IF t.prev[ref] = Null THEN c ELSE @],
            t.last,
            [x \in Canvas |-> IF x = c THEN ref
                 ELSE IF x = t.prev[ref] THEN c ELSE t.next[x]],
            [t.prev EXCEPT ![c] = t.prev[ref], ![ref] = c])
Inserted(t, p, c, ref) ==
    IF ref = Null THEN AddedInFront(t, p, c)
    ELSE IF t.parent[ref] # p \/ ref = c \/ c = p THEN t
    ELSE Before(Removed(t, c), p, c, ref)
-----------------------------------------------------------------------------
(* What scripts do. *)

\* Constructor(), CanvasHandler()
New(c) ==
    /\ c \notin alive
    /\ alive' = alive \cup {c} /\ held' = held \cup {c}
    /\ UNCHANGED <<links, id, named, clicked>>

\* JS_addSubCanvas(), JS_addToRootCanvas()
Add(p, c) ==
    /\ p # c
    /\ links' = AddedInFront(links, p, c)
    /\ UNCHANGED <<alive, id, named, clicked, held>>
\* JS_bringToFront(), JS_sendToBack()
BringToFront(c) ==
    /\ links.parent[c] # Null
    /\ links' = AddedInFront(links, links.parent[c], c)
    /\ UNCHANGED <<alive, id, named, clicked, held>>
SendToBack(c) ==
    /\ links.parent[c] # Null
    /\ links' = AddedAtBack(links, links.parent[c], c)
    /\ UNCHANGED <<alive, id, named, clicked, held>>
\* JS_insertBefore(), JS_insertAfter(): ref may be no canvas.
InsertBefore(p, c, ref) ==
    /\ p # c
    /\ links' = Inserted(links, p, c, ref)
    /\ UNCHANGED <<alive, id, named, clicked, held>>
InsertAfterWrongly(p, c, ref) ==
    /\ p # c
    /\ links' = Inserted(links, p, c, ref)
    /\ UNCHANGED <<alive, id, named, clicked, held>>
InsertAfter(p, c, ref) ==
    /\ p # c
    /\ links' = Inserted(links, p, c, links.next[ref])
    /\ UNCHANGED <<alive, id, named, clicked, held>>

\* JS_removeFromParent()
UnclickedWrongly(c) == clicked
Unclicked(c) ==
    IF links.parent[c] # Null /\ clicked = c THEN Null ELSE clicked
Remove(c) ==
    /\ links' = Removed(links, c)
    /\ clicked' = Unclicked(c)
    /\ UNCHANGED <<alive, id, named, held>>

\* setId()
SetIdWrongly(c, n) ==
    /\ named' = [named EXCEPT ![n] = c]
    /\ id' = [id EXCEPT ![c] = n]
    /\ UNCHANGED <<links, alive, clicked, held>>
SetId(c, n) ==
    /\ named' = [m \in Id |-> IF m = n THEN c
                              ELSE IF m = id[c] THEN Null ELSE named[m]]
    /\ id' = [id EXCEPT ![c] = n]
    /\ UNCHANGED <<links, alive, clicked, held>>

\* The getters of parent, children and siblings, getCanvasById().
Neighbours(c) ==
    {links.parent[c], links.first[c], links.last[c], links.next[c],
     links.prev[c]} \ {Null}
Find(c) ==
    /\ c \notin held
    /\ \/ \E d \in held : c \in Neighbours(d)
       \/ \E n \in Id : named[n] = c
    /\ held' = held \cup {c}
    /\ UNCHANGED <<links, alive, id, named, clicked>>
Drop(c) ==
    /\ c \in held \ {Root}
    /\ held' = held \ {c}
    /\ UNCHANGED <<links, alive, id, named, clicked>>
-----------------------------------------------------------------------------
(* The collector. *)

\* jsTrace() follows the list of a canvas's children, not its parent.
Closed(S) ==
    \A c \in S : {links.first[c]}
                 \cup (IF links.parent[c] \in S THEN {links.next[c]} ELSE {})
                 \subseteq S \cup {Null}
Traced ==
    {c \in alive : \A S \in SUBSET alive : held \subseteq S /\ Closed(S) => c \in S}

\* The loop of ~CanvasHandler() that takes the children from c, one by one.
Orphaned(t, c) ==
    LET Child(x) == t.parent[x] = c
    IN  [parent |-> [x \in Canvas |-> IF Child(x) THEN Null ELSE t.parent[x]],
         first |-> [t.first EXCEPT ![c] = Null],
         last |-> [t.last EXCEPT ![c] = Null],
         next |-> [x \in Canvas |-> IF Child(x) THEN Null ELSE t.next[x]],
         prev |-> [x \in Canvas |-> IF Child(x) THEN Null ELSE t.prev[x]],
         count |-> [t.count EXCEPT ![c] = 0],
         layout |-> [t.layout EXCEPT ![c] = {}]]

\* ~JSCanvas(), ~CanvasHandler()
Collect(c) ==
    /\ c \in alive \ Traced
    /\ links' = Orphaned(Removed(links, c), c)
    /\ clicked' = IF clicked # Null /\ links.parent[clicked] = c THEN Null
                  ELSE Unclicked(c)
    /\ named' = [n \in Id |-> IF n = id[c] THEN Null ELSE named[n]]
    /\ id' = [id EXCEPT ![c] = NoId]
    /\ alive' = alive \ {c}
    /\ UNCHANGED held
-----------------------------------------------------------------------------
Moves ==
    \/ \E c \in Canvas : New(c) \/ Find(c)
    \/ \E c \in held : BringToFront(c) \/ SendToBack(c) \/ Remove(c) \/ Drop(c)
    \/ \E p, c \in held :
        \/ Add(p, c)
        \/ \E ref \in held : InsertBefore(p, c, ref) \/ InsertAfter(p, c, ref)
Naming == \E c \in held : \E n \in Id : SetId(c, n)

Next == Moves \/ Naming \/ \E c \in Canvas : Collect(c)

Spec == Init /\ [][Next]_treeVars
-----------------------------------------------------------------------------
\* The two directions of the lists, the ends that parents know and the parents
\* that children know agree, whatever is moved, inserted, removed and deleted.
\* getChildren() fills an array of m_nChildren entries by following m_Next.
LinksAgree ==
    \A c \in Canvas :
        /\ links.parent[c] = Null => links.next[c] = Null /\ links.prev[c] = Null
        /\ links.next[c] # Null =>
            /\ links.prev[links.next[c]] = c
            /\ links.parent[links.next[c]] = links.parent[c]
        /\ links.prev[c] # Null =>
            /\ links.next[links.prev[c]] = c
            /\ links.parent[links.prev[c]] = links.parent[c]
        /\ links.first[c] # Null =>
            links.parent[links.first[c]] = c /\ links.prev[links.first[c]] = Null
        /\ links.last[c] # Null =>
            links.parent[links.last[c]] = c /\ links.next[links.last[c]] = Null
        /\ links.parent[c] # Null =>
            /\ links.prev[c] = Null => links.first[links.parent[c]] = c
            /\ links.next[c] = Null => links.last[links.parent[c]] = c

\* The tree is one of what exists: no handler that was deleted is in it.  The
\* layout and m_nChildren are told of every move.
TreeIsAlive ==
    \A c \in Canvas :
        /\ links.parent[c] # Null => {c, links.parent[c]} \subseteq alive
        /\ links.layout[c] = {d \in Canvas : links.parent[d] = c}
        /\ links.count[c] = Cardinality(links.layout[c])

\* After any sequence of calls and collections the tree is one.
TreeIsWhole == LinksAgree /\ TreeIsAlive

\* m_CanvasList has no handler that was deleted, and none by a name it no
\* longer has, although several may have been given one name.
NamesAreLive ==
    \A n \in Id : named[n] # Null => named[n] \in alive /\ id[named[n]] = n

\* The children of each canvas, the last drawn last, by the links t.
Listed(t) ==
    [p \in Canvas |->
        IF t.first[p] = Null THEN <<>>
        ELSE Walk(t.next, t.first[p], Null, Cardinality(Canvas))]

TreeInOrder == INSTANCE CanvasTree WITH kids <- Listed(links)

\* An operation on some canvases is the operation of that name on the sequences
\* of children, for the same canvases.
AsNamed ==
    /\ \A c \in alive \ alive' : Collect(c) => TreeInOrder!Collect(c)
    /\ alive' = alive =>
        \A c \in held :
            /\ BringToFront(c) => TreeInOrder!BringToFront(c)
            /\ SendToBack(c) => TreeInOrder!SendToBack(c)
            /\ Remove(c) => TreeInOrder!Remove(c)
            /\ \A p \in held :
                /\ Add(p, c) => TreeInOrder!Add(p, c)
                /\ \A ref \in held :
                    /\ InsertBefore(p, c, ref) => TreeInOrder!InsertBefore(p, c, ref)
                    /\ InsertAfter(p, c, ref) => TreeInOrder!InsertAfter(p, c, ref)

\* The lists implement sequences of children: each operation that changes the
\* links does to the order of all children what the one of the same name and
\* arguments says, whatever was called before, and nothing else changes it.
KeepsOrder == TreeInOrder!Spec /\ [][links' # links => AsNamed]_links
=============================================================================
