---------------------------- MODULE CanvasFrame ----------------------------
(***************************************************************************)
(* A frame of the window (Frontend/Context.cpp): the tree of canvases is   *)
(* walked, each canvas that is drawn takes a copy of each mouse event that *)
(* is inside it and is painted, the canvases are composed, and the events  *)
(* are given to the canvases on top (Graphics/CanvasHandler.cpp).          *)
(*                                                                         *)
(* Scripts run in the middle of it, in the handlers of events, and change  *)
(* the tree that is being walked.  todo is what is left to do of the calls *)
(* in progress, the innermost first.  Which canvases are visible, on the   *)
(* screen and under the pointer is chosen at each visit.                   *)
(***************************************************************************)
EXTENDS Canvas

CONSTANT
    Environment     \* what is used (kind), what the mouse does, what handlers
                    \* of which event call, what scripts call between frames,
                    \* and two bounds: the events of a frame and the canvases
                    \* there are

VARIABLES
    env,        \* the environment: it does not change
    todo,       \* the calls in progress
    events,     \* m_InputEvents: type, m_depthAffectedCanvas and
                \* m_PassThroughCanvas of each
    pending,    \* m_PendingInputEvents
    lists,      \* m_CanvasEventsCanvas: the copies, in the order of the lists
    composed,   \* compList
    needPaint,  \* the canvases with m_NeedPaint
    dragged,    \* the canvases with kDrag_Flag
    handled,    \* history: per event of the frame, who has handled it
    seen,       \* history: the canvases the frame has had in the tree and the
                \* clicked one; between frames, the clicked one if it was in no
                \* tree by the end of the frame
    fault       \* a handler that was deleted was used

frameVars == <<env, todo, events, pending, lists, composed, needPaint, dragged,
               handled, seen, fault>>
vars == <<treeVars, frameVars>>

Mouse == {"down", "up", "move"}
Fresh(type) == [type |-> type, depth |-> 0, through |-> Null]

FrameInit ==
    /\ Init /\ env \in Environment
    /\ todo = <<>> /\ events = <<>> /\ pending = <<>> /\ lists = <<>>
    /\ composed = {} /\ needPaint = {} /\ dragged = {} /\ seen = {}
    /\ handled = <<>> /\ fault = FALSE

FrameTypeOK ==
    /\ TypeOK
    /\ pending \in UNION {[1..n -> Mouse] : n \in 0..env.events}
    /\ Len(events) <= env.events /\ Len(handled) = Len(events)
    /\ \A i \in DOMAIN events :
        /\ events[i].type \in Mouse /\ events[i].depth \in Nat
        /\ events[i].through \in CanvasOrNull
    /\ \A i \in DOMAIN lists : lists[i].handler \in Canvas
                               /\ lists[i].ev \in DOMAIN events
    /\ composed \cup needPaint \cup dragged \cup seen \subseteq Canvas
    /\ fault \in BOOLEAN
-----------------------------------------------------------------------------
(* The calls in progress: on a canvas, for an event, about another canvas. *)

CallFor(f, c, i, d) == [f |-> f, on |-> c, ev |-> i, about |-> d]
CallOn(f, c) == CallFor(f, c, 0, Null)
Call(f) == CallOn(f, Null)
\* The handler of an event on c, if scripts have one that does something, and
\* the other canvas that the object of the event is about.  ev is then whether
\* that object has been made.
HandlerAbout(event, c, d) ==
    IF \E call \in env.calls : call[1] = event THEN <<CallFor(event, c, 0, d)>>
    ELSE <<>>
Handler(event, c) == HandlerAbout(event, c, Null)
HandlerEvents == Mouse \cup {"frame", "load", "paint", "drag", "dragover",
                             "dragend", "drop"}
MainLoop == todo = <<>> /\ ~fault
At(f) == todo # <<>> /\ Head(todo).f = f /\ ~fault
On == Head(todo).on
Ev == Head(todo).ev
About == Head(todo).about
Rest(calls) == todo' = calls \o Tail(todo)
Uses(S) == fault' = ~(S \ {Null} \subseteq alive)

\* c and the canvases below it.
Below(c) ==
    {d \in Canvas : \A S \in SUBSET Canvas :
        c \in S /\ (\A x \in Canvas : links.parent[x] \in S => x \in S) => d \in S}

\* Context::frame(), from the callbacks of requestAnimationFrame() on.
Frame ==
    /\ MainLoop
    /\ todo' = Handler("frame", Root)
               \o <<CallOn("descend", Root), Call("compose"), Call("trigger"),
                    Call("clear")>>
    /\ UNCHANGED <<treeVars, env, events, pending, lists, composed, needPaint,
                   dragged, handled, fault>>
    /\ seen' = Below(Root) \cup ({clicked} \cap (alive \cup seen))

\* The loop of layerize() over the children, by the links as they are by then.
Visit(c) == IF c = Null THEN <<>> ELSE <<CallOn("layerize", c), CallOn("next", c)>>
Descend ==
    /\ At("descend") /\ Rest(Visit(links.first[On]))
    /\ UNCHANGED <<treeVars, env, seen, events, pending, lists, composed, needPaint,
                   dragged, handled, fault>>
NextSibling ==
    /\ At("next") /\ Uses({On})
    /\ Rest(Visit(links.next[On]))
    /\ UNCHANGED <<treeVars, env, seen, events, pending, lists, composed, needPaint,
                   dragged, handled>>

\* layerize(): the handlers of resize and load are called at once.
Loads ==
    /\ At("layerize") /\ Handler("load", On) # <<>>
    /\ Rest(Handler("load", On) \o <<CallOn("loaded", On)>>)
    /\ UNCHANGED <<treeVars, env, seen, events, pending, lists, composed, needPaint,
                   dragged, handled, fault>>
Layerizes == At("layerize") \/ At("loaded")

\* Nothing for what is not visible; what is not on the screen is not drawn, but
\* its children may be.
NotDrawn ==
    /\ Layerizes /\ Uses({On})
    /\ Rest(<<>>) \/ Rest(Visit(links.first[On]))
    /\ UNCHANGED <<treeVars, env, seen, events, pending, lists, composed, needPaint,
                   dragged, handled>>

\* Events of the frame, in their order.
Chosen(n) ==
    {own \in UNION {[1..k -> 1..n] : k \in 0..n} :
        \A i, j \in DOMAIN own : i < j => own[i] < own[j]}

\* dispatchMouseEvents() for the events inside the canvas, then paint().
DrawnWrongly ==
    /\ Layerizes /\ Uses({On})
    /\ \E own \in Chosen(Len(events)) :
        /\ lists' = lists \o [k \in 1..Len(own) |->
                [handler |-> On, ev |-> own[k], depth |-> events[own[k]].depth,
                 under |-> events[own[k]].through]]
        /\ events' = [i \in 1..Len(events) |->
                IF \A k \in DOMAIN own : own[k] # i THEN events[i]
                ELSE [type |-> events[i].type, depth |-> events[i].depth + 1,
                      through |-> On]]
    /\ needPaint' = needPaint \ {On}
    /\ Rest((IF On \in needPaint THEN Handler("paint", On) ELSE <<>>)
            \o <<CallOn("painted", On)>>)
    /\ UNCHANGED <<treeVars, env, seen, pending, composed, dragged, handled>>
Drawn ==
    /\ Layerizes /\ Uses({On})
    /\ \E own \in Chosen(Len(events)) :
        /\ lists' = lists \o [k \in 1..Len(own) |->
                [handler |-> On, ev |-> own[k], depth |-> events[own[k]].depth + 1,
                 under |-> events[own[k]].through]]
        /\ events' = [i \in 1..Len(events) |->
                IF \A k \in DOMAIN own : own[k] # i THEN events[i]
                ELSE [type |-> events[i].type, depth |-> events[i].depth + 1,
                      through |-> On]]
    /\ needPaint' = needPaint \ {On}
    /\ Rest((IF On \in needPaint THEN Handler("paint", On) ELSE <<>>)
            \o <<CallOn("painted", On)>>)
    /\ UNCHANGED <<treeVars, env, seen, pending, composed, dragged, handled>>
\* The callback may have taken the canvas from its parent.
Painted ==
    /\ At("painted") /\ Uses({On})
    /\ IF links.parent[On] = Null THEN Rest(<<>>) /\ UNCHANGED composed
       ELSE /\ Rest(Visit(links.first[On]))
            /\ composed' = composed \cup {On}
    /\ UNCHANGED <<treeVars, env, seen, events, pending, lists, needPaint, dragged,
                   handled>>

\* Each canvas that was drawn is composed.
Compose ==
    /\ At("compose") /\ Rest(<<>>)
    /\ fault' = ~(composed \subseteq alive)
    /\ composed' = {}
    /\ UNCHANGED <<treeVars, env, seen, events, pending, lists, needPaint, dragged,
                   handled>>
-----------------------------------------------------------------------------
(* Events. *)

\* triggerEvents(): the copy that is as deep as its origin is of the canvas on
\* top, which handles it.
Trigger ==
    /\ At("trigger")
    /\ IF lists = <<>> THEN Rest(<<>>) /\ UNCHANGED <<lists, handled>>
       ELSE LET copy == Head(lists)
            IN  /\ lists' = Tail(lists)
                /\ IF copy.depth = events[copy.ev].depth
                   THEN /\ handled' = [handled EXCEPT ![copy.ev] =
                                            Append(@, copy.handler)]
                        /\ todo' =
                            <<CallFor("bubble", copy.handler, copy.ev, copy.handler),
                              CallFor("input", copy.handler, copy.ev, copy.under)>>
                            \o todo
                   ELSE UNCHANGED <<todo, handled>>
    /\ UNCHANGED <<treeVars, env, seen, events, pending, composed, needPaint, dragged,
                   fault>>

\* _handleEvent(): the event, about the canvas on top, for a handler and, unless
\* that stops it, for the parent that the handler has then.
Bubble ==
    /\ At("bubble") /\ Uses({On, About})
    /\ Rest(HandlerAbout(events[Ev].type, On, About)
            \o <<CallFor("bubbled", On, Ev, About)>>)
    /\ UNCHANGED <<treeVars, env, seen, events, pending, lists, composed, needPaint,
                   dragged, handled>>
Bubbled ==
    /\ At("bubbled") /\ Uses({On})
    /\ \/ Rest(<<>>)
       \/ /\ links.parent[On] # Null
          /\ Rest(<<CallFor("bubble", links.parent[On], Ev, About)>>)
    /\ UNCHANGED <<treeVars, env, seen, events, pending, lists, composed, needPaint,
                   dragged, handled>>

\* onInputEvent(): what a click begins, what moves go on with, and what the
\* release ends.  The cursor is that of the canvas on top, in the end.
Underneath == IF About = Null THEN On ELSE About
Target == IF clicked = On THEN Underneath ELSE On
InputDown ==
    /\ At("input") /\ events[Ev].type = "down"
    /\ Rest(<<>>) /\ Uses({On})
    /\ clicked' = On
    /\ UNCHANGED <<links, alive, id, named, held, env, seen, events, pending, lists,
                   composed, needPaint, dragged, handled>>
\* checkDrag(), onDrag()
InputMove ==
    /\ At("input") /\ events[Ev].type = "move"
    /\ IF clicked = Null THEN Rest(<<>>) /\ Uses({On}) /\ UNCHANGED dragged
       ELSE /\ Uses({On, clicked, Target}) /\ dragged' = dragged \cup {clicked}
            /\ Rest(HandlerAbout("drag", clicked, Target)
                    \o <<CallFor("dragover", Target, 0, clicked), CallOn("cursor", On)>>)
    /\ UNCHANGED <<treeVars, env, seen, events, pending, lists, composed, needPaint,
                   handled>>
\* checkDrop(), onDrag(), onDrop(), then the flag goes.
InputUp ==
    /\ At("input") /\ events[Ev].type = "up"
    /\ Rest((IF clicked \notin dragged THEN <<>>
             ELSE HandlerAbout("dragend", clicked, Target)
                  \o <<CallFor("drop", Target, 0, clicked), CallOn("undrag", clicked)>>)
            \o <<CallOn("unclick", On)>>)
    /\ Uses({On, clicked} \cup (IF clicked \in dragged THEN {Target} ELSE {}))
    /\ UNCHANGED <<treeVars, env, seen, events, pending, lists, composed, needPaint,
                   dragged, handled>>
Undrag ==
    /\ At("undrag") /\ Rest(<<>>) /\ Uses({On})
    /\ dragged' = dragged \ {On}
    /\ UNCHANGED <<treeVars, env, seen, events, pending, lists, composed, needPaint,
                   handled>>
Unclick ==
    /\ At("unclick") /\ Rest(<<>>) /\ Uses({On})
    /\ clicked' = Null
    /\ UNCHANGED <<links, alive, id, named, held, env, seen, events, pending, lists,
                   composed, needPaint, dragged, handled>>
Cursor ==
    /\ At("cursor") /\ Rest(<<>>) /\ Uses({On})
    /\ UNCHANGED <<treeVars, env, seen, events, pending, lists, composed, needPaint,
                   dragged, handled>>

\* InputHandler::clear(): the events that came since then are the next ones.
Clear ==
    /\ At("clear") /\ Rest(<<>>)
    /\ events' = [i \in DOMAIN pending |-> Fresh(pending[i])]
    /\ handled' = [i \in DOMAIN pending |-> <<>>]
    /\ pending' = <<>>
    /\ seen' = {c \in seen : c = clicked /\ links.parent[c] = Null}
    /\ UNCHANGED <<treeVars, env, lists, composed, needPaint, dragged, fault>>

PushEvent(type) ==
    /\ MainLoop /\ Len(pending) < env.events /\ type \in env.mouse
    /\ pending' = Append(pending, type)
    /\ UNCHANGED <<treeVars, env, seen, todo, events, lists, composed, needPaint,
                   dragged, handled, fault>>
-----------------------------------------------------------------------------
(* Scripts. *)

\* What a script does to the tree: it does not put a canvas below itself.
Changes(call) ==
    \/ call = "new" /\ Cardinality(alive) < env.canvases /\ \E c \in Canvas : New(c)
    \/ call = "front" /\ \E c \in held : BringToFront(c)
    \/ call = "back" /\ \E c \in held : SendToBack(c)
    \/ call = "remove" /\ \E c \in held : Remove(c)
    \/ call = "add" /\ \E p, c \in held : p \notin Below(c) /\ c # Root /\ Add(p, c)
    \/ call = "drop" /\ \E c \in held : Drop(c)

\* The object of an event is made, about a canvas that nothing roots before; the
\* handler does what it likes, and ends.
MakesObject ==
    /\ \E event \in HandlerEvents : At(event) /\ Ev = 0
    /\ Uses({On, About})
    /\ Rest(<<CallFor(Head(todo).f, On, 1, About)>>)
    /\ UNCHANGED <<treeVars, env, seen, events, pending, lists, composed, needPaint,
                   dragged, handled>>
Handles ==
    /\ \E event \in HandlerEvents :
        /\ At(event) /\ Ev = 1
        /\ \/ Rest(<<>>) /\ UNCHANGED treeVars
           \/ /\ \E call \in env.calls : call[1] = event /\ Changes(call[2])
              /\ UNCHANGED todo
    /\ seen' = seen \cup Below(Root)'
    /\ UNCHANGED <<env, events, pending, lists, composed, needPaint, dragged,
                   handled, fault>>
\* It is called on the object of the canvas, and holds the one of its event.
CollectsInFrame ==
    /\ \E event \in HandlerEvents : At(event)
    /\ \E c \in Canvas \ (IF Ev = 0 THEN {On} ELSE {On, About}) : Collect(c)
    /\ needPaint' = needPaint \cap alive'
    /\ dragged' = dragged \cap alive'
    /\ UNCHANGED <<env, todo, events, pending, lists, composed, handled, seen, fault>>
ScriptInLoop ==
    /\ MainLoop
    /\ \/ \E call \in env.script : Changes(call)
       \/ \E c \in Canvas : Collect(c)
    /\ needPaint' = needPaint \cap alive'
    /\ dragged' = dragged \cap alive'
    /\ UNCHANGED <<env, seen, todo, events, pending, lists, composed, handled, fault>>
RequestPaint(c) ==
    /\ MainLoop /\ c \in held \ {Root} /\ Handler("paint", c) # <<>>
    /\ needPaint' = needPaint \cup {c}
    /\ UNCHANGED <<treeVars, env, seen, todo, events, pending, lists, composed, dragged,
                   handled, fault>>

FrameNext ==
    \/ Frame \/ Descend \/ NextSibling \/ Loads \/ NotDrawn \/ Drawn \/ Painted
    \/ Compose \/ Trigger \/ Bubble \/ Bubbled \/ InputDown \/ InputMove \/ InputUp
    \/ Undrag \/ Unclick \/ Cursor \/ Clear \/ MakesObject \/ Handles
    \/ CollectsInFrame \/ ScriptInLoop
    \/ \E type \in Mouse : PushEvent(type)
    \/ \E c \in Canvas : RequestPaint(c)

FrameSpec == FrameInit /\ [][FrameNext]_vars
-----------------------------------------------------------------------------
\* An event of the mouse is handled once, by the canvas that was drawn last of
\* those it is inside, whatever handlers did to the tree in the meantime, and
\* by nobody if it is inside none.
TopmostHandlesOnce ==
    At("clear") =>
        \A i \in DOMAIN events :
            handled[i] = IF events[i].through = Null THEN <<>>
                         ELSE <<events[i].through>>

\* The walk, the composition, the events that wait for the end of the frame and
\* the drag that goes on over frames use no handler that was deleted, unless one
\* is collected in the middle of a frame that has had it in the tree, which takes
\* a handler of events that removes it and lets go of it, or the one clicked was
\* in no tree any more when the frame of the click ended: nothing in the code
\* holds on to those.
NoUseAfterFree == fault => ~(seen \subseteq alive)
=============================================================================
