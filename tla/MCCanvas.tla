------------------------------ MODULE MCCanvas ------------------------------
(***************************************************************************)
(* What scripts have of the interface: the tree of canvases, the ids of    *)
(* canvases, a window that draws frames and gives events to canvases, and  *)
(* the events of an object.  In each environment the scripts use one part  *)
(* of it to the full.                                                      *)
(***************************************************************************)
EXTENDS CanvasFrame, JSEvents, TLC

Symmetry == Permutations(Canvas \ {Root})

\* Frames: what the mouse does, and where the handlers change what.
Frames(mouse, script, calls, n, canvases) ==
    [kind |-> "frames", mouse |-> mouse, script |-> script, calls |-> calls,
     events |-> n, canvases |-> canvases]
NoFrames(kind) == [Frames({}, {}, {}, 0, 0) EXCEPT !.kind = kind]

EveryEnvironment ==
    {NoFrames("tree"), NoFrames("names"), NoFrames("listeners"),
     Frames(Mouse, {"new", "add", "remove", "drop"},
            {<<"down", "front">>, <<"drag", "back">>}, 1, 3),
     Frames(Mouse, {"new", "add"},
            {<<"down", "front">>, <<"drag", "back">>}, 2, 3),
     Frames({"move"}, {"new", "add", "drop"},
            {<<"frame", "remove">>, <<"paint", "remove">>, <<"paint", "back">>,
             <<"move", "remove">>}, 1, 4),
     Frames(Mouse, {"new", "add"},
            {<<"down", "remove">>, <<"down", "drop">>,
             <<"dragend", "remove">>, <<"dragend", "drop">>}, 1, 3),
     Frames({"move"}, {"new", "add"},
            {<<"load", "remove">>, <<"load", "drop">>,
             <<"move", "remove">>, <<"move", "drop">>}, 1, 3)}

InterfaceInit == FrameInit /\ EventsInit

\* Names are given to canvases that are in no tree.
Names ==
    \/ Naming
    \/ \E c \in Canvas : New(c) \/ Find(c) \/ Drop(c) \/ Collect(c)
InterfaceNext ==
    \/ /\ env.kind = "tree" /\ UNCHANGED <<frameVars, eventVars>>
       /\ Moves \/ \E c \in Canvas : Collect(c)
    \/ env.kind = "names" /\ Names /\ UNCHANGED <<frameVars, eventVars>>
    \/ env.kind = "frames" /\ FrameNext /\ UNCHANGED eventVars
    \/ env.kind = "listeners" /\ EventsNext /\ UNCHANGED vars

InterfaceSpec == InterfaceInit /\ [][InterfaceNext]_<<vars, eventVars>>
-----------------------------------------------------------------------------
\* Nothing that scripts do in handlers makes the window (NoUseAfterFree) or an
\* event (RemovedIsNotUsed) go on with an object that is deleted, but for a
\* canvas that a handler removes, lets go of and has collected in the same frame,
\* and for an event that is fired within itself.
NothingDeletedIsUsed == NoUseAfterFree /\ RemovedIsNotUsed
=============================================================================
