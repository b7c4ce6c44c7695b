------------------------------ MODULE JSEvents ------------------------------
(***************************************************************************)
(* The events of an object of JavaScript (Binding/JSEvents.h and           *)
(* Binding/ClassMapperWithEvents.h): listeners by the name of an event,    *)
(* which may add listeners, remove them all and fire events while an event *)
(* is being fired.                                                         *)
(*                                                                         *)
(* add() only appends and remove(func) never gets to its end, so that the  *)
(* list of a JSEvents is a number of listeners; next is an index.  What is *)
(* freed is not allocated again.                                           *)
(***************************************************************************)
EXTENDS Naturals, Sequences

CONSTANTS
    Name,           \* the names of events
    Events,         \* the addresses of JSEvents
    NoEvents,
    MaxListeners,   \* bound: the listeners of an event
    MaxDepth        \* bound: the calls of fireJSEvent() within one another

ASSUME EventsAssumption ==
    NoEvents \notin Events /\ MaxListeners \in Nat /\ MaxDepth \in Nat

VARIABLES
    table,      \* m_Events: the JSEvents of each name
    state,      \* of each JSEvents: "new", "alive", "freed"
    fields,     \* of each JSEvents
    stack,      \* the calls of fireJSEvent(), the innermost first
    again,      \* history: the JSEvents fired from within their own fire()
    misused,    \* the JSEvents that were used after they were freed
    hangs       \* a loop that does not end was entered

eventVars == <<table, state, fields, stack, again, misused, hangs>>

\* JSEvents(): tmp is the index of m_TmpEv, 0 for NULL.
Empty == [listeners |-> 0, tmp |-> 0, isFiring |-> FALSE, deleteAfterFire |-> FALSE]

EventsInit ==
    /\ table = [n \in Name |-> NoEvents]
    /\ state = [e \in Events |-> "new"]
    /\ fields = [e \in Events |-> Empty]
    /\ stack = <<>> /\ again = {} /\ misused = {}
    /\ hangs = FALSE

EventsTypeOK ==
    /\ table \in [Name -> Events \cup {NoEvents}]
    /\ state \in [Events -> {"new", "alive", "freed"}]
    /\ fields \in [Events -> [listeners : 0..MaxListeners, tmp : 0..MaxListeners,
                              isFiring : BOOLEAN, deleteAfterFire : BOOLEAN]]
    /\ Len(stack) <= MaxDepth
    /\ \A i \in DOMAIN stack : stack[i] \in
        [name : Name, on : Events \cup {NoEvents}, at : 0..MaxListeners,
         due : 0..MaxListeners]
    /\ again \cup misused \subseteq Events /\ hangs \in BOOLEAN

\* What runs is a script, called by the event loop or by the innermost
\* fireJSEvent().
Runs == misused = {} /\ ~hangs
-----------------------------------------------------------------------------
\* addJSEventListener(), add()
AddListener(n) ==
    /\ Runs
    /\ table[n] # NoEvents \/ \E e \in Events : state[e] = "new"
    /\ LET e == IF table[n] # NoEvents THEN table[n]
                ELSE CHOOSE e \in Events : state[e] = "new"
       IN  /\ fields[e].listeners < MaxListeners
           /\ state' = [state EXCEPT ![e] = "alive"]
           /\ table' = [table EXCEPT ![n] = e]
           /\ fields' = [fields EXCEPT ![e] = [@ EXCEPT !.listeners = fields[e].listeners + 1]]
    /\ UNCHANGED <<stack, again, misused, hangs>>

\* remove(): a JSEvents that is being fired is deleted afterwards.
RemoveEvents(e) ==
    IF fields[e].isFiring
    THEN /\ fields' = [fields EXCEPT ![e] = [@ EXCEPT !.deleteAfterFire = TRUE]]
         /\ UNCHANGED state
    ELSE /\ state' = [state EXCEPT ![e] = "freed"]
         /\ UNCHANGED fields

\* removeJSEvent(name): the table forgets them first.
RemoveAll(n) ==
    /\ Runs /\ table[n] # NoEvents
    /\ table' = [table EXCEPT ![n] = NoEvents]
    /\ RemoveEvents(table[n])
    /\ UNCHANGED <<stack, again, misused, hangs>>

\* removeJSEvent(name, func): the loop of remove(func) compares the address of
\* a listener's function with that of the argument, which is never the same,
\* and does not go on to the next.  A JSEvents has at least one listener.
RemoveOne(n) ==
    /\ Runs /\ table[n] # NoEvents
    /\ hangs' = TRUE
    /\ UNCHANGED <<table, state, fields, stack, again, misused>>
-----------------------------------------------------------------------------
\* fireJSEvent(), to the call of the handler that is a property.
Fire(n) ==
    /\ Runs /\ Len(stack) < MaxDepth
    /\ stack' = <<[name |-> n, on |-> NoEvents, at |-> 0, due |-> 0]>> \o stack
    /\ UNCHANGED <<table, state, fields, again, misused, hangs>>

\* What m_TmpEv is while listener i of e is called.
After(e, i) == IF i < fields[e].listeners THEN i + 1 ELSE 0

Top == Head(stack)
Firing == Top.on
Fires(e) == \E i \in DOMAIN stack : stack[i].on = e

\* It returns, and fire() calls the first listener there is.
HandlerReturns ==
    /\ Runs /\ stack # <<>> /\ Firing = NoEvents
    /\ LET e == table[Top.name]
       IN  IF e = NoEvents
           THEN stack' = Tail(stack) /\ UNCHANGED <<fields, again>>
           ELSE /\ stack' = [stack EXCEPT ![1] =
                     [name |-> Top.name, on |-> e, at |-> 1,
                      due |-> fields[e].listeners]]
                /\ fields' = [fields EXCEPT ![e] =
                     [@ EXCEPT !.isFiring = TRUE, !.tmp = After(e, 1)]]
                /\ again' = again \cup (IF Fires(e) THEN {e} ELSE {})
    /\ UNCHANGED <<table, state, misused, hangs>>

\* A listener returns: the next one is what m_TmpEv is by then.
ListenerReturnsWrongly ==
    /\ Runs /\ stack # <<>> /\ Firing # NoEvents
    /\ IF state[Firing] = "freed"
       THEN misused' = {Firing} /\ UNCHANGED <<stack, fields, state>>
       ELSE IF fields[Firing].deleteAfterFire
       THEN /\ state' = [state EXCEPT ![Firing] = "freed"]
            /\ stack' = Tail(stack) /\ UNCHANGED <<fields, misused>>
       ELSE /\ stack' = Tail(stack)
            /\ fields' = [fields EXCEPT ![Firing] = [@ EXCEPT !.isFiring = FALSE, !.tmp = 0]]
            /\ UNCHANGED <<state, misused>>
    /\ UNCHANGED <<table, again, hangs>>
ListenerReturns ==
    /\ Runs /\ stack # <<>> /\ Firing # NoEvents
    /\ misused' = (IF state[Firing] = "freed" THEN {Firing} ELSE {})
    /\ LET next == fields[Firing].tmp
       IN  IF state[Firing] = "freed" THEN UNCHANGED <<stack, fields, state>>
           ELSE IF fields[Firing].deleteAfterFire
           THEN /\ state' = [state EXCEPT ![Firing] = "freed"]
                /\ stack' = Tail(stack) /\ UNCHANGED fields
           ELSE IF next = 0
           THEN /\ stack' = Tail(stack)
                /\ fields' = [fields EXCEPT ![Firing] = [@ EXCEPT !.isFiring = FALSE, !.tmp = 0]]
                /\ UNCHANGED state
           ELSE /\ stack' = [stack EXCEPT ![1] = [@ EXCEPT !.at = next]]
                /\ fields' = [fields EXCEPT ![Firing] = [@ EXCEPT !.tmp = After(Firing, next)]]
                /\ UNCHANGED state
    /\ UNCHANGED <<table, again, hangs>>

EventsNext ==
    \/ \E n \in Name : AddListener(n) \/ RemoveAll(n) \/ RemoveOne(n) \/ Fire(n)
    \/ HandlerReturns \/ ListenerReturns

EventsSpec == EventsInit /\ [][EventsNext]_eventVars
-----------------------------------------------------------------------------
\* Listeners may remove the event they are called for: fire() does not use a
\* JSEvents that is freed, unless a listener has fired the same event again.
RemovedIsNotUsed == misused \subseteq again

\* Whatever listeners add, remove and fire, the listeners an event had when it
\* was fired are called, each once and in their order, unless the event has
\* been removed in the meantime or fired again by one of them.
EveryListenerHears ==
    [][ \A e \in Events \ again' :
        stack # <<>> /\ Firing = e /\ state'[e] = "alive" =>
            \/ Len(stack') > Len(stack)
            \/ Len(stack') = Len(stack) /\ stack'[1].at \in {Top.at, Top.at + 1}
            \/ Len(stack') < Len(stack) /\ Top.at >= Top.due ]_eventVars
=============================================================================
