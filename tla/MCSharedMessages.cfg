CONSTANTS
    Thread = {t1, t2}
    NoThread = none
    Message = {m1, m2, m3}
    NoMessage = null
    Dest = {d1, d2}
    Event = {e1, e2}
SYMMETRY Symmetry
SPECIFICATION Spec
INVARIANTS ListIsWhole NeverDeniesAMessage
PROPERTIES ImplementsMessageQueue
