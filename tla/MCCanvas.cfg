CONSTANTS
    Canvas = {root, c1, c2, c3}
    Null = null
    Root = root
    Id = {x, y}
    NoId = noid
    Environment <- EveryEnvironment
    Name = {a, b}
    Events = {e1, e2}
    NoEvents = none
    MaxListeners = 3
    MaxDepth = 2
SYMMETRY Symmetry
SPECIFICATION InterfaceSpec
INVARIANTS TreeIsWhole NamesAreLive TopmostHandlesOnce NothingDeletedIsUsed
PROPERTIES KeepsOrder EveryListenerHears
CHECK_DEADLOCK FALSE
