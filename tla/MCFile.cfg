CONSTANTS
    Ref = {r1, r2}
    NoRef = nullRef
    Calls = {"open_r", "open_w", "read", "write", "seek"}
    MaxWork = 2
SPECIFICATION UsersSpec
INVARIANTS UnrootedIsQuiet NothingForTheDeleted
PROPERTIES EveryUserIsAnswered
CHECK_DEADLOCK FALSE
