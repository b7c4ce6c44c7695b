CONSTANTS
    Ref = {}
    NoRef = nullRef
    Calls = {}
    MaxWork = 1
SPECIFICATION UsersSpec
INVARIANT NoPostAfterDestroyReader
CHECK_DEADLOCK FALSE
