CONSTANTS
    Ref = {r1, r2}
    NoRef = nullRef
    Calls = {"open_r", "read"}
    MaxWork = 2
SPECIFICATION UsersSpec
PROPERTIES AbandonedIsCollected
CHECK_DEADLOCK FALSE
