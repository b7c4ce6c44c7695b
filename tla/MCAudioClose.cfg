CONSTANTS
    Source = {s1, s2}
    NoSource = nullSource
    Ops = {"add", "open", "close"}
    Ring = 1
    MaxDecoded = 1
    Parts = {"audio"}
    Samples = 2
    MaxPackets = 1
    MaxTimers = 2
    Scripts = {{}}
SPECIFICATION PartsSpec
INVARIANTS CloseGetsTheLocks
CHECK_DEADLOCK FALSE
