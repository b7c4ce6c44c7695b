CONSTANTS
    Source = {s1}
    NoSource = nullSource
    Ops = {"connect", "add", "open", "set", "call", "play", "close",
           "release", "shutdown"}
    Ring = 1
    MaxDecoded = 1
    Parts = {"audio", "video"}
    Samples = 2
    MaxPackets = 1
    MaxTimers = 2
    Scripts = {{"play", "seek"}, {"play", "size"}, {"open", "play"},
               {"play", "pause", "close"}, {"play", "stop"}, {"frames"}}
SPECIFICATION PartsSpec
INVARIANTS DeletedInPeace NobodyWaitsInVain ShowsWhatWasSought PlayingGoesOn ClosesForGood
CHECK_DEADLOCK FALSE
