CONSTANTS
    Sock = {s1, s2, s3}
    NoSock = null
    MaxReq = 3
    MaxRedirect = 1
    Environment <- SeekingEnvironment
    Size = 3
    Packet = 2
    MaxSeek = 2
SYMMETRY Symmetry
SPECIFICATION NetSpec
INVARIANTS SeekEnds
CHECK_DEADLOCK FALSE
