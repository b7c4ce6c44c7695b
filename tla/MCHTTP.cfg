CONSTANTS
    Sock = {s1, s2, s3}
    NoSock = null
    MaxReq = 3
    MaxRedirect = 1
    Environment <- EveryEnvironment
    Size = 3
    Packet = 2
    MaxSeek = 2
SYMMETRY Symmetry
SPECIFICATION NetSpec
INVARIANTS  NeverStuck NothingOutlives ReaderGetsTheData 
CHECK_DEADLOCK FALSE
