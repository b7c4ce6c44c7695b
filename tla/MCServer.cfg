CONSTANTS
    Con = {c1}
    MaxRequests = 4
    Self = self
    Client = {k1}
    MaxLine = 3
    MaxBytes = 2
    Pid = {p1, p2, p3}
    Workers = 2
    Everybody = everybody
    MaxStarts = 2
    MaxSends = 1
SPECIFICATION ServersSpec
INVARIANTS AnswersInOrder ClosesWhenDone OpenThenClosed DeletedIsLeftAlone
INVARIANTS AttachedIsSafe LineBufferHasTheLine ThreadIsWaitedFor
PROPERTY Supervised
CHECK_DEADLOCK FALSE
