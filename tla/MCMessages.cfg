CONSTANTS
    Object = {o1, o2}
    NoObject = nullObject
    Message = {m1, m2, m3}
    NoMessage = nullMessage
    Event = {e1}
    Thread = {t1}
    MaxInRow = 3
    MaxCalls = 1
    MaxPending = 2
SPECIFICATION FairSpec
INVARIANTS OwnedAndForTheLiving PendingCoversQueued
PROPERTIES SyncPostDelivers EveryMessageEnds
CHECK_DEADLOCK FALSE
