CONSTANTS
    PoolSize = 2
    MaxIdle = 1
    Managed = {o1, o2}
    NoManaged = nullManaged
    Task = {a, b}
    NoTask = nullTask
    Owner = owner_thread
    NoThread = no_thread
    Careful = {o1}
SPECIFICATION FairSpec
INVARIANTS TaskQueuedIsExact DeletionIsSafe TasksAreSerial NoLostWakeup StoppedIsQuiet
PROPERTIES NothingWaitsForEver
CHECK_DEADLOCK FALSE
