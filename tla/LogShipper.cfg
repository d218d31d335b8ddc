\* A container that comes and goes, a crash, a full queue, failing writes and
\* an ending log stream, with lines of one and of two seconds.
CONSTANTS
    Containers = {c1}
    TaskIds = {1, 2, 3}
    QueueSize = 2
    BatchSize = 2
    MaxLines = 3
    MaxTime = 1
    MaxMoves = 3
    MaxCrashes = 1
    MayDrop = TRUE
    MayEnd = TRUE
SPECIFICATION FairSpec
INVARIANTS
    ActiveIsTail
    NothingSkipped
PROPERTIES
    EveryLineStored
\* When all lines are written the shipper waits.
CHECK_DEADLOCK FALSE
