SPECIFICATION DecisionsSpec
CONSTANTS
    MaxItems = 1
    MaxRevision = 2
    MaxLines = 2
    MaxFailures = 1
    MaxRestores = 1
    MaxBoardOps = 5
INVARIANT
    QueuedItemStays
CHECK_DEADLOCK FALSE
