SPECIFICATION FairSpec
CONSTANTS
    BatchQueue = 2
    MaxBackoff = 3
    MaxBatches = 3
    MaxBreaks = 2
INVARIANTS
    Accounted
    AtMostOnce
PROPERTIES
    ShutdownCompletes
    Reconnects
    QueueMoves
CHECK_DEADLOCK FALSE
