SPECIFICATION FairSpec
CONSTANTS
    BatchQueue = 1
    MaxBackoff = 2
    MaxBatches = 1
    MaxBreaks = 1
PROPERTIES
    NeverQueuedWhenDown
CHECK_DEADLOCK FALSE
