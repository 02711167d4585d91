SPECIFICATION ExportSpec
CONSTANTS
    Endpoints = {1, 2}
    MaxFlows = 2
    IdleTimeout = 3
    ExpiryInterval = 2
    MaxTime = 5
    MaxPackets = 4
    MaxBatch = 1
    MaxCaptures = 2
INVARIANTS
    TypeOK
    TopIsTop
    Accounted
    ChangesExported
PROPERTIES
    ExpiryExact
CHECK_DEADLOCK FALSE
