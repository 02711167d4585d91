SPECIFICATION FairSpec
CONSTANTS
    Handlers = {h1, h2}
    WarmupBatches = 2
    WarmupSamples = 3
    RetrainEvery = 2
    MaxSamples = 3
    MaxRows = 1
    MaxBatches = 4
    MaxVersions = 2
INVARIANTS
    NothingMissed
PROPERTIES
    HealthTruthful
    TrainingSettles
    CloseReturns
CHECK_DEADLOCK FALSE
