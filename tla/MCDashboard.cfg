SPECIFICATION FairSpec
CONSTANTS
    MaxCaptures = 3
    MaxPosted = 4
INVARIANTS
    ViewIsCurrent
    FlagHonest
PROPERTIES
    RatesWithinCapture
    EndNoticed
    DisposeReturns
CHECK_DEADLOCK FALSE
