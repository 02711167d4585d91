SPECIFICATION Spec
CONSTANTS
    MaxCaptures = 3
    MaxPosted = 4
INVARIANT
    DestroyedOnExit
CHECK_DEADLOCK FALSE
