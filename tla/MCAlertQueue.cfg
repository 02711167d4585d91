SPECIFICATION Spec
CONSTANTS
    Producers = {capture, feeder, exporter}
    Capacity = 2
    PerFrame = 2
    MaxAlerts = 5
SYMMETRY MCSymmetry
INVARIANTS
    Accounted
    NewestKept
    OwnOrder
CHECK_DEADLOCK FALSE
