SPECIFICATION Spec
CONSTANTS
    Sources = {s1, s2, s3}
    Values = {v1, v2}
    Window = 2
    Cooldown = 2
    Threshold = 2
    MaxSources = 2
    MaxEvents = 3
    MaxTime = 3
    MaxPackets = 6
SYMMETRY MCSymmetry
INVARIANTS
    TypeOK
    CountsAgree
PROPERTIES
    ImplementsDetector
CHECK_DEADLOCK FALSE
