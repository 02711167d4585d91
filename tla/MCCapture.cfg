SPECIFICATION Spec
CONSTANTS
    Controllers = {c1, c2}
    Pollers = {}
    Handles = {h1, h2}
    MaxFrames = 1
    RuleFiles = {file1}
    Builtin = Builtin
    None = None
SYMMETRY MCSymmetry
INVARIANTS
    CallbackSafe
    FlagAgrees
    EngineIsolated
PROPERTIES
    HonestReports
    ImplementsSession
CHECK_DEADLOCK FALSE
