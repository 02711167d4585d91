SPECIFICATION FairSpec
CONSTANTS
    Controllers = {c1}
    Pollers = {p1}
    Handles = {h1}
    MaxFrames = 1
    RuleFiles = {file1}
    Builtin = Builtin
    None = None
INVARIANTS
    RulesAgree
PROPERTIES
    CallsReturn
CHECK_DEADLOCK FALSE
