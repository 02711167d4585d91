SPECIFICATION FairSpec
CONSTANTS
    MaxIdLen = 1
    Contents <- MCContents
    Files = {f1, f2}
    Builtin = Builtin
    None = None
    MaxSaves = 3
    MaxPicks = 2
INVARIANTS
    RulesMeant
PROPERTIES
    LastSaveLoaded
CHECK_DEADLOCK FALSE
