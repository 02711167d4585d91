SPECIFICATION Spec
CONSTANTS
    MaxJumps = 2
    MaxName = 5
    Messages <- MCMessages
    MaxTags = 2
    MaxExts = 3
    Frames <- MCFrames
    Digits = 16
    MicrosPerSec = 4
    NanosPerMicro = 2
    MaxRecord = 200
    Chunks = {7, 16}
    StartTs = 6
    MaxGap = 2
    InjectEvery = 2
    MaxPayload = 2
    Domains <- MCDomains
    TunnelName <- MCTunnelName
    GenPackets = 2
    Captures <- MCCaptures
INVARIANTS
    WalkBounded
    InBounds
    ParsedAsMeant
    ReadersAgree
    CountersAgree
    GeneratedReadsBack
CHECK_DEADLOCK FALSE
