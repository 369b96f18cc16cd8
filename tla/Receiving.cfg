SPECIFICATION MCSpec
CONSTANTS
    Streams = {s1}
    s1 = s1
    r1 = r1
    MaxOffset = 2
    StreamWindow = 1
    InitWindow = 1
    Windows = {}
    MaxLocal = 0
    Fraction = 2
    VarIntMax = 100
    Ops = {"Stop", "Reset", "Finish"}
CHECK_DEADLOCK FALSE
INVARIANTS
    HonestPeerAccepted
    CreditAccounted
    ReaderTold
    WindowKept
    LimitsNotLost
PROPERTY
    ReceiversServed
