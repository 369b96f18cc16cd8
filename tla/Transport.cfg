SPECIFICATION MCSpec
CONSTANTS
    QueueLen = 3
    FirstIds = 2
    MaxMoves = 1
    MaxExpired = 1
    MaxLosses = 1
    Server = TRUE
    Ops = {}
CHECK_DEADLOCK FALSE
INVARIANTS
    KeysAgree
    MtuExact
    PathsAgree
    PathsCleared
    NoHandshakeHalt
    EndsExactly
PROPERTY
    IdsAgree
