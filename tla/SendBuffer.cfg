SPECIFICATION FairSpec
CONSTANTS
    Streams = {s1}
    Pkts = {p1, p2, p3}
    NoStream = NoStream
    MaxOffset = 3
    MaxFrame = 2
    MaxQueue = 0
    Priorities = {}
    Windows = {}
    InitWindow = 3
    InitMaxData = 2
    InitMaxStreamData = 2
    DataLimits = {3}
    StreamLimits = {3}
    RejectLimits = {}
    Ops = {"Finish", "Reset"}
    Fair = TRUE
CHECK_DEADLOCK FALSE
INVARIANTS
    TypeOK
    SentBytePlaced
    UnackedAccounting
    EndsOnce
PROPERTY
    SendersServed
