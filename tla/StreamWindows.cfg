SPECIFICATION Spec
CONSTANTS
    Streams = {s1, s2}
    Pkts = {p1}
    NoStream = NoStream
    MaxOffset = 1
    MaxFrame = 1
    MaxQueue = 0
    Priorities = {1}
    Windows = {1}
    InitWindow = 2
    InitMaxData = 1
    InitMaxStreamData = 1
    DataLimits = {2}
    StreamLimits = {}
    RejectLimits = {1}
    Ops = {"Finish", "Stop", "Reject", "Retry"}
    Fair = FALSE
SYMMETRY StreamSymmetry
CHECK_DEADLOCK FALSE
INVARIANTS
    CreditRespected
    NothingStranded
