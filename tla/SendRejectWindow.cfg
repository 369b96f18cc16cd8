SPECIFICATION Spec
CONSTANTS
    Streams = {s1}
    Pkts = {p1}
    NoStream = NoStream
    MaxOffset = 1
    MaxFrame = 1
    MaxQueue = 0
    Priorities = {}
    Windows = {}
    InitWindow = 1
    InitMaxData = 1
    InitMaxStreamData = 1
    DataLimits = {}
    StreamLimits = {}
    RejectLimits = {1}
    Ops = {"Reject"}
    Fair = TRUE
CHECK_DEADLOCK FALSE
INVARIANT
    UnackedExact
