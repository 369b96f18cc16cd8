CONSTANTS
    Controls = {"c"}
    Data = {"d"}
    AckFrequency = FALSE
    PacketThreshold = 2
    Window = 2
    DedupBits = 2
    MaxBlocks = 2
    MaxTail = 1
    Skips = {1}
    Gains = {1}
    Scenarios <- MCScenarios
SPECIFICATION MCSpec
INVARIANTS
    NothingForgotten
    InFlightExact
    ReceiverExact
    
PROPERTIES
    
    PathFollows
CHECK_DEADLOCK FALSE
