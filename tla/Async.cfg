SPECIFICATION MCSpec
CONSTANTS
    Tasks = {a, b}
    First = a
    None = None
    Scenarios <- MCScenarios
    Cancelled = {"write", "open", "onClosed"}
    MaxTransmit = 1
    MaxOut = 1
    RefModulus = 8
    Handles = {h1, h2}
    i1 = i1
    i2 = i2
    r1 = r1
    r2 = r2
SYMMETRY HandleSymmetry
INVARIANTS
    WaitersServed
    EndpointToldOnce
    IndexExact
    TokensSound
    EndpointServed
PROPERTY LastHandleCloses
CHECK_DEADLOCK FALSE
