SPECIFICATION Spec
CONSTANTS
    Streams = {s1, s2}
    s1 = s1
    s2 = s2
    MaxOffset = 1
    StreamWindow = 1
    InitWindow = 1
    Windows = {}
    MaxLocal = 0
    Fraction = 2
    VarIntMax = 100
    Ops = {"Reset"}
CHECK_DEADLOCK FALSE
INVARIANT
    RepeatedResetIgnored
