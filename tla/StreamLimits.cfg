SPECIFICATION FairSpec
CONSTANTS
    Bi = TRUE
    Initial = 1
    Counts = {1, 2}
    Remembered = {1, 2}
    MaxStreams = 2
    Fraction = 2
    Ops = {}
CHECK_DEADLOCK FALSE
INVARIANTS
    LimitsExact
PROPERTIES
    OpenerServed
