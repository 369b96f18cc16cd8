CONSTANTS
    Rooms = {12, 19, 26, 36, 60}
    Bases = {0, 1073741824}
    Lengths = {0, 10, 100}
    PadTo = 24
    CloseCodes = {0, 300}
    ByteBits = 3
    TagLen = 16
    SampleSize = 16
    MaxNumber = 44
    Payloads = {1, 70}
    Tokens = {0, 100}
    Deviations = 2
SPECIFICATION Spec
INVARIANTS
    PayloadIntact
    DatagramIntact
    ParamsIntact
    NoLostDatagramWait
PROPERTIES
    ImplementsOffsetSet
    AssembledExactly
CHECK_DEADLOCK FALSE
