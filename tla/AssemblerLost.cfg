SPECIFICATION Spec
CONSTANTS
    MaxOffset = 4
    MaxBuffers = 3
    Slack = {0, 3}
    MinOverAlloc = 3
    Ops = {"Unordered"}
CHECK_DEADLOCK FALSE
INVARIANT
    NothingLost
