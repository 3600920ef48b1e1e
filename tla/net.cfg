SPECIFICATION FairSpec
CONSTANTS
    MaxCalls = 3
    MaxTries = 3
    XidTop = 3
    Retries = 2
    MaxExecuted = 5
    Room = 2
    MaxFaults = 2
INVARIANTS TypeOK AnsweredUnderItsXid
PROPERTIES  ForwardEnds
CHECK_DEADLOCK FALSE
