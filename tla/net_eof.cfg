SPECIFICATION Spec
CONSTANTS
    MaxCalls = 3
    MaxTries = 3
    XidTop = 3
    Retries = 2
    MaxExecuted = 5
    Room = 2
    MaxFaults = 2
INVARIANTS OnlyForwards
CHECK_DEADLOCK FALSE
