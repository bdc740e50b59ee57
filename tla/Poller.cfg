SPECIFICATION Spec
CONSTANTS
    Callers = {c}
    InitialDelay = TRUE
    Intervals = {0, 1, 2}
    MaxStarts = 2
    MaxPollNow = 1
    MaxPolls = 4
INVARIANTS
    TypeOK
    OneLoop
PROPERTIES
    StopAlwaysReturns
CHECK_DEADLOCK FALSE
