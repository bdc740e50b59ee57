SPECIFICATION Spec
CONSTANTS
    Emitters = {e1, e2}
    QueueMax = 3
    BatchMax = 2
    MaxEvents = 6
INVARIANTS
    TypeOK
    AllAccountedFor
    FullBatchWakes
    CloseSendsQueued
PROPERTIES
    KeepsLog
    CloseEndsRun
CHECK_DEADLOCK FALSE
