SPECIFICATION FairSpec
CONSTANTS
    MaxQueue = 3
    MaxWrites = 2
    OtherKinds <- FewKinds
    ClockSteps <- StrictClock
    NoticeBodies = {TRUE}
    PeekLimit = 2
    PollLimit = 3
    HandlerChoices = {TRUE}
    MaxStarts = 2
    MaxFailures = 2
INVARIANTS
    DrainedIsCurrent
PROPERTIES
    ReachesCurrent
    StopReturns
CHECK_DEADLOCK FALSE
