SPECIFICATION Spec
CONSTANTS
    MaxQueue = 3
    MaxWrites = 2
    OtherKinds <- FewKinds
    ClockSteps <- StrictClock
    NoticeBodies = {TRUE}
    PeekLimit = 3
    PollLimit = 3
    HandlerChoices = {TRUE}
    MaxStarts = 2
    MaxFailures = 2
INVARIANT NothingReplayed
CHECK_DEADLOCK FALSE
