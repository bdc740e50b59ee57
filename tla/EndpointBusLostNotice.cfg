SPECIFICATION Spec
CONSTANTS
    MaxQueue = 3
    MaxWrites = 2
    OtherKinds <- FewKinds
    ClockSteps <- StrictClock
    NoticeBodies = {TRUE, FALSE}
    PeekLimit = 2
    PollLimit = 3
    HandlerChoices = {TRUE}
    MaxStarts = 1
    MaxFailures = 1
INVARIANT DrainedIsCurrent
CHECK_DEADLOCK FALSE
