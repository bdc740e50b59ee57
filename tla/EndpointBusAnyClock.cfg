SPECIFICATION Spec
CONSTANTS
    MaxQueue = 3
    MaxWrites = 3
    OtherKinds <- AllKinds
    ClockSteps <- AnyClock
    NoticeBodies = {TRUE, FALSE}
    PeekLimit = 2
    PollLimit = 2
    HandlerChoices = {TRUE, FALSE}
    MaxStarts = 2
    MaxFailures = 1
INVARIANTS
    TypeOK
    NoneSkipped
    DeliveriesNewer
    StartUpComesFirst
    HistoryWasPolled
PROPERTIES
    Feeds
CHECK_DEADLOCK FALSE
