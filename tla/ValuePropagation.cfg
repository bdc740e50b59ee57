CONSTANTS
    Callers = {c1, c2}
    Us = us
    fan = fan
    Devices = {fan}
    Endpoints = {"dim"}
    Rows <- MCRows
    Values = {"on"}
    HasHandler = TRUE
    Setters = {c1}
    Interval = 1
    Timeout = 1
    MaxTime = 3
    MaxEdits = 2
SPECIFICATION Spec
INVARIANTS TypeOK BoundDevicesTold
PROPERTIES ReadsRecent
CHECK_DEADLOCK FALSE
