SPECIFICATION Spec
CONSTANTS
    Drivers = {a, b}
    Senders = {a}
    Targets = {b}
    Groups = {{a, b}}
    Calls = {c1, c2}
    CorrIDs = {k1, k2}
    NoCall = NoCall
    FastForwardMax = 2
    MaxFaults = 1
INVARIANTS
    TypeOK
    NoStaleEntry
    ReplyNotLost
PROPERTIES
    AnswersTruly
    EveryCallReturns
CHECK_DEADLOCK FALSE
