SPECIFICATION Spec
CONSTANTS
    Forcers = {f}
    Answers = {"OK", "odd", "panic"}
    MaxProbes = 2
INVARIANTS
    TypeOK
    ReportIsOfItsProbe
    CoreKnowsLast
PROPERTIES
    NothingHangs
CHECK_DEADLOCK FALSE
