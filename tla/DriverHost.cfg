SPECIFICATION ProgramSpec
CONSTANTS
    Devices = {a, b}
    QueueSize = 1
    Hanging = {a}
    MaxCommands = 3
INVARIANTS
    TypeOK
    ConnectionOwned
    NothingLeftBehind
PROPERTIES
    Supervises
    ProgramExits
    HandedIsCarriedOut
    NotHeldUpByOthers
