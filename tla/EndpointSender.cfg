SPECIFICATION Spec
CONSTANTS
    in1 = in1
    in2 = in2
    out1 = out1
    out2 = out2
    Keys = {in1, in2, out1, out2}
    NoKey = NoKey
    Bindings <- MCBindings
    Relay <- MCRelay
    Declarations <- MCDeclarations
    Declarers = {d1, d2}
    PressedKeys = {{out1, out2}}
    MaxPresses = 1
    MaxDeclares = 2
    MaxFaults = 1
SYMMETRY Symmetry
INVARIANTS
    TypeOK
    LoopsTrip
    ClassIsCores
CHECK_DEADLOCK FALSE
