SPECIFICATION Spec
CONSTANTS
    any = any
    Handlers = {h1, h2, h3, h4}
    Wildcards <- OneWildcard
    Nothing = Nothing
    MaxMessages = 2
INVARIANTS
    RegisteredIsKept
CHECK_DEADLOCK FALSE
