SPECIFICATION Spec
CONSTANTS
    Messages = 3
    MaxSize = 3
    MaxBreaks = 1
    None = None
INVARIANTS
    InOrderOnce
    OwedIsParsed
CHECK_DEADLOCK FALSE
