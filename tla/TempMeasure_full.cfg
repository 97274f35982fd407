SPECIFICATION TempSpec
CONSTANTS
    MaxRounds = 3
    Counts = {1, 3}
    WaitCount = 5
    MaxSets = 1
INVARIANTS
    TempIsOwn
PROPERTIES
    RoundEnds
CHECK_DEADLOCK FALSE
