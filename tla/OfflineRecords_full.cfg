SPECIFICATION FairSpec
CONSTANTS
    Passages = {p1, p2}
    None = None
    Seconds = {1, 2}
    MaxFlight = 1
    MaxRestarts = 1
INVARIANTS
    SecondKept
PROPERTIES
    EveryRowIsTried
