SPECIFICATION DoorFairSpec
CONSTANTS
    Openers = {face, main}
    Delays = {0, 2}
    MaxLeft = 3
    MaxSteps = 1
INVARIANTS
    RelayFollowsStatus
PROPERTIES
    OpenForItsTime
    DoorCloses
