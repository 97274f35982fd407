SPECIFICATION Spec
CONSTANTS
    Connections = 2
    Uploads = 2
    Pieces = 2
    MaxTalk = 2
    MaxCrashes = 1
INVARIANTS
    RefusedOnlyIfSpoilt
    HeartbeatIsTimed
PROPERTIES
    SilenceIsTold
CHECK_DEADLOCK FALSE
