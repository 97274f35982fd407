SPECIFICATION FairSpec
CONSTANTS
    Users = {u1}
    NoUser = NoUser
    MaxClock = 2
    MaxLogins = 1
    MaxRestarts = 0
    TimeoutTicks = 1
CHECK_DEADLOCK FALSE
PROPERTIES
    DownloadEnds
