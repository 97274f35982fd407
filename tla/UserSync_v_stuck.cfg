SPECIFICATION Spec
CONSTANTS
    Users = {u1}
    NoUser = NoUser
    MaxClock = 2
    MaxLogins = 2
    MaxRestarts = 0
    TimeoutTicks = 1
CHECK_DEADLOCK FALSE
INVARIANTS
    SyncFlagMeansSync
