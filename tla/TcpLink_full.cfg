SPECIFICATION FairSpec
CONSTANTS
    Off = Off
    HeartbeatTicks = 6
    RequestTicks = 6
    ConnectTicks = 2
    MaxFaults = 3
    MaxWrites = 2
INVARIANTS
    WillWake
    NoStrayRetry
PROPERTIES
    AnsweringPeerKept
    LoggedInAgain
