SPECIFICATION Spec
CONSTANTS
    MaxCalls = 3
    MaxFaults = 2
INVARIANTS
    OnlineMeansLoggedIn
    HeldBackForAWhile
    OneUpload
PROPERTIES
    UploadEnds
    LoggedInForGood
