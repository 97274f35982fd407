SPECIFICATION FaceFairSpec
CONSTANTS
    Tracks = {a, b}
    NoTrack = NoTrack
    MaxAhead = 1
INVARIANTS
    DecisionIsOwn
    HeldForAFace
PROPERTIES
    OneAfterTheOther
    FaceIsSeen
