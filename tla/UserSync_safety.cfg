SPECIFICATION Spec
CONSTANTS
    Users = {u1, u2}
    NoUser = NoUser
    MaxClock = 2
    MaxLogins = 1
    MaxRestarts = 1
    TimeoutTicks = 0
SYMMETRY Symmetry
CHECK_DEADLOCK FALSE
INVARIANTS
    TypeOK
    FaceSetIsTable
    RowHasFace
    NoGhost
PROPERTIES
    RowsNeverGoBack
