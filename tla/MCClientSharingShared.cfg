SPECIFICATION Spec
CHECK_DEADLOCK FALSE
SYMMETRY Symmetric
CONSTANTS
    Conns = {c1, c2, c3, c4}
    NoConn = NoConn
    Uuids <- MCUuids
    Projections <- MCProjections
    NoUuid <- MCNoUuid
    Caps <- MCLaunches
    Options <- MCFree
    Limit = 3
    MaxToggles = 0
INVARIANTS
    SupersededStaysOut
