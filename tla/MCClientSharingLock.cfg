SPECIFICATION Spec
CHECK_DEADLOCK FALSE
SYMMETRY Symmetric
CONSTANTS
    Conns = {c1, c2, c3}
    NoConn = NoConn
    Uuids <- MCUuids
    Projections <- MCProjections
    NoUuid <- MCNoUuid
    Caps <- MCLockers
    Options <- MCShared
    Limit = 1
    MaxToggles = 0
PROPERTY LockHolds
