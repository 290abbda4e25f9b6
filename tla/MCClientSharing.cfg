SPECIFICATION Spec
CHECK_DEADLOCK FALSE
SYMMETRY Symmetric
CONSTANTS
    Conns = {c1, c2, c3}
    NoConn = NoConn
    Uuids <- MCUuids
    Projections <- MCProjections
    NoUuid <- MCNoUuid
    Caps <- MCMixed
    Options <- MCOptions
    Limit = 1
    MaxToggles = 1
INVARIANTS
    FenceSound
    NeverReclaimed
    OwnerIsSession
