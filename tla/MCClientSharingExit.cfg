SPECIFICATION Spec
CHECK_DEADLOCK FALSE
SYMMETRY Symmetric
CONSTANTS
    Conns = {c1, c2, c3}
    NoConn = NoConn
    Uuids <- MCUuids
    Projections <- MCProjections
    NoUuid <- MCNoUuid
    Caps <- MCOne
    Options <- MCExit
    Limit = 1
    MaxToggles = 0
INVARIANT RefusedMeansExit
PROPERTY ExitOnlyWhenEmpty
