SPECIFICATION Spec
CHECK_DEADLOCK FALSE
CONSTANTS
    Readers = {r1, r2}
    Targets <- MCTargets
    NoTarget = none
    Parts = 1
    MaxCopies = 2
    MaxTokens = 1
    MaxQueue = 3
INVARIANT CalledOnce
PROPERTY ReadsImplementPromise
