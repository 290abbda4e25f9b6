SPECIFICATION FairSpec
CHECK_DEADLOCK FALSE
CONSTANTS
    Files = {f1, f2, s}
    Small = {s}
    Chunks = 2
    MaxFiles = 1
    Asks = {f2, s}
    DiskErrors = FALSE
    ShortWrites = FALSE
    MaxCancels = 1
INVARIANT InFlightCausesNoError
