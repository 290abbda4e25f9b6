SPECIFICATION RingSpec
CONSTANTS
    MmapSize <- MCMmapSize
    Sizes <- MCSizes
    AlwaysWrap = FALSE
    MaxOutstanding = 3
INVARIANTS
    InsideArea
    NoOverwrite
    DrainedIsFree
