SPECIFICATION FairSpec
CHECK_DEADLOCK FALSE
CONSTANTS
    MaxSoftExpired = 2
    BandwidthLimit = TRUE
    Mmap = TRUE
    VideoRegion = TRUE
    MaxSequence = 2
    MaxSources = 2
    MaxIdle = 1
INVARIANTS
    RegionHasTimer
    NoStrayTimer
    EncodingPendingIsBusy
    GoneMeansDrained
PROPERTY RegionIsSent
