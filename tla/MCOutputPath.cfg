SPECIFICATION FairSpec
CHECK_DEADLOCK FALSE
CONSTANTS
    FlushRetries = 1
    MaxPackets = 2
INVARIANTS
    NoneLostOrSwapped
    LastIsLast
PROPERTIES
    FlushCloses
    ThreadsStop
