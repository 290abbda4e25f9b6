SPECIFICATION FairSpec
CHECK_DEADLOCK FALSE
CONSTANTS
    FlushRetries = 0
    MaxPackets = 2
PROPERTY PutReturns
