SPECIFICATION Spec
CHECK_DEADLOCK FALSE
CONSTANTS
    FlushRetries = 0
    MaxPackets = 2
INVARIANT LockIsFreed
