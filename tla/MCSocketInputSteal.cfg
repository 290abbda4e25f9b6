SPECIFICATION InputSpec
CONSTANTS
    Streams <- MCStreams
    HeaderSize = 2
    MaxRaw = 3
    MaxIndex = 5
    MaxFirstSize = 2
    MaxSize = 3
    AbsMaxSize = 4
    RaisedMaxSize = 4
    RaisedAbsMaxSize = 5
    ReadSize = 3
    QueueSize = 2
    MaxEmpty = 1
INVARIANT StealLosesNothing
CHECK_DEADLOCK FALSE
