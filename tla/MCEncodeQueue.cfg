SPECIFICATION EncodeFairSpec
CHECK_DEADLOCK FALSE
CONSTANTS
    Callers <- MCCallers
    UI <- MCUI
    Subsystems <- MCSubsystems
    WorkOf <- MCWorkOf
    AtEndOf <- MCAtEndOf
    MaxItems = 3
INVARIANTS
    OneEncodeThread
    AtEndIsLast
    EndedMeansAllRun
PROPERTY EncodeThreadEnds
