SPECIFICATION Spec
CONSTANTS
    MaxPastes = 2
    Shapes <- MCShapes
    MaxCopies = 2
    MaxPhases = 1
    MaxTakes = 2
    MaxInputs = 3
INVARIANTS
    LocalCopyAnnounced
    RetiredIsReleased
    FreshPaste
PROPERTIES
    NeverEchoed
    PasteEnds
CHECK_DEADLOCK FALSE
