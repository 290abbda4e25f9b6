SPECIFICATION Spec
SYMMETRY Symmetry
CHECK_DEADLOCK FALSE
CONSTANTS
    Apps = {a1, a2}
    Clients = {c1, c2}
    NoClient = none
    NoTarget = nothing
    Targets <- MCTargets
    Offered <- MCOffered
    Translated <- MCTranslated
    Tokens <- MCTokens
    MaxIds = 2
    MaxCopies = 2
    MaxInbox = 1
    MaxTakes = 2
    MaxResets = 2
INVARIANTS
    AnsweredOnce
    WaitersHaveTimer
    FreshAnswer
