SPECIFICATION Spec
CHECK_DEADLOCK FALSE
SYMMETRY Symmetry
CONSTANTS
    Xids = {x1, x2}
    Self = self
    NoOwner = nobody
    Copied = {{"text"}, {"uri-list", "text"}}
    CanReceive = TRUE
    MaxStamps = 3
    MaxInputs = 1
    MaxQueue = 2
INVARIANTS
    QuietMeansAnnounced
    TokenOfOneOffer
PROPERTIES
    TokenOfLocalOwner
    OneContentPerIdUnlessOdd
