\* A client joins while the only writer appends.
CONSTANTS
    Client = {c1, c2}
    Sizes <- OneUnit
    MaxRequests = 1
    InitialTokens <- OneWriter
    NewPermissions <- NoChange
    MaxUpdates = 0
    Deletable = FALSE
    Cautious = TRUE
    MaxLength = 0
    DbMayFail = FALSE
SPECIFICATION Spec
SYMMETRY Symmetry
INVARIANT
    EveryoneGetsAcked
