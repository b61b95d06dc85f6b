\* Two members of a session append, one after the other's change.
CONSTANTS
    Client = {c1, c2, c3}
    Sizes <- OneUnit
    MaxRequests = 1
    InitialTokens <- AllWriters
    NewPermissions <- NoChange
    MaxUpdates = 0
    Deletable = FALSE
    Cautious = TRUE
    MaxLength = 0
    DbMayFail = FALSE
SPECIFICATION Spec
SYMMETRY Symmetry
INVARIANT
    RegisteredGetAcked
