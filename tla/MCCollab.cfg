\* Three clients join, append, lose permissions and leave; calls may fail, and
\* the document may be deleted early on.
CONSTANTS
    Client = {c1, c2, c3}
    Sizes <- OneUnit
    MaxRequests = 1
    InitialTokens <- AllWriters
    NewPermissions <- Revoke
    MaxUpdates = 1
    Deletable = TRUE
    Cautious = TRUE
    MaxLength = 0
    DbMayFail = TRUE
SPECIFICATION Spec
SYMMETRY Symmetry
CONSTRAINT FewAtDeletion
INVARIANTS
    TypeOK
    Fidelity
    AtMostOnce
    AckedIsStored
    NothingForgotten
