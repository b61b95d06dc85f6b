\* A teacher with another teacher or a student, under fairness; the document
\* may be deleted and connections may end.
CONSTANTS
    c1 = c1
    Client = {c1, c2}
    TeacherSets <- OneOrAll
    Sizes = {0, 1}
    MaxRequests = 3
    MaxAtDeletion = 1
    InitialTokens <- AllWriters
    NewPermissions <- NoChange
    MaxUpdates = 0
    Deletable = TRUE
    Cautious = TRUE
    MaxLength = 2
    DbMayFail = FALSE
SPECIFICATION StressSpec
PROPERTIES
    DeliveredEventually
    LeaversAreRemoved
    TestGoesOn
