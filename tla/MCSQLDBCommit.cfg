\* One document; a Commit may fail.
CONSTANTS
    a = a
    Caller = {c1, c2}
    DocID = {d1}
    TokenID = {t1}
    User = {u1}
    Contents <- OneUnit
    Permission <- Read
    KeyName = {k1}
    MaxVersion = 1
    Expiration = 1
    CleanInterval = 1
    MaxTime = 3
    MaxLength = 1
    CommitsMayFail = TRUE
SPECIFICATION Spec
PROPERTIES
    AppendsAreStored
