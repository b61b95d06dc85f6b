\* A document that is read again and again.
CONSTANTS
    a = a
    Caller = {c1}
    Server = {s1}
    DocID = {d1}
    TokenID = {t1}
    User = {u1}
    Contents <- OneUnit
    Permission <- Read
    KeyName = {k1}
    MaxVersion = 1
    Expiration = 2
    CleanInterval = 1
    MaxTime = 2
    MaxLength = 1
    MaxCalls = 3
SPECIFICATION Spec
PROPERTIES
    KeepsContract
