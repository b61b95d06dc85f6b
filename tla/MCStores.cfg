\* Each of the three stores with every call.  The permission is the name of the
\* user: so UpdateUser of SQLDB, which exchanges the two, finds a row.
CONSTANTS
    a = a
    Caller = {c1, c2}
    Server = {s1}
    DocID = {d1}
    TokenID = {t1}
    User = {u1}
    Contents <- OneUnit
    Permission = {u1}
    KeyName = {k1}
    MaxVersion = 1
    MaxEntries = 2
    Expiration = 2
    CleanInterval = 2
    MaxTime = 5
    MaxLength = 1
    SQLExpiration = 1
    SQLCleanInterval = 1
    SQLMaxTime = 3
    RedisMaxTime = 2
    MaxCalls = 3
SYMMETRY Callers
SPECIFICATION StoresSpec
INVARIANTS
    TypeOK
    SQLTypeOK
    KeysHaveDocuments
    RedisTypeOK
    IndexComplete
PROPERTIES
    IsDocumentDB
    SQLIsDocumentDB
    SQLTokensLast
    RedisIsDocumentDB
    KeysAreCompared
