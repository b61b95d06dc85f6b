\* Client and session keys of clients that join, set keys and leave.
CONSTANTS
    Client = {c1, c2, c3}
    ClientName = {n1}
    SessionName = {n2}
    AdminName = {n2}
    Admin = {c1, c2}
    Unlucky = {c3}
    Versions <- Growing
    MaxSets = 3
SPECIFICATION Spec
SYMMETRY Alike
INVARIANTS
    TypeOK
    OwnersAreConnected
    SessionKeysReach
    ClientKeysReach
    RemovedKeysVanish
