\* Every interleaving of reader, hub, writer and link, under fairness.
CONSTANTS
    Msg = {m1}
    KeyName = {k1, k2}
    MaxVersion = 2
    MaxMessages = 3
    MaxNotices = 2
SPECIFICATION FairSpec
INVARIANTS
    TypeOK
    NoLostWakeup
    FlushedBeforeClose
    NewestKeyKept
PROPERTIES
    IsOutbox
    QueuedIsSent
    KeysAreSent
    LeaverIsClosed
