\* A client that loses its access stays connected.
CONSTANTS
    Msg = {m1}
    KeyName = {k1}
    MaxVersion = 1
    MaxMessages = 2
    MaxNotices = 0
SPECIFICATION FairSpec
PROPERTIES
    LostAccessIsClosed
