\* Messages around the limits of frames of 12 bytes.
CONSTANTS
    Message <- Messages
    MaxSize = 12
    MaxMessages = 2
SPECIFICATION Spec
INVARIANTS
    NeverPanics
    FramesFit
    DecodedAsSent
PROPERTIES
    IsOutbox
