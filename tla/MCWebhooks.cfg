\* Documents whose clients come and go, until the clock ends.
CONSTANTS
    DocID = {d1, d2}
    MaxClients = 1
    Delay = 1
    Day = 4
    MaxTime = 5
    MaxIdle = 2
SPECIFICATION FairSpec
CHECK_DEADLOCK FALSE
INVARIANTS
    NoOversleep
    OnlyIdleQueued
PROPERTIES
    SentAfterDelay
    IdleIsReported
