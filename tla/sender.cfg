SPECIFICATION FairSpec
CONSTANTS
    MaxMessages = 3
    MaxHeartbeats = 2
INVARIANTS
    NoLostWakeup
    EveryMessageAccounted
    AtMostOneAfterStop
PROPERTIES
    AtMostOnce
    Drains
    StopsOnceRunning
CHECK_DEADLOCK FALSE
