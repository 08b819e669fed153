SPECIFICATION FairSpec
CONSTANTS
    MaxMessages = 1
    MaxHeartbeats = 1
PROPERTIES
    ReleaseStopsSender
CHECK_DEADLOCK FALSE
