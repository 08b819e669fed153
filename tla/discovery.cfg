SPECIFICATION Spec
CONSTANTS
    MaxStarts = 2
    MaxTasks = 1
INVARIANTS
    TypeOK
    StartedIsListening
    NoBroadcastLeftBehind
    TheyMeet
PROPERTIES
    StopIsFinal
CHECK_DEADLOCK FALSE
