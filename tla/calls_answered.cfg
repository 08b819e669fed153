SPECIFICATION Spec
CONSTANTS
    Numbers = {n1, n2}
    MaxCalls = 2
    MaxClicks = 1
    MaxPending = 2
PROPERTIES
    AcceptedIsAnswered
CHECK_DEADLOCK FALSE
