SPECIFICATION Spec
CONSTANTS
    Numbers = {n1, n2}
    MaxCalls = 2
    MaxClicks = 2
    MaxPending = 2
SYMMETRY Symmetry
INVARIANTS
    TypeOK
    AudioOnlyDuringCalls
    WindowsAreCalls
    EndedCallsAreForgotten
CHECK_DEADLOCK FALSE
