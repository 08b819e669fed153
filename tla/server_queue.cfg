SPECIFICATION Spec
CONSTANTS
    c1 = c1
    c2 = c2
    c3 = c3
    Null = Null
    Conns = {c1, c2, c3}
    MAX_THREAD_SIZE = 1
    WorkQueueSize = 1
INVARIANTS
    TypeOK
    TurnedAwayLeavesNoTrace
SYMMETRY Interchangeable
CHECK_DEADLOCK FALSE
