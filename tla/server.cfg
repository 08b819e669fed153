SPECIFICATION Spec
CONSTANTS
    c1 = c1
    c2 = c2
    Null = Null
    Conns = {c1, c2}
    MAX_THREAD_SIZE = 2
    WorkQueueSize = 1
INVARIANTS
    VerdictsStayApart
    ConnectedIsListed
SYMMETRY Interchangeable
CHECK_DEADLOCK FALSE
