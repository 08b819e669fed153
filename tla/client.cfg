SPECIFICATION FairSpec
CONSTANTS
    t1 = t1
    t2 = t2
    t3 = t3
    Null = Null
    Threads = {t1, t2, t3}
INVARIANTS
    NoGhostConnection
    StartedAgainOnlyIfLetIn
    
    
PROPERTIES
    NoRevival
    SilenceEndsThread
    StopEndsThread
CHECK_DEADLOCK FALSE
