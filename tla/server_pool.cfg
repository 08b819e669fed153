SPECIFICATION FairSpec
CONSTANTS
    c1 = c1
    c2 = c2
    Null = Null
    Conns = {c1, c2}
    MAX_THREAD_SIZE = 1
    WorkQueueSize = 1
PROPERTIES
    SilenceFreesThread
    QueueIsServed
CHECK_DEADLOCK FALSE
