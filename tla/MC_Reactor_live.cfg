CONSTANTS
    t1 = t1
    t2 = t2
    l1 = l1
    l2 = l2
    Threads <- MCThreads
    Loops <- MCOneLoop
    NoLoop = NoLoop
    NoThread = NoThread
    MaxRuns = 2
    MaxPending = 1
SPECIFICATION FairSpec
PROPERTIES
    StopEndsRun
CHECK_DEADLOCK FALSE
