CONSTANTS
    t1 = t1
    t2 = t2
    l1 = l1
    l2 = l2
    Threads <- MCThreads
    Loops <- MCLoops
    NoLoop = NoLoop
    NoThread = NoThread
    MaxRuns = 3
    MaxPending = 1
SPECIFICATION Spec
INVARIANT CoreOwnedUntilClosed
CHECK_DEADLOCK FALSE
