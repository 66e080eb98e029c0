CONSTANTS
    Inputs <- MCEdges
    LongBits = 16
    MaxTimers = 2
SPECIFICATION Spec
INVARIANTS DelayOrder
CHECK_DEADLOCK FALSE
