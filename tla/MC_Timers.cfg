CONSTANTS
    Inputs <- MCInRange
    LongBits = 16
    MaxTimers = 3
SPECIFICATION Spec
INVARIANTS NotBeforeDelay DelayOrder NegativeIsImmediate
CHECK_DEADLOCK FALSE
