CONSTANTS
    MaxWrites = 4
    MaxReads = 2
    SndCap = 1
    Boundary = 2
SPECIFICATION Spec
INVARIANT CloseDeliversWrites
CHECK_DEADLOCK FALSE
