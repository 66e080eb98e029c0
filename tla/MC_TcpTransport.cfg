CONSTANTS
    MaxWrites = 4
    MaxReads = 2
    SndCap = 1
    Boundary = 2
SPECIFICATION FairSpec
INVARIANTS
    WriteOrder
    FlushedMeansEmpty
    ReadCompleteAtEof
PROPERTIES
    EventuallyDelivered
CHECK_DEADLOCK FALSE
