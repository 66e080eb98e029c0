CONSTANTS
    MaxReqs = 5
    Ceiling = 2
    Paths <- MCPaths
SPECIFICATION Spec
INVARIANTS
    TypeOK
    CeilingRespected
    StartsInOrder
PROPERTY
    ImplementsQueue
CHECK_DEADLOCK FALSE
