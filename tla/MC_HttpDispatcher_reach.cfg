CONSTANTS
    MaxReqs = 3
    Ceiling = 1
    Paths <- MCPathsLive
SPECIFICATION Spec
INVARIANTS
    RequestsReachHandler
CHECK_DEADLOCK FALSE
