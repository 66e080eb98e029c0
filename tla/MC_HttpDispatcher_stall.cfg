CONSTANTS
    MaxReqs = 3
    Ceiling = 1
    Paths <- MCPathsDispatch
SPECIFICATION FairSpec
PROPERTIES
    RequestsProceed
CHECK_DEADLOCK FALSE
