SPECIFICATION FairSpec
CONSTANTS
    Loads = {l1, l2}
    MaxAccess = 2
    MaxRefreshes = 3
CHECK_DEADLOCK FALSE
INVARIANT OneLoad
PROPERTY CatchesUp
PROPERTY LoadsEnd
