SPECIFICATION FairSpec
CONSTANTS
    MaxClients = 2
    MaxSwitches = 1
    MaxConnects = 2
    MaxTroubles = 1
INVARIANT PausedStaysStopped
INVARIANT OnlyCurrentSyncs
INVARIANT FollowsApp
CHECK_DEADLOCK FALSE
PROPERTY EndedStops
PROPERTY FailedRestarts
