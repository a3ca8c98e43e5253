SPECIFICATION ListFairSpec
CONSTANTS
    Queries = {q0, q1}
    Sorts = {s0, s1}
    FirstQuery = q0
    FirstSort = s0
    Calls = {c1, c2}
    MaxPage = 3
    MaxRequests = 5
CHECK_DEADLOCK FALSE
PROPERTY LatestResultSpec
PROPERTY LoadingEnds
