SPECIFICATION MCSpec
CONSTANTS
    Requests = {r1, r2}
    Answers = {yes, no}
    NotSet = notSet
    Loads = {l1, l2}
    MaxLoads = 3
    MaxAnswers = 3
    Today = 2
    Ranges <- MCRanges
    InitialDays = 2
    StepDays = 2
    MaxDays = 5
    EventCalls = {c1, c2}
    MaxRequests = 5
CHECK_DEADLOCK FALSE
SYMMETRY Symmetry
INVARIANT SettledShown
INVARIANT RangeLoadedUnlessTorn
