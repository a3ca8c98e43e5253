SPECIFICATION MCSpec
CONSTANTS
    Rooms = {r1, r2}
    PageSize = 1
    MaxRoomChanges = 2
    MaxEvents = 3
    MaxNotices = 3
    OlderPages = 2
    NoticeBuffer = 1
    MaxTokens = 4
    MaxStarts = 4
    MaxMisses = 1
CHECK_DEADLOCK FALSE
SYMMETRY Symmetry
INVARIANT SettledListShown
INVARIANT ModesShown
INVARIANT TimelineAgrees
INVARIANT StreamsEnd
INVARIANT RefreshOnce
INVARIANT EndedOnlyIfRejected
PROPERTY UpdateTakesOver
