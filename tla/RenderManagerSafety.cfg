SPECIFICATION RequestSpec
CONSTANTS
    region1 = region1
    region2 = region2
    map = map
    w1 = w1
    w2 = w2
    NoTask = NoTask
    Worker = {w1, w2}
    Caller = {"c"}
    Task <- MCTask
    Covers <- MCCovers
    ByValue <- MCByValue
    Units <- MCUnits
    HistoryLimit = 1
    MaxStarts = 2
    MaxFailures = 1
INVARIANTS
    BusyCountExact
    NoRedundantTail
    TrackerFollowsHead
    NoRequestLost
PROPERTIES
    HeadGivesWayOnlyWhenDone
    StopIsReal
    AwaitersMeetNoWork
    ImplementsSerialPool
CHECK_DEADLOCK FALSE
