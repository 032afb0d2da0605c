SPECIFICATION FairRequestSpec
CONSTANTS
    region1 = region1
    region2 = region2
    map = map
    w1 = w1
    w2 = w2
    NoTask = NoTask
    Worker = {w1, w2}
    Caller = {"c"}
    Task <- LiveTask
    Covers <- LiveCovers
    ByValue <- LiveByValue
    Units <- LiveUnits
    HistoryLimit = 1
    MaxStarts = 2
    MaxFailures = 1
PROPERTIES
    TasksLeaveQueue
    StopEndsWorkers
    AwaitersAnswered
CHECK_DEADLOCK FALSE
