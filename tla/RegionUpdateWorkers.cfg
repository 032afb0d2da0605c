SPECIFICATION FairSpec
CONSTANTS
    a = a
    b = b
    w1 = w1
    w2 = w2
    Chunk = {a}
    Worker = {w1, w2}
    Settings <- WorkerSettings
INVARIANTS
    TilesClaimedOnce
PROPERTIES
    RecordedAfterAllTiles
    CallsReturn
    RegionIsCompleted
CHECK_DEADLOCK FALSE
