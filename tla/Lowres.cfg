SPECIFICATION FairSpec
CONSTANTS
    Pos <- MCPos
    Writes <- MCWrites
    GridSize <- MCGridSize
    LodFactor = 2
    LodCount = 2
    MaxPending = 3
    Bounds <- MCBounds
    Threads = {1, 2}
INVARIANTS
    TypeOK
    OneWorkerLosesNothing
    SaveIsComplete
    PurgeIsFinal
PROPERTIES
    SavesEnd
CHECK_DEADLOCK FALSE
