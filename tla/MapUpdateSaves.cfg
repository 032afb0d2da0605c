SPECIFICATION FairSpec
CONSTANTS
    r1 = r1
    r2 = r2
    first = first
    last = last
    w1 = w1
    w2 = w2
    Region = {r1, r2}
    SaveTask = {first, last}
    Subtasks <- MCSubtasks
    Tiles <- MCTiles
    Worker = {w1, w2}
    Crews <- OneOrTwo
    CellOf <- WideHashCells
    CacheSize = 1
INVARIANTS
    SavesOnce
    HashesBehindTiles
    CheckpointFirst
    UpdateCommittedAlone
    StorageConsistent
PROPERTIES
    UpdateEnds
CHECK_DEADLOCK FALSE
