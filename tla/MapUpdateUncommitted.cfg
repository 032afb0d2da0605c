SPECIFICATION Spec
CONSTANTS
    r1 = r1
    r2 = r2
    first = first
    last = last
    w1 = w1
    w2 = w2
    Region = {r1, r2}
    SaveTask = {first, last}
    Subtasks <- MCSubtasks
    Tiles <- MCTiles
    Worker = {w1, w2}
    Crews <- Two
    CellOf <- MCCellOf
    CacheSize = 4
INVARIANTS
    UpdateCommitted
CHECK_DEADLOCK FALSE
