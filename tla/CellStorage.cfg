SPECIFICATION Spec
CONSTANTS
    Pos = {p1, p2, p3}
    Slot = {s1, s2}
    Value = {0, 1}
    CacheSize = 2
    Callers = {1, 2}
    MaxCalls <- MCMaxCalls
    MaxSaves = 1
    MaxErrors = 1
SYMMETRY MCSymmetry
INVARIANTS
    TypeOK
    OnlyRacedCellsLose
PROPERTY
    SavedIsStored
CHECK_DEADLOCK FALSE
