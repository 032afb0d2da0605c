SPECIFICATION Spec
CONSTANTS
    a = a
    b = b
    w1 = w1
    w2 = w2
    Chunk = {a, b}
    Worker = {w1}
    Settings <- StoredSettings
INVARIANTS
    RecordedIsCurrent
    GeneratedTilesKeptQuiet
    StateTellsOfTile
    OutsideTilesUnrendered
PROPERTIES
    NoStaleTerrainQuiet
CHECK_DEADLOCK FALSE
