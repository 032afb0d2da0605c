SPECIFICATION FairSpec
CONSTANTS
    Regions = {"r1", "r2"}
    Existing = {"r1"}
    MaxQueue = 2
    Cooldown = 2
    MinDelay = 1
    Intervals = {0, 1}
    MaxEvents <- MCMaxEvents
INVARIANTS
    NoChangeForgotten
    StoppedIsFact
PROPERTIES
    DelaysKept
    ReportedIsDrawn
    FullUpdateHeals
    CloseEnds
CHECK_DEADLOCK FALSE
