SPECIFICATION ReportsSpec
CONSTANTS
    Proc = {p1, p2}
    Scope = {"stats", "scanNode", "dashboard", "recommend"}
    Line <- Lines
    MAX_SNAPSHOTS = 2
    MaxScans = 3
    Kilo = 2
    UintMax = 81
    MB = 4
    MaxInt = 40
    DefaultCategory = ""
    Worlds <- BothWorlds
SYMMETRY Symmetric
CHECK_DEADLOCK FALSE
INVARIANTS
    NewestFirst
    LostOnlyToOverlap
    GrowthIsReal
    TrendEndsInTotal
PROPERTIES
    KeepsRecent
