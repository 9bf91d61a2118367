SPECIFICATION Spec
CONSTANTS
    Proc = {p1, p2}
    Scope = {all}
    MAX_SNAPSHOTS = 2
    MaxScans = 3
SYMMETRY Symmetric
CHECK_DEADLOCK FALSE
INVARIANTS
    GrowthSincePrevious
