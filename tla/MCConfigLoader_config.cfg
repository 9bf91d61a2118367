SPECIFICATION Spec
CONSTANTS
    Proc = {p1, p2}
    Root <- Files
    MaxEdits = 2
SYMMETRY Symmetric
INVARIANTS
    ConfigInv
PROPERTIES
    OnlyTheUserChangesIt
