SPECIFICATION Spec
CONSTANTS
    Proc = {p1, p2}
    Root <- Files
    MaxEdits = 1
SYMMETRY Symmetric
INVARIANTS
    SavesOnlyConverted
