SPECIFICATION Spec
CONSTANTS
    r1 = r1
    r2 = r2
    e1 = e1
    e2 = e2
    e3 = e3
    d1 = d1
    Root <- MCRoot
    Entry <- MCEntry
    Regular <- MCRegular
    Below <- Disjoint
    Inside <- NoneInside
    Protected = {r1}
    Volatile = {}
    FileSize = {0, 2}
    UintMax = 15
    MaxDisturb = 0
    CommandLines <- StaleLines
    Layouts <- MCLayouts
    Installed = {}
PROPERTIES
    StopsWhenInterrupted
