SPECIFICATION FairSpec
CONSTANTS
    r1 = r1
    r2 = r2
    e1 = e1
    e2 = e2
    e3 = e3
    d1 = d1
    Root <- MCRoot
    Entry <- MCEntry
    Regular <- MCRegular
    Below <- Nested
    Inside <- TwoInsideOne
    Protected = {r1}
    Volatile = {}
    FileSize = {0, 2}
    UintMax = 15
    MaxDisturb = 1
    CommandLines <- AllLines
    Layouts <- MCLayouts
    Installed = {}
INVARIANTS
    Consent
    OnlyEligibleGone
    FreesWithinTarget
    FreedIsReported
PROPERTIES
    LoopEnds
