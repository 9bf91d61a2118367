SPECIFICATION FairSpec
CONSTANTS
    Result <- Caches
    Word = 8
    Large = 3
    MaxResults = 3
CHECK_DEADLOCK FALSE
INVARIANTS
    NoneTwice
    ShortfallIsReal
    Balanced
PROPERTIES
    Ends
