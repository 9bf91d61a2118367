SPECIFICATION FairSpec
CONSTANTS
    Worker = {w1, w2, w3}
    Task = {t1, t2, t3}
    Owner = Owner
    None = None
INVARIANTS
    PoolInv
    Fifo
    NoLostWakeup
    WorkConserving
    DrainedAtDestruction
PROPERTIES
    ImplementsExecutor
    AcceptedIsRun
    DestructorReturns
