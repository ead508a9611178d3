SPECIFICATION FairSpec
CONSTANTS
    Threads = {t1, t2}
    Keys = {k1, k2}
    NoOwner = NoOwner
    MaxNest = 2
    MayOutlast = FALSE
    MayCrash = TRUE
    AddErrors = TRUE
    ReleaseErrors = TRUE
INVARIANTS
    TypeOK
    MutualExclusion
    OwnersOnStack
PROPERTIES
    ImplementsMutex
    WaitEnds
CHECK_DEADLOCK FALSE
