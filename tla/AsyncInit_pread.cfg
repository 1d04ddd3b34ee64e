SPECIFICATION FairSpec
CHECK_DEADLOCK FALSE
CONSTANTS
    p1 = p1
    p2 = p2
    N = 5
    Type <- MCType
    Parents <- MCParents
    NameLen <- MCNameLen
    Procs <- MCProcs
    Sizes <- MCPositiveSizes
    MayFail <- MCMayFail
    PosLock = FALSE
    MinRef <- MCLowestRef
INVARIANT StageOrder
INVARIANT ZeroMeansEnd
INVARIANT FreeOnce
PROPERTY ImplementsStaged
PROPERTY AsyncCompletes
PROPERTY OpenLeadsToDone
