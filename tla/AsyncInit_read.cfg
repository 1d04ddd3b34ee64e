SPECIFICATION Spec
CHECK_DEADLOCK FALSE
SYMMETRY ProcSymmetry
CONSTANTS
    p1 = p1
    p2 = p2
    N = 5
    Type <- MCType
    Parents <- MCParents
    NameLen <- MCNameLen
    Procs <- MCProcs
    Sizes <- MCSizes
    MayFail <- MCMayFail
    PosLock = TRUE
    MinRef <- MCLowestRef
INVARIANT OnlyOnce
INVARIANT FreedOnlyAfterDeferred
INVARIANT NoDeferredCallAfterFree
