SPECIFICATION FairSpec
CONSTANTS
    N = 3
    Online = 4
    Threads = 4
    Refs = 2
    Results <- MCAll
INVARIANTS
    SequentialOnce
    FreeOnce
PROPERTIES
    StartLeadsToDone
CHECK_DEADLOCK FALSE
