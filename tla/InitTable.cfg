SPECIFICATION Spec
CONSTANTS
    Rounds = 10
    Ids <- MCIds
    Tables <- MCTables
    Lists <- MCLists
INVARIANT AsyncNeedsNoDeferred
INVARIANT NoCircularWait
