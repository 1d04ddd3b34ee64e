SPECIFICATION Spec
CONSTANTS
    MaxLen = 3
    Ids <- MCIds
    Tables <- MCTables
    Lists <- MCLists
INVARIANT ChildCountsExact
INVARIANT GroupCountsExact
INVARIANT StatusExact
