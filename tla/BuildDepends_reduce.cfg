CONSTANTS
    a = a
    b = b
    c = c
    s = s
    Names = {a, b, c, s}
    Plain = {a, b, c}
    Null = Null
    Lines <- MCLines
    LostLines <- MCLostLines
    MaxDeps = 2
    MaxLines = 3
SPECIFICATION Spec
INVARIANTS SameReach NoRedundantEdge OverflowMeansCycle OneIsLeft
SYMMETRY MCPerms
CHECK_DEADLOCK FALSE
