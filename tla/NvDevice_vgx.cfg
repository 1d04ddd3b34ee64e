SPECIFICATION FairSpec
CONSTANTS
    d1 = d1
    d2 = d2
    d3 = d3
    u1 = u1
    u2 = u2
    Dev = {d1, d2, d3}
    User = {u1, u2}
    MaxMinor = 1
    Vgx = TRUE
    Serial = TRUE
    Unbind = "locked"
    MaxUsage = 0
    None = None
INVARIANTS
    UsageExact
    NoStaleUse
    FileMatchesMinor
    TableExact
    NoLockCircle
PROPERTIES
    CallsReturn
    RemovalEnds
CHECK_DEADLOCK FALSE
