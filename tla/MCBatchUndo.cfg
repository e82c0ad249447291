SPECIFICATION Spec
CONSTANTS
    Ptrs = {p1, p2}
    NoPtr = NoPtr
    NoRow = NoRow
    Keys = {1, 2, 3}
    Vals = {"a", "b"}
    Seed <- MCSeed
    SeedKeys = {1}
    Limit = 3
    Sessions <- MCUndoneSessions
SYMMETRY PtrSymmetry
INVARIANT OneInstancePerKey
CHECK_DEADLOCK FALSE
