SPECIFICATION Spec
CONSTANTS
    Ptrs = {p1, p2}
    NoPtr = NoPtr
    NoRow = NoRow
    Keys = {1, 2, 3}
    Vals = {"a", "b"}
    Seed <- MCSeed
    SeedKeys = {1}
    Limit = 3
    Sessions <- MCSessions
SYMMETRY PtrSymmetry
INVARIANTS OneInstancePerKey BatchAsImmediate
PROPERTIES FailedSendUndone
CHECK_DEADLOCK FALSE
