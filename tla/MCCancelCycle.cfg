SPECIFICATION Spec
CONSTANTS
    a = a
    b = b
    c = c
    Ptrs = {a, b, c}
    NoPtr = NoPtr
    NotLoaded = NotLoaded
    ObjectGraphs <- MCChain
    Starts <- MCChainStarts
    Relationships <- MCRelationships
    Cascade <- MCCascade
    Auto = TRUE
    Limit = 2
    MaxSteps = 4
INVARIANTS CancelledWithOwner
