SPECIFICATION Spec
CONSTANTS
    a = a
    b = b
    c = c
    Ptrs = {a, b, c}
    NoPtr = NoPtr
    NotLoaded = NotLoaded
    ObjectGraphs <- MCGraphs
    Starts <- MCStarts
    Relationships <- MCRelationships
    Cascade <- MCCascade
    Auto = TRUE
    Limit = 2
    MaxSteps = 5
INVARIANTS ScheduleConsistent KeysFlowed ChildrenDeletedFirst
PROPERTIES FlushRealizesIntent
