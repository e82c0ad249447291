SPECIFICATION Spec
CONSTANTS
    OwnerKeys = {1, 2}
    TargetKeys = {11, 12, 13}
    LinkKeys = {21, 22, 23}
    Null = Null
    NoLimit = NoLimit
    Stores <- MCStores
    Modes = {"MultiQuery", "SubSelect", "Join"}
    IncludeLists <- MCIncludes
    Limits = {NoLimit, 1}
    LoadChunkSize = 1
    MaxLoads = 2
    MaxChanges = 1
INVARIANTS TypeOK LoadedIsRelational LoadedDuringWrites DuplicatesRefused CollectionsOrdered
PROPERTIES OtherNavigationsKept
CHECK_DEADLOCK FALSE
