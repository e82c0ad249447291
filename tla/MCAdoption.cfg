SPECIFICATION FairSpec
CONSTANTS
    T = T
    W = W
    w1 = w1
    w2 = w2
    hot = hot
    Objects <- MCObjects
    Views <- MCViews
    Columns <- MCColumns
    Types <- MCTypes
    Defs <- MCDefs
    HotDefs <- MCHotDefs
    Sqls <- MCSqls
    Releases = {"old", "draft", "new", "edited"}
    Plan <- MCPlan
    Snapshots <- MCSnapshots
    Absent = Absent
    Untouched = Untouched
    NoRunner = NoRunner
    Runners = {r1, r2}
    Commands <- BaselineCommands
    ExclusiveLock = FALSE
    MaxRuns = 2
    MaxHotfixes = 1
INVARIANTS WholeVersions
PROPERTIES RunsEnd
CHECK_DEADLOCK FALSE
