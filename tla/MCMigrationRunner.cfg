SPECIFICATION Spec
CONSTANTS
    T = T
    W = W
    w1 = w1
    w2 = w2
    hot = hot
    Objects <- MCObjects
    Views <- MCViews
    Columns <- MCColumns
    Types <- MCTypes
    Defs <- MCDefs
    HotDefs <- MCHotDefs
    Sqls <- MCSqls
    Releases = {"old", "draft", "late", "new", "edited"}
    Plan <- MCPlan
    Snapshots <- MCSnapshots
    Absent = Absent
    Untouched = Untouched
    NoRunner = NoRunner
    Runners = {r1, r2}
    Commands <- MCCommands
    ExclusiveLock = TRUE
    MaxRuns = 2
    MaxHotfixes = 1
INVARIANTS TypeOK WholeVersions LiveMatchesHistory StatusForetells
PROPERTIES HotfixPreserved RefinesHistory
SYMMETRY Alike
CHECK_DEADLOCK FALSE
