CONSTANTS
    Tables <- MCTables
    Views <- MCViews
    Triggers <- MCTriggers
    EntityOrder <- MCEntityOrder
    TriggerOrder <- MCTriggerOrder
    Requires <- MCRequires
    ColumnOrder <- MCColumnOrder
    Selects <- MCSelects
    Models <- MCModels
    FirstModels <- MCFirstModels
    RenameFlags <- MCRenameFlags
    OutsideIndexes <- MCOutsideIndexes
    DropCascades = FALSE
    MaxVersion = 2
    MaxEdits = 1
    MaxOdd = 1
    Absent = Absent
    Failed = Failed
    NoFile = NoFile
SPECIFICATION Spec
INVARIANTS UnchangedIsValid
PROPERTIES GeneratedReachesModel HandWrittenKept DraftReviewed ShadowRecords SyncReachesModel
CHECK_DEADLOCK FALSE
