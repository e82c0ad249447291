CONSTANTS
    Tables <- MCTables
    Views <- MCViews
    Triggers <- MCTriggers
    EntityOrder <- MCEntityOrder
    TriggerOrder <- MCTriggerOrder
    Requires <- MCRequires
    ColumnOrder <- MCColumnOrder
    Selects <- MCSelects
    Models <- IndexedModels
    FirstModels <- IndexedModels
    RenameFlags <- MCRenameFlags
    OutsideIndexes <- NoIndexes
    DropCascades = FALSE
    MaxVersion = 2
    MaxEdits = 1
    MaxOdd = 0
    Absent = Absent
    Failed = Failed
    NoFile = NoFile
SPECIFICATION Spec
PROPERTIES GeneratedStepRuns
CHECK_DEADLOCK FALSE
