CONSTANTS
    Tables <- MCTables
    Views <- MCViews
    Triggers <- MCTriggers
    EntityOrder <- MCEntityOrder
    TriggerOrder <- MCTriggerOrder
    Requires <- MCRequires
    ColumnOrder <- MCColumnOrder
    Selects <- MCSelects
    Models <- TriggerModels
    FirstModels <- TriggerModels
    RenameFlags <- MCRenameFlags
    OutsideIndexes <- NoIndexes
    DropCascades = FALSE
    MaxVersion = 3
    MaxEdits = 2
    MaxOdd = 0
    Absent = Absent
    Failed = Failed
    NoFile = NoFile
SPECIFICATION Spec
PROPERTIES RelinkedTriggerCreated
CHECK_DEADLOCK FALSE
