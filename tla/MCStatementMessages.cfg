SPECIFICATION FairSpec
CONSTANTS
    Messages <- MCMessages
    Singles <- MCSingles
    Policies = {"retryOnce", "surface"}
    MaxCalls = 2
    MaxFaults = 2
    MaxSchemaChanges = 2
INVARIANTS ResultsAttributed NothingUnread RanInOrder FailuresExplained
PROPERTIES CallsReturn
CHECK_DEADLOCK FALSE
