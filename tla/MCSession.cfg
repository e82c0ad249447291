SPECIFICATION FairSpec
CONSTANTS
    Contexts = {c1, c2}
    Scopes = {t1, t2}
    Statements = {x1, x2}
    NoTx = NoTx
    OpenRetries = 1
    CommandTimeout = TRUE
    RefusesNested = TRUE
INVARIANTS NothingLeaks ScopeAtomic EnlistmentTotal ScopeOwnsTransaction
PROPERTIES RefinesUnits OpenReturns
CHECK_DEADLOCK FALSE
