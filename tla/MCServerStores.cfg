SPECIFICATION StoresSpec
CONSTANTS
    CteQueries = {q1, q2}
    CteNames = {"cte", "aux", "ds"}
    Configured = {"ds"}
    CtePrograms <- MCPrograms
    MaxIterations = 3
    Depth = 2
    Tests = {t1, t2}
    MaxSubs = 2
    DlqEntries = 1
    U32 = 3
INVARIANTS
    StoresTypeOK
    
    DatasourcesAreNotHidden
    ResolvedCtesAreFound
    FireCountIsExact
    FailuresAreKept
PROPERTIES
    CtesAreResolved
    DeletedStaysDeleted
    DeliveriesEnd
CHECK_DEADLOCK FALSE
