SPECIFICATION StoresSpec
CONSTANTS
    CteQueries = {q1}
    CteNames = {"cte", "aux", "ds"}
    Configured = {"ds"}
    CtePrograms <- MCPrograms
    MaxIterations = 3
    Depth = 2
    Tests = {t1, t2}
    MaxSubs = 2
    DlqEntries = 1
    U32 = 3
INVARIANT RecursiveResultIsRead
CHECK_DEADLOCK FALSE
