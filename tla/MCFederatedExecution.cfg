CONSTANTS
    Queries <- MCQueries
    Datasources <- MCDatasources
    Kind <- MCKind
    Refs <- MCRefs
    Concurrency <- MCConcurrency
SPECIFICATION FairSpec
INVARIANTS
    TypeOK
    PoolIsAccounted
    UnionAccountsForSources
    UnionKeepsSourceOrder
PROPERTY SpawnedTasksEnd
CHECK_DEADLOCK FALSE
