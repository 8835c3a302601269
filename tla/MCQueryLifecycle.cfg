CONSTANTS
    q1 = q1
    q2 = q2
    Queries <- MCQueries
SPECIFICATION Spec
INVARIANTS
    TypeOK
    ReachableUntilDecided
    AnsweredIsUnregistered
PROPERTIES
    CancelTakesEffect
    ExecutionEnds
    ShutdownCompletes
CHECK_DEADLOCK FALSE
