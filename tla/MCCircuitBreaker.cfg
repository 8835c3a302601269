CONSTANTS
    Datasources = {d1, d2}
    Requests = {r1, r2, r3}
    FailureThreshold = 2
    RecoveryTimeout = 1
SPECIFICATION FairSpec
INVARIANTS
    TypeOK
    TrippedIffThresholdReached
PROPERTIES
    OneFailureReopens
    OpenCircuitsRecover
