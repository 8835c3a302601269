CONSTANTS
    Tables = {0, 1, 2, 3, 4, 5}
    Limits <- SomeLimits
    Offsets = {0, 2}
    PageSizes <- AnyPageSize
    Pushdowns = {"none", "limit", "both"}
    CacheTtl = 1
    MaxTime = 2
    MaxRequests = 7
SPECIFICATION FairSpec
INVARIANTS
    TypeOK
    PagesAreTheResult
PROPERTY WalkEnds
CHECK_DEADLOCK FALSE
