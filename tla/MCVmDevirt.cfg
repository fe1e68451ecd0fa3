SPECIFICATION FairSpec
CONSTANTS
    VmEntries <- MCVmEntries
    CodeSize = {1, 2}
    MaxVersion = 2
    MaxRuns = 2
    MaxKills = 1
INVARIANTS
    TypeOK
    SitesJumpToOwnCode
    OptimizedHasPremature
PROPERTIES
    ValidCacheIsKept
    OutputAwaitsEveryRoutine
    RunEnds
    GoodRunDelivers
CHECK_DEADLOCK FALSE
