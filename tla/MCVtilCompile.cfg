SPECIFICATION FairSpec
CONSTANTS
    Vips = {1, 2, 3}
    EntryVip = 1
    MaxTargets = 2
INVARIANTS
    TypeOK
    CompiledOnce
    PendingIsAhead
    RunsTheRoutine
PROPERTIES
    CopiesTheRoutine
    CompileEnds
    GoalIsReached
CHECK_DEADLOCK FALSE
