SPECIFICATION FairSpec
CONSTANTS
    ModuleBase = 20
    ImageBase = 10
    BlockRva <- MCBlockRva
    VInstrs <- MCVInstrs
INVARIANTS
    TypeOK
    NoUndefinedLookup
    PrologueRunsOnce
    FilledInOrder
    LiftIsComplete
    RecursionIsBounded
PROPERTIES
    LiftReturns
    CopiesTheTrace
CHECK_DEADLOCK FALSE
