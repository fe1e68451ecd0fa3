SPECIFICATION Spec
CONSTANTS
    VmEntries <- MCVmEntries
    CodeSize = {1, 2}
    MaxVersion = 2
    MaxRuns = 2
    MaxKills = 1
INVARIANTS
    OverwriteIsHonoured
CHECK_DEADLOCK FALSE
