SPECIFICATION Spec
CONSTANTS
    Vips = {1, 2, 3}
    EntryVip = 1
    MaxTargets = 2
INVARIANTS
    CodeIsAccurate
CHECK_DEADLOCK FALSE
