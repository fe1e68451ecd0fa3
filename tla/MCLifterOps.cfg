SPECIFICATION Spec
CONSTANTS
    Width = 3
    Half = 4
    CountWidth = 3
INVARIANTS
    AddMatchesX86
    DoubleShiftMatchesX86
PROPERTY BitwiseMatchesX86
CHECK_DEADLOCK FALSE
