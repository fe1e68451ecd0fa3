SPECIFICATION Spec
CONSTANTS
    Width = 3
    Half = 4
    CountWidth = 3
INVARIANT ResultIsPushed
CHECK_DEADLOCK FALSE
