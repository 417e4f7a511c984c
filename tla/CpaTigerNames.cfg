SPECIFICATION Spec
CONSTANTS
    Modes <- CpaTigerParallel
    MaxLines = 5
INVARIANT NamesAreUnique
CHECK_DEADLOCK FALSE
