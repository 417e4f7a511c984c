SPECIFICATION Spec
CONSTANTS
    Modes <- StableModes
    MaxLines = 5
INVARIANTS
    SuiteInv
    NamesAreUnique
    EveryTestIsExported
    HandedOutOnce
\* The pass ends.
CHECK_DEADLOCK FALSE
