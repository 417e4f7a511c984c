SPECIFICATION Spec
CONSTANTS
    g1 = g1
    g2 = g2
    g3 = g3
    Guards <- MCGuards
    Values = {0, 1}
    Empty = Empty
    MAX_TEST_SIZE = 2
    MAX_TEST_NUMBER = 3
INVARIANTS
    TesterInv
    FilesAreFaithful
    CoverageIsWritten
    FilesAreMeaningful
PROPERTIES
    FilesAreFinal
    SuccessIsWritten
\* The tester ends.
CHECK_DEADLOCK FALSE
