SPECIFICATION FairSpec
CONSTANTS
    t1 = t1
    t2 = t2
    NoTest = NoTest
    NumCmds = 2
    Tests <- MCTests
    Reaching <- MCReaching
    Undecodable <- MCUndecodable
    Malformed = {}
    Configs <- AnyValidation
    Args <- AllArgs
INVARIANTS
    RunInv
    FalseIsExported
    TrueAfterGeneration
    AnalysisAfterIgLimit
    NothingStray
PROPERTIES
    RefinesProcessing
    TimelimitEndsRun
    IgLimitEndsGeneration
    VerdictEndsProcess
\* The process ends.
CHECK_DEADLOCK FALSE
