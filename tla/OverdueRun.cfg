SPECIFICATION FairSpec
CONSTANTS
    t1 = t1
    t2 = t2
    NoTest = NoTest
    NumCmds = 2
    Tests <- MCTests
    Reaching <- MCReaching
    Undecodable <- MCUndecodable
    Malformed = {}
    Configs <- NaiveExecution
    Args <- AllArgs
PROPERTY OverdueRunIsKilled
CHECK_DEADLOCK FALSE
