SPECIFICATION FairSpec
CONSTANTS
    t1 = t1
    t2 = t2
    t3 = t3
    t4 = t4
    NoTest = NoTest
    Tests <- MCTests
    Reaching <- MCReaching
    Undecodable <- MCUndecodable
    Malformed <- MCMalformed
    Configs <- AllConfigs
INVARIANTS
    ProcessingInv
    FalseIsWitnessed
    NoPositiveLost
    NoTestMissed
PROPERTIES
    JudgedAtMostOnce
    ImplementsService
    ProcessingEnds
\* process_inputs returns: the thread really stops.
CHECK_DEADLOCK FALSE
