SPECIFICATION FairSpec
CONSTANTS
    Limits = {0, 1}
    TicksPerSecond = 2
    MaxTicks = 6
    MaxChildren = 2
INVARIANTS
    ExecutionInv
    LimitIsKept
PROPERTIES
    ImplementsCall
    WaiterEnds
\* The call returns.
CHECK_DEADLOCK FALSE
