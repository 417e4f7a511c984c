SPECIFICATION Spec
CONSTANTS
    Names = {"nondet", "other", "printf", "error"}
    NondetNames = {"nondet"}
    IMPLICIT_FUNCTIONS = {"printf"}
    ErrorName = "error"
    MaxLines = 3
    Lines <- MCLines
INVARIANTS
    DiscoveryInv
    DeclarationsAreKept
    RewrittenCanBeParsed
    StubsAreTheUndefined
    CalledHaveStubs
\* The search ends.
CHECK_DEADLOCK FALSE
