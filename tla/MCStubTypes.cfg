CONSTANT Declarations <- MCDeclarations
SPECIFICATION Spec
INVARIANTS TypeOK StubHasDeclaredType
CHECK_DEADLOCK FALSE
