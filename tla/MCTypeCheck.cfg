\* Programs of up to four nodes over every width the functions ask for.
SPECIFICATION Spec
CONSTANTS
    DeclaredTypes <- Declared
    Arguments <- Passed
    Sizes = {0, 1, 9}
    Literals = {0, 8, 12}
    MaxSize = 100
    MaxStack = 3
    MaxNodes = 4
CHECK_DEADLOCK FALSE
INVARIANTS
    TypesAreSound
    OpcodesFitOperands
