\* An assignment to a parameter of the contract.
SPECIFICATION Spec
CONSTANT Headers <- Inlined
CHECK_DEADLOCK FALSE
INVARIANTS
    OperandsAreMeant
