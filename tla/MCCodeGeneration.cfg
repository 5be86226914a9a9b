\* Contracts of six shapes, compiled and executed on every path.
SPECIFICATION Spec
CONSTANT Headers <- Accepted
CHECK_DEADLOCK FALSE
INVARIANTS
    StacksAgree
    SlotsHoldVariables
    OperandsAreMeant
    NeverCrashes
    CleanFinish
