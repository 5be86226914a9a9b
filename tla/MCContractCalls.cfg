\* Every accepted contract, call and output of the lists of MCContractCalls.
SPECIFICATION Spec
CONSTANTS
    Artifacts <- MCArtifacts
    Arguments <- MCArguments
    Outputs <- MCOutputs
    States <- MCStates
    Foreign <- MCForeign
    MaxOutputs = 2
    Typical <- MCTypical
CHECK_DEADLOCK FALSE
INVARIANTS
    ArgumentsArrive
    CutMatchesSize
    EstimateCovers
    StateReadsBack
