CONSTANTS
  MaxScriptNumber = 9
  MaxWeight = 3
  AnyRule = "*"
  NoComment <- MCNoComment
  Parameters <- MCParameters
  Environments <- MCEnvironments
  Statements <- MCStatements
  Probes <- MCProbes
  Comments <- MCComments
  Commented <- MCCommented
  Transactions <- MCTransactions
SPECIFICATION Spec
CHECK_DEADLOCK FALSE
INVARIANTS
  ConservedAsClaimed
  CoSpendForbidden
  SweepLeavesNoChoice
  TrivialMeansTrivial
  ContainedAsClaimed
  UnreportedValuesMatter
  SilencedAsAsked
