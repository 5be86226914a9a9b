SPECIFICATION Spec
CONSTANTS
  InfixOps <- MCInfixOps
  Numbers = {"1", "-1"}
  Hexes = {"0x1"}
  Numerals <- MCNumerals
  HexValues <- MCHexValues
  Dates <- MCDates
  MaxScriptNumber = 120
  MaxDepth = 3
  MaxWeight = 4
INVARIANTS
  ParsedAsGrouped
  RebuiltAsItWas
  PrintedTheSame
CHECK_DEADLOCK FALSE
