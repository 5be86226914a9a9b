\* Every pair of left-hand sides, short shuffles, variable reads and conditionals.
SPECIFICATION Spec
CONSTANTS
    Rules <- OPTIMISATION_RULES
    Opcodes <- AllOpcodes
    Data <- AllData
    Runs = 1000
    Scripts <- AllScripts
    Stacks <- DeepStacks
CHECK_DEADLOCK FALSE
INVARIANTS
    TypeOK
    ReachesFixedPoint
    MeaningKept
    OperandsFollow
PROPERTY EveryRewriteProgresses
