\* The application configures the builder, then calls it: one call after another, or
\* two that overlap if it gave the inputs itself.
SPECIFICATION FairSpec
CONSTANTS
    k1 = k1
    k2 = k2
    c2 = c2
    Calls = {c1, c2}
    Coins <- MCCoins
    Value <- MCValue
    Forged = {k2}
    Disciplined = TRUE
    Amounts = {1000}
    FeeRates = {20}
    HardcodedFees = {500}
    MinChanges = {3000}
    CanTestMempool = TRUE
    SighashSingle = FALSE
    DUST_LIMIT = 546
    P2PKH_OUTPUT_SIZE = 34
    P2SH_OUTPUT_SIZE = 32
    INPUT_SIZE = 150
    BASE_SIZE = 10
    MAX_FEE_SATOSHIS = 6000
    MAX_INPUT_COUNT = 1000
    MAX_OUTPUT_COUNT = 1000
    MAX_TRANSACTION_SIZE = 100000
    PREFLIGHT_FEE_PER_BYTE_MAX = 1000
    NO_CHANGE = 1000000000
    MaxPolls = 2
    MaxInputs = 2
    MaxOutputs = 2
    MaxStarts = 2
CHECK_DEADLOCK FALSE
CONSTRAINT Disciplines
PROPERTIES
    CallsEnd
INVARIANTS
    NoDoubleSpend
    FeeIsFair
    TemplateHolds
    PaysAsAsked
    SignedAreVerified
    PreflightGuards
