\* Two calls overlap, and builder methods are called while they are suspended.
SPECIFICATION Spec
CONSTANTS
    k1 = k1
    k2 = k2
    c2 = c2
    Calls = {c1, c2}
    Coins <- MCCoins
    Value <- MCValue
    Forged = {k2}
    Disciplined = FALSE
    Amounts = {1000}
    FeeRates = {}
    HardcodedFees = {}
    MinChanges = {}
    CanTestMempool = FALSE
    SighashSingle = FALSE
    DUST_LIMIT = 546
    P2PKH_OUTPUT_SIZE = 34
    P2SH_OUTPUT_SIZE = 32
    INPUT_SIZE = 150
    BASE_SIZE = 10
    MAX_FEE_SATOSHIS = 6000
    MAX_INPUT_COUNT = 1000
    MAX_OUTPUT_COUNT = 1000
    MAX_TRANSACTION_SIZE = 100000
    PREFLIGHT_FEE_PER_BYTE_MAX = 1000
    NO_CHANGE = 1000000000
    MaxPolls = 0
    MaxInputs = 1
    MaxOutputs = 1
    MaxStarts = 2
CHECK_DEADLOCK FALSE
CONSTRAINT Narrow
SYMMETRY Symmetry
INVARIANTS
    SignedAreVerified
