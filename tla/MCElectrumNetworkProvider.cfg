\* Interleaved calls of three callers, the cluster managed by the provider or not.
SPECIFICATION Spec
CONSTANTS
    Requests = {r1, r2, r3}
    MAX_RETRIES = 2
    MAX_CONCURRENT_REQUESTS = 2
    RATE_LIMIT_WINDOW = 2
    MAX_REQUESTS_PER_WINDOW = 3
    CIRCUIT_BREAKER_THRESHOLD = 2
    CIRCUIT_BREAKER_RESET = 1
    MaxTicks = 2
    MaxStamps = 4
CONSTRAINT Bounded
SYMMETRY Symmetry
INVARIANTS
    TypeOK
    SlotAccounting
    NoOrphanConnection
    RateWindow
    LateFailuresBounded
PROPERTIES
    ImplementsSharedConnection
