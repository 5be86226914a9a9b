\* Every call leaves performRequest.
SPECIFICATION FairSpec
CONSTANTS
    Requests = {r1, r2}
    MAX_RETRIES = 3
    MAX_CONCURRENT_REQUESTS = 2
    RATE_LIMIT_WINDOW = 1
    MAX_REQUESTS_PER_WINDOW = 3
    CIRCUIT_BREAKER_THRESHOLD = 3
    CIRCUIT_BREAKER_RESET = 1
    MaxTicks = 1
    MaxStamps = 3
CONSTRAINT Bounded
PROPERTIES
    CallsSettle
