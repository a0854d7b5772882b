CONSTANTS
    None = None
    Accounts = {a1}
    Provider <- MCMockAccount
    Runs = {r1, r2}
    Tickers = {t1, t2}
    Requests = {}
    Workers = {w1}
    RedisConfigured = TRUE
    MaxRetries = 0
    InfraRetryLimit = 1
    HighWatermark = 2
    LowWatermark = 0
    MaxStalls = 0
    MaxSlot = 0
    MaxFaults = 0
    MaxEdits = 0
SPECIFICATION SafeSpec
CHECK_DEADLOCK FALSE
INVARIANT ResolvedMeansWritten
