CONSTANTS
    None = None
    Accounts = {a1}
    Provider <- MCMockAccount
    Runs = {1, 2, 3}
    Tickers = {t1}
    Requests = {}
    Workers = {w1}
    RedisConfigured = TRUE
    MaxRetries = 1
    InfraRetryLimit = 1
    HighWatermark = 1
    LowWatermark = 0
    MaxStalls = 1
    MaxSlot = 1
    MaxFaults = 1
    MaxEdits = 1
SPECIFICATION Spec
ACTION_CONSTRAINT LeastFreshRun
CHECK_DEADLOCK FALSE
PROPERTIES DueFires RunEndsOrStrands
