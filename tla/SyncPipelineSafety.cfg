CONSTANTS
    None = None
    Accounts = {a1}
    Provider <- MCMockAccount
    Runs = {r1, r2, r3}
    Tickers = {t1}
    Requests = {q1}
    Workers = {w1, w2}
    RedisConfigured = TRUE
    MaxRetries = 1
    InfraRetryLimit = 2
    HighWatermark = 1
    LowWatermark = 0
    MaxStalls = 1
    MaxSlot = 0
    MaxFaults = 1
    MaxEdits = 1
SPECIFICATION SafeSpec
SYMMETRY MCSymmetry
CHECK_DEADLOCK FALSE
INVARIANTS IndInv SingleFlight AutoRunRespectsSettings NoOverlap StrandedOnlyByEarlyDelivery FailureAnnounced
PROPERTIES ResurrectionOnlyByRedelivery LedgerSpec
