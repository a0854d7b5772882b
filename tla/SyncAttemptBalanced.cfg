CONSTANTS
    Keys = {k1, k2}
    Corrections = {k2}
    Bad = Bad
    MaxFeed = 3
    Feeds <- MCFeeds
    BatchSize = 2
    MaxRetries = 1
    MaxCrashes = 1
    MaxFaults = 1
SPECIFICATION Spec
CHECK_DEADLOCK FALSE
INVARIANT BalancedWhenWritten
