SPECIFICATION Spec
CONSTANTS
    fast = fast
    slow = slow
    Host <- OneHost
    Interval <- MCInterval
    Caller = {c1, c2, c3, c4, c5}
    BURST_SECONDS = 4
    MAX_BURST_TOKENS = 2
    MaxNow = 4
INVARIANT
    BurstNeverExceedsMax
CHECK_DEADLOCK FALSE
