SPECIFICATION Spec
CONSTANTS
    fast = fast
    slow = slow
    Host <- MCHost
    Interval <- MCInterval
    Caller = {c1, c2, c3, c4}
    BURST_SECONDS = 4
    MAX_BURST_TOKENS = 2
    MaxNow = 5
INVARIANTS
    Spacing
    FirstComeFirstServed
PROPERTIES
    NoIdleWaiting
    EverySleeperSends
CHECK_DEADLOCK FALSE
