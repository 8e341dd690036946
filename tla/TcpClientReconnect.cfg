SPECIFICATION Spec
CONSTANTS
    kInitRetryDelayMs = 500
    kMaxRetryDelayMs = 30000
    LoopCalls = {"connect", "stop"}
    ForeignCalls = {}
    Reconnects = TRUE
    StopsRetrying = FALSE
    EarlyDestroy = FALSE
    MaxCalls = 3
INVARIANT StartsDisconnected
CHECK_DEADLOCK FALSE
