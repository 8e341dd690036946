SPECIFICATION FairSpec
CONSTANTS
    kInitRetryDelayMs = 500
    kMaxRetryDelayMs = 30000
    LoopCalls = {"connect", "disconnect", "stop", "destroy"}
    ForeignCalls = {"connect", "disconnect", "stop"}
    Reconnects = FALSE
    StopsRetrying = FALSE
    EarlyDestroy = FALSE
    MaxCalls = 4
INVARIANTS
    ConnectorAssertionsHold
    SocketsAccounted
PROPERTIES
    StopStops
    Backoff
    Connects
\* A client that is stopped or destroyed leaves nothing to do.
CHECK_DEADLOCK FALSE
