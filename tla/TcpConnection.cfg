SPECIFICATION FairSpec
CONSTANTS
    Threads = {t1}
    LoopCalls = {"send", "shutdown", "forceClose", "forceCloseWithDelay", "startRead", "stopRead"}
    ForeignCalls = {"send"}
    OwnerLeaves = {"kConnected"}
    MaxCalls = 3
    MaxArrivals = 1
    HighWaterMark = 2
INVARIANTS
    AssertionsHold
    StreamIntact
    WritingWhileBuffered
    FinAfterData
    DownOnce
PROPERTIES
    CloseNoticed
    DownIsDestroyed
    ShutdownCompletes
\* Idle connections, destroyed connections and aborted programs stop.
CHECK_DEADLOCK FALSE
