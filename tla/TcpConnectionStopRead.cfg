SPECIFICATION Spec
CONSTANTS
    Threads = {t1}
    LoopCalls = {"stopRead", "forceClose"}
    ForeignCalls = {}
    OwnerLeaves = {}
    MaxCalls = 2
    MaxArrivals = 0
    HighWaterMark = 2
INVARIANTS
    HandleCloseOnce
CHECK_DEADLOCK FALSE
