SPECIFICATION Spec
CONSTANTS
    Threads = {t1}
    LoopCalls = {"shutdown"}
    ForeignCalls = {}
    OwnerLeaves = {}
    MaxCalls = 1
    MaxArrivals = 0
    HighWaterMark = 2
INVARIANTS
    ShutdownWriteSucceeds
CHECK_DEADLOCK FALSE
