SPECIFICATION Spec
CONSTANTS
    Threads = {t1}
    LoopCalls = {}
    ForeignCalls = {"shutdown"}
    OwnerLeaves = {}
    MaxCalls = 1
    MaxArrivals = 0
    HighWaterMark = 2
INVARIANTS
    DestroyedDown
CHECK_DEADLOCK FALSE
