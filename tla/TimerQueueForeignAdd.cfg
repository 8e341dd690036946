SPECIFICATION Spec
CONSTANTS
    Addr = {a1, a2}
    Threads = {t1}
    Delays = {0}
    Intervals = {0}
    MaxTime = 3
    MaxTimers = 2
    MaxCancels = 0
    MaxSteps = 0
INVARIANTS
    AddTimerReturnsItsTimer
