SPECIFICATION FairSpec
CONSTANTS
    Addr = {a1, a2}
    Threads = {t1}
    Delays = {0, 2}
    Intervals = {0, 1}
    MaxTime = 4
    MaxTimers = 2
    MaxCancels = 1
    MaxSteps = 1
INVARIANTS
    SetsAgree
    OwnedOnce
    Armed
    CancelStops
    NotForgotten
    OneShotOnce
PROPERTIES
    TimersRun
