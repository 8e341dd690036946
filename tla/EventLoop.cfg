SPECIFICATION FairSpec
CONSTANTS
    Threads = {t1, t2}
    LoopThread = loopThread
    Channels = {c1, c2}
    WakeupChannel = wakeupChannel
    NoChannel = noChannel
    MaxFunctors = 3
    MaxQuits = 1
    MaxLoops = 2
INVARIANTS
    TypeOK
    NoLostWakeup
    DispatchSound
PROPERTIES
    ImplementsFunctorQueue
    QuitHonoured
    RunPromptly
    RunEventually
\* loop() returns after a quit(), and the users need not call it again.
CHECK_DEADLOCK FALSE
