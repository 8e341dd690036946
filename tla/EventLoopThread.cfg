SPECIFICATION FairSpec
CONSTANTS
    MaxThreads = 3
    MaxCalls = 6
    Hashes = {0, 5, 7}
    CreateOutcomes = {TRUE}
    UserQuits = FALSE
    DestroyBeforeLoop = FALSE
INVARIANTS
    LoopsLive
    RoundRobin
    Joined
PROPERTIES
    OwnerProceeds
