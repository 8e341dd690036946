SPECIFICATION FairSpec
CONSTANTS
    MaxThreads = 2
    MaxConns = 4
    MaxFds = 3
    ForeignClose = FALSE
    OwnerLeaves = {"kConnected"}
    DestroyWith = {0}
INVARIANTS
    ServerAssertionsHold
    MapMatches
PROPERTIES
    Reclaimed
    AcceptsAgain
\* A server without clients has nothing to do.
CHECK_DEADLOCK FALSE
