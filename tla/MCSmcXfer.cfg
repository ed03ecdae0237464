CONSTANTS
    t1 = t1  t2 = t2  t3 = t3
    Threads <- MCThreads
    NoThread = NoThread
    Kinds = {"std"}
    TeeThreads = 1
    MaxRpc = 1
SPECIFICATION FairSpec
INVARIANT NobodyIsForgotten
PROPERTIES ImplementsService CommandReturnsOrWaits
CHECK_DEADLOCK FALSE
