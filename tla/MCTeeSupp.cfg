CONSTANTS
    t1 = t1  t2 = t2  d1 = d1  d2 = d2
    Threads <- MCThreads
    Teeds = {d1, d2}
    NoThread = NoThread
    NbrBf = {0, 1}
    TEE_RPC_BUFFER_NUMBER = 1
    MaxCalls = 1
    Faults = {"crash", "signal", "enomem", "efault_read", "efault_write"}
SPECIFICATION FairSpec
INVARIANTS OnlyOneTeed OwnAnswer
PROPERTIES ImplementsService CallReturnsUnlessLost
CHECK_DEADLOCK FALSE
