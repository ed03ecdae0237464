CONSTANTS
    t1 = t1  t2 = t2  d1 = d1  d2 = d2
    Threads <- MCThreads
    Teeds = {d1, d2}
    NoThread = NoThread
    NbrBf = {0}
    TEE_RPC_BUFFER_NUMBER = 1
    MaxCalls = 1
    Faults = {"crash"}
SPECIFICATION Spec
INVARIANT RefusedForAnother
CHECK_DEADLOCK FALSE
