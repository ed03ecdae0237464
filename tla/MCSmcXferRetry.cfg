CONSTANTS
    t1 = t1  t2 = t2  t3 = t3
    Threads = {t1, t2}
    NoThread = NoThread
    Kinds = {"std"}
    TeeThreads = 1
    MaxRpc = 2
SPECIFICATION Spec
INVARIANT CommandIsExecuted
CHECK_DEADLOCK FALSE
