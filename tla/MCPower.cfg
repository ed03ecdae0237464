CONSTANTS
    t1 = t1  t2 = t2  t3 = t3
    Threads = {t1, t2}
    Big = {4, 5}
    Nobody = Nobody
    CmdThreads = {t1, t2}
    MaxStray = 1
SPECIFICATION MCSpec
INVARIANTS CommandsHaveACore NoCommandInSuspend CountMeansState
PROPERTIES ImplementsService CommandReturns SuspendGetsThrough CommandGetsThrough
