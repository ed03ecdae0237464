CONSTANTS
    k1 = k1  k2 = k2  k3 = k3  t1 = t1  t2 = t2  e1 = e1  e2 = e2  e3 = e3
    None = None  NoKey = NoKey
    Wakers = {t1, t2}
    Keys = {k1, k2, k3}
    Entries = {e1, e2, e3}
    Threads = {t1, t2}
    Base = 3
    Size = 10
    Grain = 2
    Sizes = {1, 2, 3}
    Alignments = {0, 4}
    MaxRefs = 2
    Caller = t1
    Pointers = {k1, k2, k3}
    Null = Null  Undefined = Undefined
    InitialMaxPtrs = 1
    MaxArrays = 3
SPECIFICATION MCSpec
CHECK_DEADLOCK FALSE
INVARIANTS NoUseAfterFree RoundsDoNotMix PoolIsExact HandlesAreExact
PROPERTIES SleepReturns ImplementsBlockPool
