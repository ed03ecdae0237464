CONSTANTS
    None = None
    Ctxs = {c1, c2}
    KernelCtxs = {c2}
    Sessions = {s1}
    Shms = {m1}
    Threads = {t1, t2, t3}
SPECIFICATION LiveSpec
CHECK_DEADLOCK FALSE
INVARIANTS RefsAreExact NoDanglingReference SecureSessionsHaveOwners
PROPERTY ClosedIsReleased
