CONSTANTS
    None = None
    Ctxs = {c1, c2}
    KernelCtxs = {c2}
    Sessions = {s1}
    Shms = {m1}
    Threads = {t1, t2}
SPECIFICATION Spec
CHECK_DEADLOCK FALSE
INVARIANT ReleaseFindsContext
