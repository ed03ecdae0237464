CONSTANTS
    k0 = k0  k1 = k1
    Cores = {k0, k1}
    BootCore = k0
SPECIFICATION Spec
CHECK_DEADLOCK FALSE
INVARIANT InterruptsEnd
