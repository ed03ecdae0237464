CONSTANTS
    k0 = k0  k1 = k1
    Cores = {k0, k1}
    BootCore = k0
SPECIFICATION LiveSpec
CHECK_DEADLOCK FALSE
INVARIANTS RegistersSurvive NormalWorldHasTkcore OneCoreDumps
PROPERTY CoreComesUp
