CONSTANTS
    NoAddr = NoAddr
    Addrs = {a1, a2, a3, a4}
    Sizes = {4, 12, 40}
    OutSizes = {6, 30}
    Files = {"config", "device.finish"}
    FileSizes = {10, 100}
    MaxRuns = 3
SPECIFICATION Spec
INVARIANTS SuccessMeansDone SizesAreSizes ReadsGetTheirOutput
CHECK_DEADLOCK FALSE
