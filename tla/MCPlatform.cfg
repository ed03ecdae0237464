CONSTANTS
    atf_buf_size = 4
    crash_log_size = 3
    ThresholdSize = 2
    MaxBytes = 8
    MaxBoots = 3
    PLATFORM_CORE_COUNT = 3
    PpiCores = {1}
    CoresPerCluster = 2
    IdleCores = {1}
    LastCores = {0}
    a1 = a1  a2 = a2  a3 = a3  a4 = a4
    Addrs = {a1, a2, a3, a4}
    NoAddr = NoAddr
    Sizes = {4, 12, 40}
    OutSizes = {6, 30}
    Files = {"device.finish"}
    FileSizes = {10, 100}
    MaxRuns = 2
SPECIFICATION MCSpec
INVARIANTS CrashLogIsTheTail CallsAreNotLost SettingsSurvive AnswerFits OutputIsKept
PROPERTIES CrashLogIsKept CallIsTaken
CHECK_DEADLOCK FALSE
