CONSTANTS
    atf_buf_size = 4
    crash_log_size = 3
    ThresholdSize = 2
    MaxBytes = 8
    MaxBoots = 3
SPECIFICATION Spec
INVARIANT DumpsAreTails
PROPERTY CrashLogIsAllKept
CHECK_DEADLOCK FALSE
