CONSTANTS
    s1 = s1  s2 = s2  Nobody = Nobody
    Sessions = {s1, s2}
    MaxIoctls = 3
    Readers = {s1, s2}
    None = None
    TeeLogLen = 4
    LogAreaSize = 3
    Chunks = {2, 5}
    Counts = {2}
    NoticeLen = 1
    MaxSeq = 7
    Clients = {s1, s2}
    BigCores = 2
SPECIFICATION MCSpec
INVARIANTS OneOwner LoadIsAllOrNothing
PROPERTIES LastCommandArrives ReadsFollowTheLog LogGetsThrough
CHECK_DEADLOCK FALSE
