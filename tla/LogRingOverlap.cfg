CONSTANTS
    None = None
    Readers = {r1, r2}
    TeeLogLen = 4
    LogAreaSize = 3
    Chunks = {2, 5}
    Counts = {2}
    NoticeLen = 1
    MaxSeq = 7
SPECIFICATION Spec
PROPERTIES ReadsAlwaysFollowTheLog ReadsReturnTheirCount
