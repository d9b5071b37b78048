SPECIFICATION PrimSpec
CONSTANTS
    BlockLength = 4
    ShortLength = 3
    DigestLength = 2
    ChunkSizes = {0, 1, 2, 3, 4, 5, 8}
    MaxText = 9
    KeyLengths = {0, 1, 4, 5}
    PrfLengths = {0, 1, 2, 3, 4, 5}
    MaxMac = 6
    CcmBlock = 4
    M = 2
    L = 1
    AadLengths = {0, 1, 2, 3, 6, 7}
    MsgLengths = {0, 1, 3, 4, 5, 8, 9}
INVARIANTS PrfReturnsWritten
CHECK_DEADLOCK FALSE
