SPECIFICATION CryptoSpec
CONSTANTS
    hlength = 8
    MaxKeygen = 2
    k2sn_t = 10
    tb2 = 3
    Base = 3
    Top = 4
    ByteBits = 3
    SkBits = 4
    Streams = {0, 1, 2, 3}
    llength = 4
    MaxTrees = 3
    BlockLength = 4
    ShortLength = 3
    DigestLength = 2
    ChunkSizes = {0, 1, 2, 3, 4, 5, 8}
    MaxText = 9
    KeyLengths = {0, 1, 4, 5}
    PrfLengths = {0, 1, 2, 3, 4, 5}
    MaxMac = 6
    CcmBlock = 4
    M = 2
    L = 1
    AadLengths = {0, 1, 2, 3, 6, 7}
    MsgLengths = {0, 1, 3, 4, 5, 8, 9}
INVARIANTS
    TypeOK
    StaysInTable
    KeysAscend
    NthSet
    LimbsExact
    SignatureVerifies
    InstancesInBounds
    OneTimeVerifies
    LeafCoversKeys
    HmacCorrect
    PrfComplete
    CcmExact
PROPERTIES
    FinishedInTime
    ImplementsStream
\* The tree ends when the one-time keys are used up, the others at a bound.
CHECK_DEADLOCK FALSE
