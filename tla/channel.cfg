SPECIFICATION ChannelSpec
CONSTANTS
    ChainLen = 2
    Lens = {1, 2}
    Faults = {"loss", "duplication", "reordering"}
    MaxWrites = 3
    MaxExchanges = 3
    MaxSessions = 2
    MaxFaults = 2
    DTLS_MAX_HS_PAYLOAD = 2
    CkxLengths = {1, 4, 5}
    MaxRetransmit = 1
    MaxKeys = 2
    MaxConnections = 2
    MaxExtra = 1
    MaxResend = 3
INVARIANTS
    MacKeySecret
    StoreInStep
    AcceptedIsPrevious
    NonceOnce
    FinishedSealed
    TranscriptsAgree
PROPERTY EpochAdvances
\* A run ends when the packets are written and the bounds are used up.
CHECK_DEADLOCK FALSE
