SPECIFICATION Spec
CONSTANTS
    NFrag = 2
    PskHint = TRUE
    PskResults = {TRUE, FALSE}
    FreedReads = {"intact", "allocator", "reused"}
    MaxRetransmit = 1
    Duplicates = TRUE
    MaxLoss = 0
    MaxClientHello = 2
    MaxServerHello = 1
    MaxHelloRequest = 0
    MaxTeardown = 1
INVARIANTS
    NoDanglingTimer
    ReorderBufferAhead
    TranscriptInOrder
    TypeOK
PROPERTIES
    ImplementsAgreement
