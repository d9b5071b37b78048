SPECIFICATION Spec
CONSTANTS
    NFrag = 2
    PskHint = FALSE
    PskResults = {TRUE}
    FreedReads = {"intact", "reused"}
    MaxRetransmit = 0
    Duplicates = FALSE
    MaxLoss = 0
    MaxClientHello = 2
    MaxServerHello = 2
    MaxHelloRequest = 1
    MaxTeardown = 1
INVARIANTS
    KeyedWhenConnected
    AlwaysSecured
    DataFromEstablished
PROPERTIES
    ImplementsAgreement
    ClosingIsFinal
\* Everybody may have closed when the bounds are used up.
CHECK_DEADLOCK FALSE
