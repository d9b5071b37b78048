SPECIFICATION QuietSpec
CONSTANTS
    NFrag = 2
    PskHint = FALSE
    PskResults = {TRUE}
    FreedReads = {"intact"}
    MaxRetransmit = 3
    Duplicates = FALSE
    MaxLoss = 1
    MaxClientHello = 1
    MaxServerHello = 5
    MaxHelloRequest = 0
    MaxTeardown = 0
PROPERTIES
    FinalFlightRecovers
\* An established, idle connection stops.
CHECK_DEADLOCK FALSE
