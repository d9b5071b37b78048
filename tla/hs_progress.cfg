SPECIFICATION QuietSpec
CONSTANTS
    NFrag = 2
    PskHint = TRUE
    PskResults = {TRUE}
    FreedReads = {"intact"}
    MaxRetransmit = 3
    Duplicates = FALSE
    MaxLoss = 3
    MaxClientHello = 1
    MaxServerHello = 5
    MaxHelloRequest = 0
    MaxTeardown = 0
PROPERTIES
    FirstFlightsRecover
\* An established, idle connection stops.
CHECK_DEADLOCK FALSE
