SPECIFICATION Spec
CONSTANTS
    NFrag = 2
    PskHint = TRUE
    PskResults = {TRUE}
    FreedReads = {"intact"}
    MaxRetransmit = 0
    Duplicates = FALSE
    MaxLoss = 0
    MaxClientHello = 1
    MaxServerHello = 5
    MaxHelloRequest = 0
    MaxTeardown = 0
INVARIANTS
    ServerSurvives
\* The server process is gone.
CHECK_DEADLOCK FALSE
