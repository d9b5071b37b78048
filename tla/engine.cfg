SPECIFICATION EngineSpec
CONSTANTS
    Peers = {p1, p2}
    NETQ_MAXCNT = 3
    Timeout = 2
    MaxRetransmit = 2
    MaxSends = 3
    MaxEarly = 2
    Hints = {"none", "some", "error"}
    Identities = {"known", "unknown", "error", "keyless"}
    SuiteLists <- MCSuiteLists
    MaxHello = 2
INVARIANTS
    PoolConserved
    NotLate
    ServerChoice
    ServerAuthenticated
    ClientAuthenticated
    PairAgrees
PROPERTIES
    GivenUp
    Outcome
\* A pair that failed or is connected stops.
CHECK_DEADLOCK FALSE
