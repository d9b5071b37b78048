SPECIFICATION TeslaSpec
CONSTANTS
    ChainLen = 2
    Lens = {1, 2}
    Faults = {}
    MaxWrites = 2
    MaxExchanges = 1
    MaxSessions = 1
    MaxFaults = 0
INVARIANT StoredAuthenticates
CHECK_DEADLOCK FALSE
