SPECIFICATION FairSpec
CONSTANTS
    Hints = {"none", "some", "error"}
    Identities = {"known", "unknown", "error", "keyless"}
    SuiteLists <- MCSuiteLists
    MaxHello = 2
PROPERTIES EcdheConnects
CHECK_DEADLOCK FALSE
