SPECIFICATION Spec
CONSTANTS
    FRAC_MAX = 8
    Milli = 4
    StartDelay = 16
    MaxHellos = 1
    MaxClock = 40
    MaxIndex = 2
INVARIANTS SafeIsInTime
