SPECIFICATION TeyaSpec
CONSTANTS
    MaxAttempts = 8
    BreakerThreshold = 1
    MaxTeyaFaults = 2
INVARIANT
    SelfBookedIsFinal
CHECK_DEADLOCK FALSE
