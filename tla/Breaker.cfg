CONSTANTS
    c1 = c1
    c2 = c2
    c3 = c3
    Callers <- ThreeCallers
    MaxFailures = 2
    MaxRetries = 1
SPECIFICATION BreakerLiveSpec
INVARIANT BreakerTypeOK
INVARIANT ClosedBelowMax
PROPERTY OpenLastsResetTimeout
PROPERTY Recovers
