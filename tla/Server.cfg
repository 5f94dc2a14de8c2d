CONSTANTS
    r1 = r1
    r2 = r2
    Requests <- Two
    Inputs <- Paths
    Probes <- Marks
    Burst = 1
    Sample = 1
    Setups <- Starts
    MaxSignals = 2
SPECIFICATION ServerSpec
INVARIANT ServerInv
INVARIANT ReplyHonest
INVARIANT ExitExplained
INVARIANT ServesOnlyValid
PROPERTY HealthJudges
PROPERTY SignalHeeded
CHECK_DEADLOCK FALSE
