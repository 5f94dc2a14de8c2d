CONSTANTS
    c1 = c1
    c2 = c2
    Calls <- Two
    Deadline <- One
    Burst = 1
    MaxHops = 3
    Refills = TRUE
SPECIFICATION LiveSpec
INVARIANT BuyerInv
INVARIANT NoRepeatAfterAnswer
PROPERTY EveryCallReturns
CHECK_DEADLOCK FALSE
