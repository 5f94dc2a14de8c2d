CONSTANTS
    r1 = r1
    r2 = r2
    r3 = r3
    id = id
    NoRequest = NoRequest
    NumBuyers = 2
    Requested = 1
    Queued <- Third
    Batch <- Two
    IdOf <- SameId
    MaxStarts = 1
SPECIFICATION LiveSpec
INVARIANT HolesOnlyOnTimeout
PROPERTY BatchReturns
CHECK_DEADLOCK FALSE
