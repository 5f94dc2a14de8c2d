CONSTANTS
    r1 = r1
    r2 = r2
    r3 = r3
    id = id
    NoRequest = NoRequest
    NumBuyers = 2
    Requested = 1
    Queued <- Three
    Batch <- None
    IdOf <- NoIds
    MaxStarts = 2
SPECIFICATION LiveSpec
INVARIANT TypeOK
INVARIANT BestAnswer
PROPERTY StopDrains
PROPERTY Answered
CHECK_DEADLOCK FALSE
