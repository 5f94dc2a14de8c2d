CONSTANTS
    c1 = c1
    c2 = c2
    c3 = c3
    Clients <- ThreeClients
    Limit = 3
    Duration = 2
    MaxRetries = 1
    MaxLost = 2
    Resets = TRUE
SPECIFICATION LiveSpec
INVARIANT LimiterInv
INVARIANT WindowBound
PROPERTY ExpiringIsReleased
