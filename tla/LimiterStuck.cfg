CONSTANTS
    c1 = c1
    c2 = c2
    c3 = c3
    Clients <- OneClient
    Limit = 1
    Duration = 2
    MaxRetries = 3
    MaxLost = 4
    Resets = FALSE
SPECIFICATION LiveSpec
PROPERTY BlockedIsReleased
