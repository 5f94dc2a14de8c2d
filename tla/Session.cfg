CONSTANTS
    c1 = c1
    c2 = c2
    k1 = k1
    k2 = k2
    Clients <- TwoClients
    Keys <- TwoKeys
    TTL = 2
    Extra = 2
    MaxLeft = 4
SPECIFICATION Spec
SYMMETRY Alike
INVARIANT SessionInv
PROPERTY UnracedKeepsAll
