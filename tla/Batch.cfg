CONSTANTS
    i1 = i1
    i2 = i2
    i3 = i3
    idA = idA
    idB = idB
    NoItem = NoItem
    Items <- Three
    IdOf <- Duplicates
SPECIFICATION LiveSpec
INVARIANT BatchInv
PROPERTY NothingLeftBehind
CHECK_DEADLOCK FALSE
