SPECIFICATION FairSpec
CONSTANTS
    NumItem = 3
    NumBin = 3
    MaxEvict = 3
    MaxStash = 1
INVARIANTS TypeOK NoneLost NoneTwice AtItsHash
PROPERTIES InsertReturns
CHECK_DEADLOCK FALSE
