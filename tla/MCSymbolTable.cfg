SPECIFICATION Spec
CONSTANTS
    a = a
    b = b
    c = c
    Names <- MCNames
    Hashes <- MCHashes
    InitBuckets = 1
    Threshold = 3
    NoVal = NoVal
    MaxDepth = 2
    MaxVals = 4
INVARIANTS
    TypeOK
    TablesSound
    LatestUntilGrowth
PROPERTIES
    ImplementsScopedNames
CHECK_DEADLOCK FALSE
