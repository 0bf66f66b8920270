SPECIFICATION Spec
CONSTANTS
    MaxInt32 = 3
    MaxUint32 = 7
    MaxInt64 = 63
    MaxUint64 = 127
    Lowest <- MCLowest
    Highest = 140
    Exact = 16
    Float <- MCFloat
    Second = 4
    None = None
INVARIANTS
    TypeOK
    KeptOrRefused
PROPERTIES
    NeverRunsBack
    RestartKeepsType
