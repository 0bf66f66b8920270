SPECIFICATION LiveSpec
CONSTANTS
    s1 = s1
    s2 = s2
    Programs = {"cpnr", "php-fpm"}
    Configs <- MCConfigs
    Interval = 2
    Oldest = 3
    Cache = 1
    Delay = 1
    RangeEnd <- MCRangeEnd
    Asked <- MCAsked
    Radix = 3
    Columns = 2
    Servers = {s1, s2}
    Listings <- MCListings
    Statuses <- MCStatuses
    running = running
    other = other
    Words = {running, other}
    Nil = Nil
    PoolTypes <- MCPoolTypes
    ProcTypes <- MCProcTypes
    DataEnums <- MCDataEnums
    Unknown = 3
    Second = 3
    MaxInt32 = 3
    MaxInt64 = 7
INVARIANTS
    TypeOK
    IndInv
    NeverPanics
    FreshRows
    ShowsOneListing
PROPERTIES
    RefinesSnapshot
    RefusedOnlyWhenLate
    WalkSkipsNothing
    QueryAnswered
    KeepsLoading
    BootEnds
