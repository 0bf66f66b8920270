SPECIFICATION LiveSpec
CONSTANTS
    o1 = o1
    o2 = o2
    o3 = o3
    Oids <- MCOids
    Subtree <- MCSubtree
    InitialOids <- MCInitial
    Answers <- MCAnswers
    Getters = {g1}
    Caller = Caller
    Loop = Loop
    None = None
    Rediscovers = TRUE
    MapIds = {1, 2, 3}
INVARIANTS
    IndInv
    HandlerMatchesOids
PROPERTIES
    SnapshotsAreStable
    GetAnswered
    StopReturns
    RefinesRediscovery
