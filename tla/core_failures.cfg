SPECIFICATION Spec
CONSTANTS
    n1 = n1
    n2 = n2
    o1 = o1
    o2 = o2
    Handlers = {h1, h2}
    Bases = {b1}
    Oids <- MCOids
    Names <- MCNames
    Main = Main
    None = None
    Forms <- FormsBoth
    Discoveries <- DiscoveredSets
    MasterRejectsDuplicates = TRUE
    AgentXFails = TRUE
    DbFails = TRUE
    MaxCrashes = 2
SYMMETRY Symmetry
INVARIANTS
    IndInv
    OneOwner
    AcceptedIsDurable
    NobodyStuck
    WaitsAreKnown
PROPERTIES
    ForgetOnlyDetached
    RefinesRegistry
    OnlyAdvances
