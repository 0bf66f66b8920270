SPECIFICATION Spec
CONSTANTS
    n1 = n1
    n2 = n2
    o1 = o1
    o2 = o2
    Handlers = {h1, h2, h3}
    Bases = {b1}
    Oids <- MCOids
    Names <- MCNames
    Main = Main
    None = None
    Forms <- FormsBoth
    Discoveries <- DiscoveredSets
    MasterRejectsDuplicates = TRUE
    AgentXFails = FALSE
    DbFails = FALSE
    MaxCrashes = 1
SYMMETRY Symmetry
INVARIANTS
    TypeOK
    Mutex
    RetiredIsClosed
    MapIsMaster
    NoOrphanOids
    RejectedIsNotServed
    ServiceInv
