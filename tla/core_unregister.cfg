SPECIFICATION Spec
CONSTANTS
    n1 = n1
    n2 = n2
    o1 = o1
    o2 = o2
    Handlers = {h1, h2}
    Bases = {b1}
    Oids <- MCOids
    Names <- MCNames
    Main = Main
    None = None
    Forms <- FormsListed
    Discoveries <- DiscoveredTwo
    MasterRejectsDuplicates = TRUE
    AgentXFails = FALSE
    DbFails = FALSE
    MaxCrashes = 0
INVARIANTS
    UnregisteredIsForgotten
