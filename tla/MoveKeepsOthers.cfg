\* One of three waiting jobs is moved, and nothing else happens meanwhile.
SPECIFICATION SystemSpec
CONSTANTS
    Clients = {}
    Ops = {}
    MaxJobs = 3
    CreatePriorities = {"normal"}
    CreateMaxIterations = {1}
    PatchPriorities = {}
    PatchMaxIterations = {}
    ReorderLists = {}
    FailingWrites = {}
    ParsedIterations = {1}
    MayCancel = FALSE
    MayCrash = FALSE
    Movers = {m1}
    MovedIds = {1, 2, 3}
    Destinations = {1}
PROPERTIES
    MoveKeepsOthers
