\* A request to cancel a job while the scheduler runs it.
SPECIFICATION Spec
CONSTANTS
    Clients = {c1}
    Ops = {"cancel"}
    MaxJobs = 1
    CreatePriorities = {"normal"}
    CreateMaxIterations = {1}
    PatchPriorities = {}
    PatchMaxIterations = {}
    ReorderLists = {}
    FailingWrites = {}
    ParsedIterations = {1}
    MayCancel = FALSE
    MayCrash = FALSE
PROPERTIES
    TerminalIsFinal
