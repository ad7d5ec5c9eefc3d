\* Claude exits without a promise before the last iteration.
SPECIFICATION Spec
CONSTANTS
    Clients = {c1}
    Ops = {"cancel"}
    MaxJobs = 1
    CreatePriorities = {"normal"}
    CreateMaxIterations = {2}
    PatchPriorities = {}
    PatchMaxIterations = {}
    ReorderLists = {}
    FailingWrites = {}
    ParsedIterations = {1}
    MayCancel = FALSE
    MayCrash = FALSE
PROPERTIES
    CompletedIsPromised
