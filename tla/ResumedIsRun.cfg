\* Fair runs in which a job is paused and resumed.
SPECIFICATION LiveSpec
CONSTANTS
    Clients = {c1}
    Ops = {"pause", "resume"}
    MaxJobs = 1
    CreatePriorities = {"normal"}
    CreateMaxIterations = {1}
    PatchPriorities = {}
    PatchMaxIterations = {}
    ReorderLists = {}
    FailingWrites = {}
    ParsedIterations = {1}
    MayCancel = FALSE
    MayCrash = FALSE
PROPERTIES
    ResumedIsRun
