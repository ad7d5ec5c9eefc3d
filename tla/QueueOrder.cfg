\* Three jobs of two priorities, cancelled and paused at any time.
SPECIFICATION Spec
CONSTANTS
    Clients = {c1}
    Ops = {"cancel", "pause"}
    MaxJobs = 3
    CreatePriorities = {"high", "normal"}
    CreateMaxIterations = {1}
    PatchPriorities = {}
    PatchMaxIterations = {}
    ReorderLists = {}
    FailingWrites = {"dequeue"}
    ParsedIterations = {0}
    MayCancel = TRUE
    MayCrash = FALSE
INVARIANTS
    SubmissionOrder
    LeftTheQueue
    RunningIsWorkedOn
PROPERTIES
    FirstComeFirstServed
