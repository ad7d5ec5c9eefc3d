\* Every operation, crash and database failure, one job and two requests at a time.
SPECIFICATION Spec
CONSTANTS
    Clients = {c1, c2}
    Ops = {"cancel", "pause", "resume", "patch"}
    MaxJobs = 1
    CreatePriorities = {"normal"}
    CreateMaxIterations = {0, 2}
    PatchPriorities = {}
    PatchMaxIterations = {0}
    ReorderLists <- OnlyJob
    FailingWrites = {"api", "dequeue", "iteration", "pr", "settle"}
    ParsedIterations = {0, 2}
    MayCancel = FALSE
    MayCrash = TRUE
SYMMETRY ClientSymmetry
INVARIANTS
    TypeOK
    RowCoherence
    FinishedHasPR
PROPERTIES
    SettledIsFinal
    OnlyPatchRequeues
    OnlyTheseStrand
    ImplementsStaleTable
