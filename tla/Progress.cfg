\* Fair runs of two jobs: requests, moves, refused writes and a cancelled context.
SPECIFICATION LiveSystem
CONSTANTS
    Clients = {c1}
    Ops = {"pause"}
    MaxJobs = 2
    CreatePriorities = {"normal"}
    CreateMaxIterations = {1}
    PatchPriorities = {}
    PatchMaxIterations = {}
    ReorderLists = {}
    FailingWrites = {"dequeue"}
    ParsedIterations = {1}
    MayCancel = TRUE
    MayCrash = FALSE
    Movers = {m1}
    MovedIds = {2}
    Destinations = {1}
PROPERTIES
    OnlyStaleMoveCollides
    MovedIsPlaced
    ProgressIsKept
    QueuedIsTaken
    TakenSettles
    CancelStops
