\* The server as main.go wires it; nobody cancels the job that waits.
SPECIFICATION Spec
CONSTANTS
    Clients = {c1}
    Ops = {"pause", "resume"}
    MaxJobs = 1
    CreatePriorities = {"normal"}
    CreateMaxIterations = {1}
    PatchPriorities = {}
    PatchMaxIterations = {}
    ReorderLists = {}
    FailingWrites = {}
PROPERTIES
    QueuedIsServed
