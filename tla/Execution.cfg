\* Two jobs of one branch; Claude prints up to two lines on each stream.
SPECIFICATION Spec
CONSTANTS
    FailingWrites = {}
    Lines <- SampleLines
    PipeSize = 1
    Jobs = 2
    MaxIterations = {1, 2}
CHECK_DEADLOCK FALSE
INVARIANTS
    ExecuteIsNotStuck
PROPERTIES
    ImplementsHandler
    OutputIsComplete
    PRHasTheWork
    GitHubKeepsWork
    ReadingEnds
    ExecuteEnds
    CancelEndsExecute
