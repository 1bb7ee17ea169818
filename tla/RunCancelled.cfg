CONSTANTS
    a = a
    b = b
    Dispatcher = Dispatcher
    Gatherer = Gatherer
    Step = {a, b}
    Workflows <- Shapes
    KeepSettings = {"false"}
    JobFolders = {FALSE}
    MaxClears = 1
    MaxCancels = 1
    ClearEarly = TRUE
SPECIFICATION FairSpec
INVARIANTS
    FreshInputs
PROPERTIES
    RunSettles
CHECK_DEADLOCK FALSE
