CONSTANTS
    a = a
    b = b
    Dispatcher = Dispatcher
    Gatherer = Gatherer
    Step = {a, b}
    Workflows <- AllWorkflows
    KeepSettings = {"unset", "true", "false", "cfg_False"}
    JobFolders = {TRUE, FALSE}
    MaxClears = 1
    MaxCancels = 0
    ClearEarly = FALSE
SPECIFICATION Spec
INVARIANTS
    TypeOK
    SuccessReportsResults
    EndReported
    CleanedUp
PROPERTIES
    ImplementsLifecycle
CHECK_DEADLOCK FALSE
