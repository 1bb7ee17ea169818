CONSTANTS
    a = a
    b = b
    c = c
    Dispatcher = Dispatcher
    Gatherer = Gatherer
    Step = {a, b, c}
    Naming <- Documents
    NoNaming = NoNaming
SPECIFICATION JobSpec
SYMMETRY StepSymmetry
INVARIANTS
    AssemblyTypeOK
    DependenciesConnected
    OrderIrrelevant
    DispatcherLeads
    TakenFromSources
CHECK_DEADLOCK FALSE
