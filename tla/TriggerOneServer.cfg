CONSTANTS
    s1 = s1
    t1 = t1
    t2 = t2
    Server = {s1}
    Api = {"dags", "dag_runs", "dags/dag_runs", "wes"}
    Content = {"fine", "unloadable", "broken"}
    Task = {t1, t2}
    First = t1
    MaxRequests = 4
    SpawnErrors = TRUE
SPECIFICATION Spec
INVARIANTS
    TypeOK
    RunsOfLoadedDags
PROPERTIES
    ExportedStays
CHECK_DEADLOCK FALSE
