CONSTANTS
    s1 = s1
    s2 = s2
    t1 = t1
    Server = {s1, s2}
    Api = {"dag_runs", "dags/dag_runs"}
    Content = {"fine", "unloadable"}
    Task = {t1}
    First = t1
    MaxRequests = 3
    SpawnErrors = TRUE
SPECIFICATION FairSpec
PROPERTIES
    EarlierRunReplaced
    RequestAnswered
CHECK_DEADLOCK FALSE
