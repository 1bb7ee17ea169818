CONSTANTS
    p1 = p1
    p2 = p2
    p3 = p3
    Process = {p1, p2, p3}
    Chunks = 2
    MaxLoads = 2
    MaxKills = 1
SPECIFICATION Spec
INVARIANTS
    TypeOK
    PickleComplete
PROPERTIES
    SettledPickleStays
CHECK_DEADLOCK FALSE
