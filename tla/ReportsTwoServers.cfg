CONSTANTS
    r1 = r1
    s1 = s1
    s2 = s2
    Run = {r1}
    Replayer = {s1, s2}
    MaxCallbacks = 2
    MaxRestarts = 1
SPECIFICATION Spec
SYMMETRY Symmetry
VIEW WithoutUndeleted
INVARIANTS
    TypeOK
    SoleReportKept
PROPERTIES
    DeletedAfterDelivery
