CONSTANTS
    q1 = q1
    q2 = q2
    Nobody = Nobody
    Request = {q1, q2}
    SuiteLength = 2
SPECIFICATION FairSpec
INVARIANTS
    TypeOK
    ReportsHaveIds
PROPERTIES
    WholeSuiteSent
CHECK_DEADLOCK FALSE
