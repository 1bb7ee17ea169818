CONSTANTS
    SuiteLength = 3
    MaxIntervals = 2
    MaxRepeats = 2
SPECIFICATION FairSpec
INVARIANTS
    TypeOK
    ExitCodeRight
    RangeRight
PROPERTIES
    SuiteEnds
CHECK_DEADLOCK FALSE
