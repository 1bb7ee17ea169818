CONSTANTS
    r1 = r1
    s1 = s1
    s2 = s2
    Run = {r1}
    Replayer = {s1, s2}
    MaxCallbacks = 1
    MaxRestarts = 1
SPECIFICATION FairSpec
PROPERTIES
    NotResentAfterResponse
    KeptReportDelivered
    ImplementsOutbox
