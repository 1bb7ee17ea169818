CONSTANTS
    r1 = r1
    s1 = s1
    Run = {r1}
    Replayer = {s1}
    MaxCallbacks = 2
    MaxRestarts = 0
SPECIFICATION Spec
INVARIANTS
    NewestReportKept
