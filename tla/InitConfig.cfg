SPECIFICATION FairSpec
CONSTANTS
    OwnPatch = {load_examples}
    Setting = {executor}
    OtherSetting = other
    DagFile = {d1, d2}
    NoDagFile = none
    Long = {d2}
    MaxFailures = 2
    MaxKills = 2
INVARIANTS
    TypeOK
    OriginalKept
    ConfigAfterRun
    DagsUpgraded

    
