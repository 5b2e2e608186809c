SPECIFICATION Spec
CONSTANTS
    Ruptures = {r1, r2}
    Kinds <- TwoKinds
    NumVars = 3
    Rvs <- OneAndTwo
    ShortValues = 8
    CacheSize = 2
    MaxStops = 1
    MaxNodeCrashes = 1
CHECK_DEADLOCK FALSE
INVARIANTS
    CheckpointedComplete
    LoggedOnce
    AllDataAllLogged
PROPERTIES
    CheckpointedUntouched
    EventuallyAllLogged
