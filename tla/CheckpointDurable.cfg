SPECIFICATION SafeSpec
CONSTANTS
    Ruptures = {r1}
    Kinds <- TwoKinds
    NumVars = 3
    Rvs <- OneAndTwo
    ShortValues = 8
    CacheSize = 2
    MaxStops = 0
    MaxNodeCrashes = 0
CHECK_DEADLOCK FALSE
INVARIANT LoggedOnDisk
