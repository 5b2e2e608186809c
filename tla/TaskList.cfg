SPECIFICATION Spec
CONSTANTS
    RupLists <- SmallLists
    Logs <- SmallLogs
CHECK_DEADLOCK FALSE
INVARIANTS
    WritesInBounds
    EveryVariationOnce
    TasksFit
