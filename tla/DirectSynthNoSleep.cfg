SPECIFICATION dsSafeSpec
CONSTANTS
    Workers = {w1, w2}
    TaskCounts = {2}
    NumHandlers = 2
    TaskManagerId = tm
    Needs <- TwoNeeds
    NumComps = 2
    NumClusters = 2
    Modes <- Unsound
CHECK_DEADLOCK FALSE
INVARIANT AllDataWritten
