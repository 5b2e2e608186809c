SPECIFICATION Spec
CONSTANTS
    Workers = {w1, w2, w3, w4}
    TaskCounts = {0, 1, 4}
CHECK_DEADLOCK FALSE
INVARIANTS
    EachTaskRunOnce
    ReturnsOnlyWhenDone
    EmptyListAllTold
PROPERTIES
    KnownWorkersReleased
    PoolSpec
