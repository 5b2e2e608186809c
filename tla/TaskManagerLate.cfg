SPECIFICATION Spec
CONSTANTS
    Workers = {w1, w2, w3}
    TaskCounts = {2}
CHECK_DEADLOCK FALSE
INVARIANT AllToldBeforeReturn
