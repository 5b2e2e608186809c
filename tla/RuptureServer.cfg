SPECIFICATION Spec
CONSTANTS
    Workers = {w1, w2, w3}
    NumRup = 2
    Results <- SomeResults
CHECK_DEADLOCK FALSE
INVARIANTS
    EachSlipOnce
    StatisticsComplete
    FilesAsListed
PROPERTIES
    JobEnds
    SlipPoolSpec
