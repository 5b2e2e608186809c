SPECIFICATION Spec
CONSTANTS
    Shapes <- SomeShapes
    nxt = 4
    nyt = 4
    nt = 3
    Sources <- NearEdges
    Stations <- TwoStations
    NTISKP_SGT = 1
    WRITE_STEP = 2
CHECK_DEADLOCK FALSE
INVARIANTS
    DecompositionExact
    BuffersOwned
    FilesComplete
PROPERTIES
    LoopEnds
