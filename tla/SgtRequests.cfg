SPECIFICATION rqSpec
CONSTANTS
    SgtFiles <- SmallFiles
    HandlerCounts = {2, 3, 4, 5}
    Mappings <- SmallMappings
    IndexMasters <- SmallMasters
    MinStep = 2
    RoundingError = 1
    Beyond = {0, 25}
    Ruptures <- SmallRuptures
    MaxPoints = {1, 2, 3}
CHECK_DEADLOCK FALSE
INVARIANTS
    ListsHaveRoom
    OwnerFound
    ListsInOrder
    RequestFits
    RightTensors
    EachPointOnce
    NobodyExits
PROPERTY TaskEnds
