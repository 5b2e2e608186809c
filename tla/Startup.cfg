SPECIFICATION suSpec
CONSTANTS
    Workers = {w1, w2}
    TaskCounts = {0, 2}
    NumHandlers = 2
    TaskManagerId = tm
    Needs <- TwoNeeds
    NumComps = 2
    NumClusters = 2
    Modes <- Sound
CHECK_DEADLOCK FALSE
INVARIANTS
    NoMisreceive
    AnswersOwnRequest
    WrittenOnce
    HandlersOutliveRequests
    AllDataWritten
PROPERTIES
    ServersExit
    TaskManagerSpec
