SPECIFICATION Spec
CONSTANTS
    Files = {f1, f2, f3, f4, f5}
    NoFile = NoFile
    CACHE_SIZE = 4
CHECK_DEADLOCK FALSE
INVARIANTS
    Compact
    OneStreamEach
PROPERTY LruSpec
