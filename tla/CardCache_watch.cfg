\* The watcher beside two requests or invalidations and one crash.
SPECIFICATION FairSpec
CONSTANTS
    Keys = {"env"}
    Files = {".env"}
    Optional = {}
    Removable = {}
    Calls = {c1, c2}
    MaxTime = 3
    MayFail = TRUE
    MaxRestarts = 1
    Watching = TRUE
    Worker = worker
    NoOne = none
    Watch <- AllFiles
    Reads <- AllFiles
PROPERTIES
    RequestsAnswered
    OutdatedIsMarked
CHECK_DEADLOCK FALSE
