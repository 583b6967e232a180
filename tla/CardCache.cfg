\* Two cards in one file and two watched files, which may both be absent at
\* first and of which one comes and goes (the docs card watches one of them and
\* reads both); two requests or invalidations and the worker, one crash; compute
\* functions and saves may fail.
SPECIFICATION Spec
CONSTANTS
    Keys = {"env", "docs"}
    Files = {".env", "project.yml"}
    Optional = {".env", "project.yml"}
    Removable = {"project.yml"}
    Calls = {c1, c2}
    MaxTime = 2
    MayFail = TRUE
    MaxRestarts = 1
    Watching = FALSE
    Worker = worker
    NoOne = none
    Watch <- ProxyFiles
    Reads <- AllFiles
INVARIANTS
    TypeOK
    HitsAreCurrent
PROPERTIES
    EntriesIndependent
SYMMETRY Symmetry
CHECK_DEADLOCK FALSE
