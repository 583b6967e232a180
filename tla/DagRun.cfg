\* Every plan of three steps, unknown references and cycles included, with
\* and without one shared package manager and with restarts asked for by any
\* of them; the executor stops when it returns.
SPECIFICATION DagFairSpec
CONSTANTS
    N = 3
    PMs = {apt}
INVARIANTS
    DecidesValid
    OnlyAfterDependencies
    OnePerPackageManager
    DoneMeansAllCompleted
    OnlyBlockedStepsLeft
PROPERTIES
    ImplementsExecutor
    ReturnsOrKeepsFailing
CHECK_DEADLOCK FALSE
