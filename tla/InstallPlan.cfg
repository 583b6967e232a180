\* A plan of three steps, executed and then resumed twice, at any moment, also
\* while an earlier run is still under way; all requests may be used up.
SPECIFICATION Spec
CONSTANTS
    N = 3
    MaxResumes = 2
INVARIANTS
    TypeOK
    SkipsOnlyInstalled
    DoneMeansInstalled
    CancelSticks
CHECK_DEADLOCK FALSE
