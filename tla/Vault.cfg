\* Two secret files, each locked or not at first, two requests and the auto-lock;
\* one new version of a file, one crash or failed write.
SPECIFICATION FairSpec
CONSTANTS
    Files = {env, dev}
    Requests = {r1, r2}
    TimerThread = auto
    MaxOps = 2
    MaxEdits = 1
    MaxFaults = 1
    Absent = Absent
    Bad = Bad
    Torn = Torn
INVARIANTS
    TypeOK
    SecretSurvives
    Guarded
PROPERTIES
    AutoLocks
CHECK_DEADLOCK FALSE
