\* As InstallPlan.cfg: the second resume leaves out a step that never ran.
SPECIFICATION Spec
CONSTANTS
    N = 3
    MaxResumes = 2
INVARIANTS
    ResumesWhereItStopped
CHECK_DEADLOCK FALSE
