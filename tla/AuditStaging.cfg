\* Two cards, three scans, two requests in parallel and one fault.
SPECIFICATION Spec
CONSTANTS
    Cards = {c1, c2}
    Threads = {t1, t2}
    MaxScans = 3
    MaxFaults = 1
    NoSnap = NoSnap
INVARIANTS
    OneOwner
PROPERTIES
    NothingVanishes
CHECK_DEADLOCK FALSE
