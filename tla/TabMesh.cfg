\* Two tabs with the full script and one with the light one.
SPECIFICATION MeshSpec
CONSTANTS
    Tabs = {admin, docs, site}
    Light = {site}
    Old = 1
    MaxQueue = 1
INVARIANTS
    MeshTypeOK
    KilledIsOut
PROPERTIES
    GoneIsForgotten
    OpenTabsMeet
CHECK_DEADLOCK FALSE
