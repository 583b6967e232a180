SPECIFICATION Spec
CONSTANTS
    Paths <- Places
    Archives <- Backups
    Stem <- Stems
    Names = {plain, enc, tar}
    Originals = {plain}
    Partner <- Partners
    Threads = {t1, t2}
    MaxWrites = 2
    MaxEvents = 3
    None = None
    plain = plain
    enc = enc
    tar = tar
    media = media
    docs = docs
    kept = kept
    stem = stem
    long = long
INVARIANTS
    TypeOK
    BackedUp
PROPERTIES
    UploadsEnd
    CancelledStops
CHECK_DEADLOCK FALSE
