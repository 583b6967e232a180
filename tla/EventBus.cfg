\* One tab and a server restart; a queue of two overflows in the live stream
\* and, with three events to send again, in the replay; a buffer of four
\* evicts the first of five events.  One key: no key's data meets another's.
SPECIFICATION FairSpec
CONSTANTS
    Clients = {c1}
    Keys = {k1}
    BufferSize = 4
    QueueSize = 2
    MaxSeq = 6
    MaxInstances = 2
INVARIANTS
    TypeOK
    QueueIsTail
    SnapshotConverges
PROPERTIES
    ImplementsFeed
    EventuallyCurrent
