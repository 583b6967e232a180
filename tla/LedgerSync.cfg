\* Two machines, on one of which a request and a poll interleave; a message of
\* each, a snapshot, and one deletion, resolution or crash.
SPECIFICATION Spec
CONSTANTS
    A = A
    B = B
    request = request
    poll = poll
    other = other
    hello = hello
    reply = reply
    more = more
    audit = audit
    Machines = {A, B}
    Workers = {request, poll, other}
    Requesters = {request, other}
    Pollers = {poll}
    Messages = {hello, reply}
    Snapshots = {audit}
    Host <- HostOf
    Writer <- WriterOf
    Resolutions = {"retry", "skip", "reset", "content_merge", "force_push"}
    Founder = B
    None = None
    File = File
    MaxEvents = 1
INVARIANTS
    TypeOK
    Kept
    Published
    Held
PROPERTIES
    Converges
CHECK_DEADLOCK FALSE
