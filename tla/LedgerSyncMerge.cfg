\* A content merge on a machine that also saved an audit snapshot.
SPECIFICATION Spec
CONSTANTS
    A = A
    B = B
    request = request
    poll = poll
    other = other
    hello = hello
    reply = reply
    more = more
    audit = audit
    Machines = {A, B}
    Workers = {request, poll, other}
    Requesters = {request, other}
    Pollers = {poll}
    Messages = {hello, reply}
    Snapshots = {audit}
    Host <- HostOf
    Writer <- WriterOf
    Resolutions = {"content_merge"}
    Founder = B
    None = None
    File = File
    MaxEvents = 2
PROPERTIES
    ZeroDataLoss
CHECK_DEADLOCK FALSE
