CONSTANTS
    Requests = {r1, r2, r3}
    r2 = r2
    r3 = r3
    Streams = {"a", "b"}
    StreamOf <- TwoStreams
    Deadline <- SecondExpires
    Callers = {r1, r2, r3}
    CallerOf <- OwnCaller
    Droppable = {r1}
    Capacity = 2
    Closers = {c1}
    MaxTime = 1
    Stuck = {}
    None = None
SPECIFICATION Spec
INVARIANTS PermitsAccountedFor NothingAfterTransportClose OneFailure
