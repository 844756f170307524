CONSTANTS
    Requests = {r1, r2, r3}
    r2 = r2
    r3 = r3
    Streams = {"a", "b"}
    StreamOf <- TwoStreams
    Deadline <- NoDeadline
    Callers = {"x"}
    CallerOf <- SameCaller
    Droppable = {}
    Capacity = 3
    Closers = {c1}
    MaxTime = 0
    Stuck = {"b"}
    None = None
SPECIFICATION Spec
PROPERTIES AcceptedRequestsEnd CloseReturns
