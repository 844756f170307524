CONSTANTS
    Requests = {r1, r2, r3}
    r2 = r2
    r3 = r3
    Streams = {"a", "b"}
    StreamOf <- OneStream
    Deadline <- NoDeadline
    Callers = {"x"}
    CallerOf <- SameCaller
    Droppable = {r2}
    Capacity = 3
    Closers = {}
    MaxTime = 0
    Stuck = {}
    None = None
SPECIFICATION Spec
INVARIANTS OneSendPerStream
