CONSTANTS
    Requests = {r1, r2, r3}
    r2 = r2
    r3 = r3
    Streams = {"a", "b"}
    StreamOf <- OneStream
    Deadline <- NoDeadline
    Callers = {"x"}
    CallerOf <- SameCaller
    Droppable = {}
    Capacity = 3
    Closers = {c1, c2}
    MaxTime = 0
    Stuck = {}
    None = None
SPECIFICATION Spec
INVARIANTS OneSendPerStream
PROPERTIES SentInSequenceOrder
