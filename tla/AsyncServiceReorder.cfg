CONSTANTS
    Requests = {r1, r2}
    r2 = r2
    r3 = r3
    Streams = {"a", "b"}
    StreamOf <- OneStream
    Deadline <- NoDeadline
    Callers = {r1, r2}
    CallerOf <- OwnCaller
    Droppable = {}
    Capacity = 2
    Closers = {}
    MaxTime = 0
    Stuck = {}
    None = None
SPECIFICATION Spec
PROPERTIES SentInSequenceOrder
