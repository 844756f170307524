SPECIFICATION PlannedSpec
CONSTANTS
    a = a
    b = b
    c = c
    d = d
    x = x
    y = y
    Keys = {a, b, c, d}
    Threads = {x, y}
    ShardCount = 2
    ShardOf <- TwoShards
    Capacity = 3
    Ttls = {0, 1}
    MayLoad <- NestedLoads
    StuckKeys = {a}
    Counters = {"len"}
    Closers = {"close"}
    MaxCalls = 4
    MaxTime = 1
INVARIANTS
    OneLoaderPerKey
    OneAnswerPerFlight
    EntriesMatchFlights
    EmptyAfterClose
PROPERTIES
    EvictsLeastRecent
    CallsReturn
CHECK_DEADLOCK FALSE
