SPECIFICATION Spec
CONSTANTS
    j1 = j1
    j2 = j2
    j3 = j3
    j4 = j4
    c1 = c1
    c2 = c2
    Jobs = {j1, j2, j3, j4}
    NoJob = NoJob
    Capacity = 2
    Closers = {c1, c2}
    HandlerMayPanic = TRUE
INVARIANTS
    LedgerInOrder
    ExpectationsHold
    ReturnedCloseHasDrained
PROPERTIES
    ImplementsFifoWorker
    CloseReturns
