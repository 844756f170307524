SPECIFICATION ComponentsSpec
CONSTANTS
    Processes = {root, p1, p2}
    Root = root
    Platforms = {"nt", "posix"}
    p1 = p1
    p2 = p2
    Configurations = {m1}
    m1 = m1
    Versions = {1, 2}
    Micros = {1, 500000}
    MaxSecond = 1
    MaxRuns = 4
    Corrupt = Corrupt
    Directories = {"r", "d"}
    Names = {"a", "b", "d", "l", "r", "x", "y", "-"}
    FileSystems <- MCFileSystems
    Walks <- MCWalks
    Texts <- MCTexts
    Needles <- MCNeedles
    MaxPatterns = 2
    WordBytes = {"a", "A"}
    Lower <- MCLower
    Requests <- MCRequests
    Inputs = 2
    MaxLines = 4
    Units = {0, 1, 2}
    M0 = 1
    M1 = 2
    MaxPayload = 1
    MaxChunk = 3
    MaxFed = 14
    Streams <- MCStreams
    MaxHeader = 11
    MaxBody = 1
    Declares <- MCDeclares
    Messages = {1, 2}
    RecorderCapacity = 2
    MaxSubmits = 4
    Chunks <- MCChunks
    ServiceCapacity = 2
    MaxLineUnits = 3
    Thresholds <- MCThresholds
    MaxIngests = 4
    Keys = {k1, k2}
    k1 = k1
    k2 = k2
    Values = {v1}
    v1 = v1
    BadKey = bad
    Absent = none
    Hooks = 2
    MaxOperations = 2
    EventTypes = {t1, t2}
    t1 = t1
    t2 = t2
    MaxSubscribed = 3
    MaxEmitted = 3
    MaxNested = 2
INVARIANTS
    OutcomeIsTheAgents
    SelectedIsLatest
    EveryFileOnce
    SpansAreTheSearch
    OutputIsGrep
    StatusIsHonest
    FramesAsSpecified
    RequestsIndependentOfCuts
    RecorderDrains
    IngestIsTransactional
    StatisticsAddUp
    BatchIsAtomic
    CallsInOrder
    DispatchInOrder
PROPERTIES
    TimeoutEndsRun
    RecorderImplementsLog
    ServiceImplementsLog
CHECK_DEADLOCK FALSE
