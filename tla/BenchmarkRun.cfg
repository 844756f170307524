SPECIFICATION Spec
CONSTANTS
    Commands = {c1, c2}
    Tasks = {t1, t2}
    PipelineOf <- Mixed
    Selected <- OnePerSide
    Batches = {c1}
    AgentOutcomes = {"SUCCESS", "AGENT_TIMEOUT"}
    FailingCalls = {"copy", "write", "agent", "validate", "summary"}
    GitMayFail = TRUE
    Killable = {c2}
    Seconds = {1}
    MaxSuffix = 3
    c1 = c1
    c2 = c2
    t1 = t1
    t2 = t2
    None = None
INVARIANTS
    NoSharedWorkspace
    MarkedMeansPrepared
    RowsMatchRecords
PROPERTIES
    CommandEnds
    SuccessIsEarned
CHECK_DEADLOCK FALSE
