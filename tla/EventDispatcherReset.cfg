SPECIFICATION Spec
CONSTANTS
    EventTypes = {t1, t2}
    t1 = t1
    t2 = t2
    MaxSubscribed = 2
    MaxEmitted = 1
    MaxNested = 1
INVARIANTS
    RunningCallbackLives
CHECK_DEADLOCK FALSE
