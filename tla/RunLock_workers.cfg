CONSTANTS
    w1 = w1
    w2 = w2
    Workers <- TwoWorkers
    Supervised <- OnlyFirst
    MaxCrashes = 1
    MaxPauses = 1
    MaxAsks = 2
    Leftover = TRUE
    None = None
SPECIFICATION WindowsFairSpec
INVARIANTS
    TypeOK
    OverlapIsOvertaken
    StaleIsUnused
PROPERTIES
    StopHonoured
    NewStartSucceeds
    LossEndsWorker
    RunningIsReported
