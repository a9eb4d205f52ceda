CONSTANTS
    w1 = w1
    w2 = w2
    Workers <- TwoWorkers
    Supervised <- OnlyFirst
    MaxCrashes = 0
    MaxPauses = 0
    MaxAsks = 0
    Leftover = TRUE
    None = None
SPECIFICATION WindowsSpec
INVARIANTS
    OneUpdate
