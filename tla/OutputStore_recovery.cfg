CONSTANTS
    p1 = p1
    p2 = p2
    Procs <- TwoProcs
    Roots <- TwoRoots
    Jobs <- RecoverJobs
    MaxGen = 2
    MaxFaults = 1
    MaxMoves = 0
    Absent = Absent
    Torn = Torn
    None = None
SPECIFICATION RecoverySpec
PROPERTIES
    CallsReturn
    EventuallyResolved
    ReadsReturn
