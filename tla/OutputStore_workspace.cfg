CONSTANTS
    p1 = p1
    p2 = p2
    Procs <- TwoProcs
    Roots <- TwoRoots
    Jobs <- WorkspaceJobs
    MaxGen = 2
    MaxFaults = 2
    MaxMoves = 0
    Absent = Absent
    Torn = Torn
    None = None
SPECIFICATION Spec
INVARIANTS
    TypeOK
    LockExclusion
    ReadsStayCurrent
    LastGoodKept
    NothingTornPublished
    StagesIntact
    InterruptedIsRepairable
PROPERTIES
    AtomicPublicationSpec
    ChangesUnderLock
    ResultsHonest
