CONSTANTS
    p1 = p1
    p2 = p2
    Procs <- TwoProcs
    Roots <- TwoRoots
    Jobs <- MovingJobs
    MaxGen = 2
    MaxFaults = 1
    MaxMoves = 1
    Absent = Absent
    Torn = Torn
    None = None
SPECIFICATION Spec
INVARIANTS
    OnlyOvertakenUnrepairable
PROPERTIES
    AtomicPublicationSpec
