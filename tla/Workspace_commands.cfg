CONSTANTS
    p1 = p1
    p2 = p2
    Procs <- TwoProcs
    Projects <- TwoProjects
    Jobs <- BesideUpdates
    MaxChanges = 2
    MaxJobs = 1
    MaxFaults = 1
SPECIFICATION FairSpec
INVARIANTS
    TypeOK
    ProjectionsHonest
PROPERTIES
    ViewSpec
    SuccessCovers
    EventuallyCurrent
