CONSTANTS
    p1 = p1
    p2 = p2
    Procs <- TwoProcs
    Projects <- TwoProjects
    Jobs <- BesideUpdates
    MaxChanges = 1
    MaxJobs = 1
    MaxFaults = 0
SPECIFICATION Spec
INVARIANTS
    LayoutIsIdentity
