CONSTANTS
    Components <- FourComponents
    Versions = {1, 2, 3}
    Invalid = {3}
    MaxInstalls = 1
    MaxCrashes = 2
    MaxFaults = 1
    MaxAsks = 1
    Branches <- ThreeBranches
    OriginHead = "main"
    MaxOutside = 2
    Editors = {e1, e2}
    Contents = {a, b}
    NoFile = NoFile
    MaxWrites = 3
    Inputs <- TwoInputs
    MaxLine = 3
    ReadSize = 2
    MaxReplacements = 2
SPECIFICATION Services
CHECK_DEADLOCK FALSE
INVARIANTS
    ServicesTypeOK
    NoneLeftBehind
    ReportTrue
PROPERTIES
    EventuallyServing
    RequestHonoured
    FastForwardsOnly
    NoLostSave
    AllAnswered
