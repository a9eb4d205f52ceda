CONSTANTS
    Files = {1, 2}
    MaxEdits = 2
    MaxFailures = 1
    MayStop = TRUE
    Reverts = FALSE
    None = None
SPECIFICATION FairSpec
INVARIANTS
    TypeOK
    PublishedStateExisted
    NothingOwed
PROPERTIES
    EventuallyBuilt
    ComesToRest
