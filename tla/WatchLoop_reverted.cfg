CONSTANTS
    Files = {1}
    MaxEdits = 2
    MaxFailures = 0
    MayStop = FALSE
    Reverts = TRUE
    None = None
SPECIFICATION FairSpec
PROPERTIES
    EventuallyBuilt
