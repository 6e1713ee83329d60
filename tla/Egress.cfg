SPECIFICATION FairSpec
CONSTANTS
    MaxRows = 2
    Batch = 2
    MaxOutages = 1
    MaxCrashes = 1
    MaxDbFailures = 1
    PointQuality = {"good"}
    MayHang = TRUE
    SigpipeIgnored = FALSE
INVARIANTS
    TypeOK
    UploadedWasWritten
    ReplayInOrder
    DuplicatesBounded
PROPERTIES
    PendingDrains
CHECK_DEADLOCK FALSE
