SPECIFICATION Spec
CONSTANTS
    MaxRows = 2
    Batch = 2
    MaxOutages = 1
    MaxCrashes = 0
    MaxDbFailures = 0
    PointQuality = {"good", "bad"}
    MayHang = FALSE
    SigpipeIgnored = TRUE
INVARIANT QualityPreserved
