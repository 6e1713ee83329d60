SPECIFICATION FairSpec
CONSTANTS
    TempHigh = 1
    MinDischargeSoc = 1
    PeakShavingThreshold = 1
    MaxDischarge = 2
    InitialSoc = 3
    SocReading = {1, 2}
    TempReading = {1, 2}
    GridReading = {1, 2}
    Cap = 2
    QueueMax = 2
    MaxPolls = 2
    MaxBoots = 3
    MaxStoreFailures = 2
INVARIANTS
    TypeOK
    DischargeOnRecentSoc
    AuditGap
PROPERTY LowSocAlarmed
CHECK_DEADLOCK FALSE
