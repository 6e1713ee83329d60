SPECIFICATION EngineSpec
CONSTANTS
    TempHigh = 1
    MinDischargeSoc = 1
    PeakShavingThreshold = 1
    MaxDischarge = 2
    InitialSoc = 3
    WantAlarm = TRUE
    WantCommand = TRUE
    Reading = {0, 1, 2, 3, 4}
    Timestamp = {0}
    MaxAlarmId = 3
INVARIANTS FaultIffHot DischargeIsSafe
