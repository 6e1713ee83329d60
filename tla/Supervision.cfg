SPECIFICATION Spec
CONSTANTS
    WatchdogSec = 26
    Interval = 1
    PollInterval = 1
    StaleAfter = 14
    CallMax = 1
    Batch = 2
INVARIANTS
    TypeOK
    OnlyStuckIsRestarted
    NoFalseAlarm
PROPERTIES
    StuckIsRestarted
    StuckIngressIsReported
