SPECIFICATION SchedulerSpec
CONSTANTS
    QueueMax = 2
    MaxId = 4
INVARIANTS SchedulerTypeOK EveryCommandOnceInOrder LogIsTruthful
