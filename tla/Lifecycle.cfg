SPECIFICATION FairSpec
CONSTANTS
    Supervised = TRUE
    MaxBoots = 2
INVARIANTS TypeOK NoUseAfterRelease NothingLeaks
PROPERTIES StopEnds DeadMonitorIsReplaced
CHECK_DEADLOCK FALSE
