SPECIFICATION FairSpec
CONSTANTS
    Fd = {1, 2}
    Batch = 2
INVARIANTS WholePackets SocketDiscipline
PROPERTIES StopReleases
CHECK_DEADLOCK FALSE
