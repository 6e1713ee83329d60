SPECIFICATION Spec
CONSTANTS
    Capacity = 1
    MaxPoints = 2
    MaxBatch = 2
    MaxFailures = 1
    Lengths = {1, 2}
INVARIANTS
    TypeOK
    CountersAddUp
    FileIsWhole
PROPERTIES
    GaugesSettle
CHECK_DEADLOCK FALSE
