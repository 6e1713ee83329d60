SPECIFICATION RingFairSpec
CONSTANTS
    Size = 3
    CounterMod = 3
    Point = {p1, p2}
INVARIANTS RingTypeOK NoDataRace
PROPERTIES CountSound ImplementsFifo
