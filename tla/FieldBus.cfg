SPECIFICATION Spec
CONSTANTS
    RegistryMax = 3
    Plugin = {"p1", "p2"}
    MaxOut = 8
    RegMod = 4
    TempHigh = 1
INVARIANTS
    TypeOK
    BatchIsComplete
    CommandFindsBus
    ReadingsAreTrue
PROPERTIES
    LinkRecovers
CHECK_DEADLOCK FALSE
