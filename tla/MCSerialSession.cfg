CONSTANTS
    Cases = 3
    Clean = {1, 2}
    MaxRestarts = 1
    MaxNoise = 1
    MaxForged = 1
    NoCase = NoCase
    NoRecord = NoRecord
SPECIFICATION FairSpec
INVARIANTS
    TypeOK
    NoOrphanVm
    OneRequestAtATime
    AskedInOrder
PROPERTIES
    Closes
    ImplementsTarget
