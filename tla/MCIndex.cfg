SPECIFICATION FairSpec
CONSTANTS
    Files = {f1, f2}
    Indexers = {i1}
    Broken = {2}
    BatchSize = 1
    MegaBatch = 2
    MaxEdits = 3
    MaxFaults = 1
INVARIANTS
    TypeOK
    CleanIsTrue
PROPERTIES
    Settles
CHECK_DEADLOCK FALSE
