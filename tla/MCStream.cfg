SPECIFICATION FairSpec
CONSTANTS
    Clients = {c1}
    Capacity = 2
    MaxFiles = 2
    MaxCommits = 2
    MaxFaults = 1
INVARIANTS
    TypeOK
    NoSpuriousFrames
PROPERTIES
    CatchesUp
    ShutdownCompletes
CHECK_DEADLOCK FALSE
