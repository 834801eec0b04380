SPECIFICATION Spec
CONSTANTS
    d1 = d1
    d2 = d2
    r1 = r1
    r2 = r2
    r3 = r3
    x1 = x1
    x2 = x2
    NoHLC = NoHLC
    Devices = {d1, d2}
    TxIds = {x1, x2}
    Runs = {r1, r2, r3}
    Dev <- MCDevTwice
    Trust <- MCMutual
    BatchSize = 2
    MaxAhead = 0
    Wall <- MCBehind
    MaxLogical = 2
    MaxFaults = 1
SYMMETRY Symmetry
INVARIANTS
    TypeOK
    NothingLost
