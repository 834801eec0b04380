SPECIFICATION FairSpec
CONSTANTS
    d1 = d1
    d2 = d2
    r1 = r1
    r2 = r2
    r3 = r3
    x1 = x1
    x2 = x2
    NoHLC = NoHLC
    Devices = {d1, d2}
    TxIds = {x1, x2}
    Runs = {r1, r2}
    Dev <- MCDevPair
    Trust <- MCOneWay
    BatchSize = 2
    MaxAhead = 1
    Wall <- MCClose
    MaxLogical = 5
    MaxFaults = 1
PROPERTIES
    Consolidates
    Quiesces
