SPECIFICATION Spec
CONSTANTS
    Procs = {p1, p2}
    Txs = {t1}
    NoTx = NoTx
    Paths = {f1}
    Covers <- MCCovers
    NoHead = NoHead
    Torn = Torn
    Planned = 2
    HistoryCap = 1
    ScanLimit = 2
    MaxRuns = 2
    MaxEdits = 1
SYMMETRY Symmetry
INVARIANTS
    TypeOK
    PassIsWhole
    DirtyIsNoProof
PROPERTIES
    PassNeedsRun
CHECK_DEADLOCK FALSE
