SPECIFICATION Spec
CONSTANTS
    t1 = t1
    t2 = t2
    t3 = t3
    p1 = p1
    p2 = p2
    e1 = e1
    e2 = e2
    TxIds = {t1, t2, t3}
    Procs = {p1, p2}
    Entities = {e1, e2}
    NoName = NoName
    NoHead = NoHead
    NoTxn = NoTxn
    MaxDrift = 2
SYMMETRY Symmetry
INVARIANTS
    TypeOK
    ChainIsLinear
    OutcomeRecordedOnce
    OneOpenPerEntity
    ReconcileNeverOverstates
PROPERTIES
    ImplementsContract
    HistoryIsFinal
