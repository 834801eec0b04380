SPECIFICATION Spec
CONSTANTS
    t1 = t1
    t2 = t2
    t3 = t3
    m1 = m1
    m2 = m2
    m3 = m3
    TxIds = {t1, t2, t3}
    Entities = {e1}
    Recovery = Recovery
    NoName = NoName
    Msgs = {m1, m2, m3}
    Ref <- MCRef
    NoTx = NoTx
    NoMsg = NoMsg
    NoSidecar = NoSidecar
    Mode = "enforce"
    Faults = {"git"}
    Overlap = {}
    MaxCommits = 3
    MaxCuts = 1
    Reserve = 0
SYMMETRY Symmetry
INVARIANTS
    TypeOK
    EnforceCovers
PROPERTIES
    NoClobber
    OrphanTrail
CHECK_DEADLOCK FALSE
