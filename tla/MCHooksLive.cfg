SPECIFICATION FairSpec
CONSTANTS
    t1 = t1
    t2 = t2
    t3 = t3
    m1 = m1
    m2 = m2
    m3 = m3
    TxIds = {t1, t2, t3, t4}
    Entities = {e1}
    Recovery = Recovery
    NoName = NoName
    Msgs = {m1, m2}
    Ref <- MCNoRef
    NoTx = NoTx
    NoMsg = NoMsg
    NoSidecar = NoSidecar
    Mode = "observe"
    Faults = {"git"}
    Overlap = {}
    MaxCommits = 2
    MaxCuts = 0
    Reserve = 2
PROPERTIES
    RecoveryFreesOrphan
CHECK_DEADLOCK FALSE
