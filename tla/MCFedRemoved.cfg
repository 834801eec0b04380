SPECIFICATION Spec
CONSTANTS
    p1 = p1
    p2 = p2
    a = a
    root = root
    former = former
    me = me
    s = s
    t = t
    lib = lib
    Missing = Missing
    Torn = Torn
    None = None
    Procs = {p1}
    Peers = {a}
    Root = root
    OldNames = {former, me}
    Symbols = {s}
    Txs = {t}
    Owner <- OwnerIsA
    File <- FileIsLib
    EntryFile <- AboutLib
    Lower <- IsLower
    OldDatabases <- Upgrades
    AutoSync = FALSE
    MaxRuns = 2
    MaxEvents = 3
    MaxBreaks = 0
PROPERTIES
    RemovalIsReported
CHECK_DEADLOCK FALSE
