SPECIFICATION Spec
CONSTANTS
    p1 = p1
    p2 = p2
    a = a
    root = root
    former = former
    me = me
    s = s
    t = t
    lib = lib
    Missing = Missing
    Torn = Torn
    None = None
    Procs = {p1, p2}
    Peers = {a}
    Root = root
    OldNames = {former, me}
    Symbols = {s}
    Txs = {t}
    Owner <- OwnerIsA
    File <- FileIsLib
    EntryFile <- AboutLib
    Lower <- IsLower
    OldDatabases <- Upgrades
    AutoSync = TRUE
    MaxRuns = 3
    MaxEvents = 2
    MaxBreaks = 1
SYMMETRY Processes
INVARIANTS
    OneRowPerEntry
    RunSettles
PROPERTIES
    OnlyTheMissingForgotten
CHECK_DEADLOCK FALSE
