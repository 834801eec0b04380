SPECIFICATION Spec
CONSTANTS
    Keys = {k1, k2}
    Broken = Broken
    NoHead = NoHead
    Procs = {p1, p2}
    Modes = {"tx", "all_invalid", "all"}
    Legacy = 1
    Old = 1
    MaxRows = 5
    MaxDamage = 1
    MaxRotations = 1
    MaxExports = 1
    MaxCopies = 1
SYMMETRY Symmetry
INVARIANTS
    RepairIsWhole
    VerifyIsSound
    CheckpointTells
    AdoptionStands
PROPERTIES
    ChainGrows
CHECK_DEADLOCK FALSE
