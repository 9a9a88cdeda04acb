CONSTANTS
    Threads = {t1, t2}
    Ents = {e1, e2}
    NBlocks = 3
    ReadAhead = 2
    MaxVersion = 1
    MaxHeld = 2
    Ops <- AllOps
    NoThread = NoThread
    NoEnt = NoEnt
SPECIFICATION Spec
SYMMETRY Symmetry
CHECK_DEADLOCK FALSE
INVARIANTS
    CacheSound
    Coherent
PROPERTIES
    PointerStaysGood
