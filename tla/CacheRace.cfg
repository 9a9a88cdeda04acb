CONSTANTS
    Threads = {t1, t2}
    Ents = {e1, e2}
    NBlocks = 3
    ReadAhead = 1
    MaxVersion = 1
    MaxHeld = 1
    Ops <- PlainOps
    NoThread = NoThread
    NoEnt = NoEnt
SPECIFICATION Spec
CHECK_DEADLOCK FALSE
INVARIANTS
    NoOneElseReadsIt
