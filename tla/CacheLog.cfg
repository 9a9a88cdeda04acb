CONSTANTS
    Threads = {t1, t2}
    Ents = {e1}
    NBlocks = 2
    ReadAhead = 1
    MaxVersion = 2
    MaxHeld = 1
    Ops <- AllOps
    NoThread = NoThread
    NoEnt = NoEnt
SPECIFICATION FairSpec
CHECK_DEADLOCK FALSE
INVARIANTS
    LogNotForgotten
PROPERTIES
    DiskInOrder
    BusyEnds
