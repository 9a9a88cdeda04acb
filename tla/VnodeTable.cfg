CONSTANTS
    Threads = {t1, t2}
    Vnodes = {v1, v2}
    Ids = {i1, i2, i3}
    Slots = {s1, s2}
    usdvnnum = 1
    EarlyReuse = FALSE
    NoThread = NoThread
    NoVnode = NoVnode
    NoId = NoId
SPECIFICATION FairSpec
CHECK_DEADLOCK FALSE
INVARIANTS
    OneVnodePerId
    RefCountExact
    OneCopyInCore
    NeverDestroyedInUse
PROPERTIES
    IdentityKept
    BusyEnds
