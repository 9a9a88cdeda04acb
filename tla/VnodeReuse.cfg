CONSTANTS
    Threads = {t1, t2}
    Vnodes = {v1, v2}
    Ids = {i1, i2, i3}
    Slots = {s1, s2}
    usdvnnum = 1
    EarlyReuse = TRUE
    NoThread = NoThread
    NoVnode = NoVnode
    NoId = NoId
SPECIFICATION Spec
CHECK_DEADLOCK FALSE
INVARIANT OneCopyInCore
