CONSTANTS
    Threads = {t1, t2}
    nns = 2
    Devices = {1}
    Paths <- ThePaths
    Targets <- TheTargets
    MAX_SYM_LINKS = 1
    MaxKept = 1
    Users = {t1}
    NoVnode = NoVnode
SPECIFICATION Spec
CHECK_DEADLOCK FALSE
INVARIANT EveryRefCounted
