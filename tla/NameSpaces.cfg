CONSTANTS
    Threads = {t1, t2}
    nns = 3
    Devices = {1, 2}
    Paths <- ThePaths
    Targets <- TheTargets
    MAX_SYM_LINKS = 1
    MaxKept = 1
    Users = {t1}
    NoVnode = NoVnode
SPECIFICATION Spec
CHECK_DEADLOCK FALSE
INVARIANTS
    NoRefMissing
    HeldIsMounted
    MountTreeSound
PROPERTY CallsAdvance
