CONSTANTS
    Threads = {t1, t2, t3, t4, t5}
    NoThread = NoThread
SPECIFICATION FairSpec
INVARIANTS
    MutualExclusion
PROPERTIES
    ImplementsMutex
    NoBarging
    SomebodyEnters
