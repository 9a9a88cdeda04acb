CONSTANTS
    Threads = {t1, t2, t3}
    Files = {f1, f2}
    Num = 2
    Types = {"FD_FILE", "FD_DIR"}
    DirType = "FD_DIR"
    MaxLeaks = 1
    NoFile = NoFile
SPECIFICATION FairSpec
INVARIANTS
    CountsExact
    NoUseAfterFree
    ClosedOnce
PROPERTIES
    ClosedIsFreed
