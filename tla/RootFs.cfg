CONSTANTS
    Keys = {2, 3, 4}
    MaxNumberOfLevels = 1
    Names = {1, 2}
    LongNames = {2}
    LinkNames = {1}
    MaxRefs = 2
    OpenDirs = {2, 3}
    Nums = {1, 3}
    Rooms = {2, 3}
    Vnodes = {1, 2, 3, 4, 5}
    ListLevels = 3
SPECIFICATION MCSpec
CHECK_DEADLOCK FALSE
INVARIANTS
    TreeSound
    ScanComplete
    SearchExact
PROPERTIES
    NothingLost
