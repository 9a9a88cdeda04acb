CONSTANTS
    NumBlocks = 25
    ByteBits = 2
    BlockBytes = 2
    WordBits = 20
    InodeBlocks = 7
    FileBlocks = {17, 20, 24}
    NoSuper = NoSuper
    NoMem = NoMem
SPECIFICATION Spec
CHECK_DEADLOCK FALSE
INVARIANTS
    MountFindsAll
    UsedExact
    SafeOverCrashes
