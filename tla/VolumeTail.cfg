CONSTANTS
    NumBlocks = 14
    ByteBits = 2
    BlockBytes = 2
    WordBits = 4
    InodeBlocks = 2
    FileBlocks = {9, 13}
    NoSuper = NoSuper
    NoMem = NoMem
SPECIFICATION Spec
INVARIANTS
    UsedIsReal
