CONSTANTS
    NumBlocks = 17
    ByteBits = 2
    BlockBytes = 2
    WordBits = 4
    InodeBlocks = 3
    FileBlocks = {10, 16}
    NoSuper = NoSuper
    NoMem = NoMem
SPECIFICATION Spec
INVARIANTS
    MapLargeEnough
