CONSTANTS
    BITS_IN_CHUNK = 2
    bsize = 4
    NUM_DIRECT_BLOCKS = 2
    max_index = 2
    num_blocks = 6
    num_inodes = 4
    Reserved = {0}
    ReservedInodes = {0, 1}
    WriteEnds = {3, 12, 16, 17}
    Sizes = {0, 12}
SPECIFICATION Spec
CHECK_DEADLOCK FALSE
INVARIANTS
    OneUsePerBlock
