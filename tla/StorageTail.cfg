CONSTANTS
    BITS_IN_CHUNK = 2
    bsize = 4
    NUM_DIRECT_BLOCKS = 2
    max_index = 2
    num_blocks = 5
    num_inodes = 4
    Reserved = {0}
    ReservedInodes = {0, 1}
    WriteEnds = {6, 12, 17}
    Sizes = {0, 3}
SPECIFICATION Spec
CHECK_DEADLOCK FALSE
INVARIANTS
    SearchFinds
