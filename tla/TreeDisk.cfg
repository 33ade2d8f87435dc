CONSTANTS
    REFS_PER_BLOCK = 2
    NBITS = 4
    NBLOCKS = 10
    NINODES = 2
    Ino = {0, 1, 2}
    Offset = {0, 1, 4}
    Data = {1, 2}
SPECIFICATION Spec
INVARIANTS
    BlocksPartitioned
PROPERTIES
    ImplementsInodeStore
