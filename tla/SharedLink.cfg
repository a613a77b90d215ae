SPECIFICATION Spec
CONSTANTS
    CACHE_CAPACITY = 2
    Main = main
    Pool = pool
    Blocks = {0, 1, 2, 3}
    Superblock = 0
    RootInode = 1
INVARIANT OwnBlock
CHECK_DEADLOCK FALSE
