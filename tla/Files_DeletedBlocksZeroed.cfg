SPECIFICATION Spec
CONSTANTS
    Disks = {d1}
    NoDisk = none
    Names = {"a", "b"}
    LongNames = {}
    NoName = ""
    MAX_FILES = 2
    MAX_FDS = 2
    DISK_BLOCKS = 6
    BLOCK_SIZE = 2
    SIZE_RANGE = 4
    Data = {1}
    Lengths = {0, 1}
    OFFSET_LIMIT = 2
    Careless = {}
INVARIANT
    DeletedBlocksZeroed
