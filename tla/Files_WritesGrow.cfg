\* Sizes that wrap after three bytes.
SPECIFICATION Spec
CONSTANTS
    Disks = {d1}
    NoDisk = none
    Names = {"a"}
    LongNames = {}
    NoName = ""
    MAX_FILES = 1
    MAX_FDS = 1
    DISK_BLOCKS = 4
    BLOCK_SIZE = 2
    SIZE_RANGE = 4
    Data = {1}
    Lengths = {0}
    OFFSET_LIMIT = 2
    Careless = {"sizes"}
PROPERTY WritesGrow
