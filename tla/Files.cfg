\* Two files, two descriptors, one block to spare, two writes of one place.
SPECIFICATION Spec
CONSTANTS
    Disks = {d1}
    NoDisk = none
    Names = {"a", "b", "long"}
    LongNames = {"long"}
    NoName = ""
    MAX_FILES = 2
    MAX_FDS = 2
    DISK_BLOCKS = 6
    BLOCK_SIZE = 1
    SIZE_RANGE = 3
    Data = {1}
    Lengths = {0, 1}
    OFFSET_LIMIT = 1
    Careless = {}
INVARIANTS
    FTypeOK
    FilesApart
    OneInodeEach
PROPERTIES
    FdKeepsFile
    ImplementsFS
