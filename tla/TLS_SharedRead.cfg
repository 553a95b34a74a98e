\* Clones that read and write at the same time.
SPECIFICATION FairSpec
CONSTANTS
    Threads = {a, b}
    NoThread = none
    Zero = 0
    PAGE_SIZE = 2
    MAX_THREADS = 9
    Sizes = {3}
    Offsets = {1}
    ReadLengths = {2}
    WriteLengths = {2}
    Creators = {a}
    Cloners = {b}
    Strangers = {}
    CALL_LIMIT = 2
    Apart = {"tables"}
PROPERTY OwnCallsSafe
