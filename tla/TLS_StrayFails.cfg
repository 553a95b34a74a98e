\* A page that a refused write leaves open, and a thread that writes to it.
SPECIFICATION FairSpec
CONSTANTS
    Threads = {a, b}
    NoThread = none
    Zero = 0
    PAGE_SIZE = 2
    MAX_THREADS = 9
    Sizes = {3}
    Offsets = {1}
    ReadLengths = {2}
    WriteLengths = {4}
    Creators = {a}
    Cloners = {b}
    Strangers = {b}
    CALL_LIMIT = 2
    Apart = {"tables", "pages"}
PROPERTY StrayFails
CHECK_DEADLOCK FALSE
