\* A thread without a storage calls tls_write while another makes its own.
SPECIFICATION FairSpec
CONSTANTS
    Threads = {a, b}
    NoThread = none
    Zero = 0
    PAGE_SIZE = 2
    MAX_THREADS = 9
    Sizes = {3}
    Offsets = {1}
    ReadLengths = {2}
    WriteLengths = {2}
    Creators = {a}
    Cloners = {}
    Strangers = {}
    CALL_LIMIT = 2
    Apart = {}
INVARIANT RefusedBeforeCreate
