\* A thread that touches another's pages whenever it likes; bad offsets and
\* lengths, reads and writes refused at the end of a storage.  A fault may end
\* the process; what else may not stop, CallsReturn says.
SPECIFICATION FairSpec
CONSTANTS
    Threads = {a, b}
    NoThread = none
    Zero = 0
    PAGE_SIZE = 2
    MAX_THREADS = 9
    Sizes = {0, 3}
    Offsets = {1, 4}
    ReadLengths = {2, 4}
    WriteLengths = {2, 4}
    Creators = {a, b}
    Cloners = {b}
    Strangers = {b}
    CALL_LIMIT = 2
    Apart = {"tables", "pages"}
INVARIANT PagesClosed
PROPERTIES
    OwnCallsSafe
    CallsReturn
CHECK_DEADLOCK FALSE
