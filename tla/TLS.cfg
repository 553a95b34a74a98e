\* A storage and its clones, calls kept apart, some refused; no strangers.
SPECIFICATION Spec
CONSTANTS
    Threads = {a, b, c}
    NoThread = none
    Zero = 0
    PAGE_SIZE = 2
    MAX_THREADS = 13
    Sizes = {3}
    Offsets = {1}
    ReadLengths = {2}
    WriteLengths = {2, 4}
    Creators = {a}
    Cloners = {b, c}
    Strangers = {}
    CALL_LIMIT = 2
    Apart = {"tables", "pages"}
INVARIANTS
    TTypeOK
    RefCountExact
    ReadsOwn
PROPERTY ImplementsTLS
SYMMETRY Symmetry
