CONSTANTS
    MAX_THREADS = 3
    CREATE_LIMIT = 3
    Creators = {0}
SPECIFICATION Spec
INVARIANT NoOverrun
