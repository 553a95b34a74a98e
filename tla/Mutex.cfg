CONSTANTS
    MAX_THREADS = 3
    CREATE_LIMIT = 2
    Creators = {0}
    MUTEX_LIMIT = 2
SPECIFICATION MSpec
INVARIANTS
    MutexInv
    MutualExclusion
    NoBarging
    BlockedQueuedOnce
    NoLostWakeup
