CONSTANTS
    MAX_THREADS = 3
    CREATE_LIMIT = 2
    Creators = {0}
    MUTEX_LIMIT = 1
SPECIFICATION MFairSpec
PROPERTIES
    QueuedGetsMutex
    MutexRoundRobin
