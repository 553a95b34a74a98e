CONSTANTS
    MAX_THREADS = 3
    CREATE_LIMIT = 2
    Creators = {0}
    MUTEX_LIMIT = 1
    BARRIER_LIMIT = 1
    COUNT = 2
    WAIT_LIMIT = 4
    BarrierClients = {0, 1, 2}
SPECIFICATION SSpec
INVARIANT MutualExclusion
