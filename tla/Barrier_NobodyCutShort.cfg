CONSTANTS
    MAX_THREADS = 4
    CREATE_LIMIT = 3
    Creators = {0}
    BARRIER_LIMIT = 1
    COUNT = 2
    WAIT_LIMIT = 4
    BarrierClients = {1, 2, 3}
SPECIFICATION BSpec
INVARIANT NobodyCutShort
