CONSTANTS
    MAX_THREADS = 4
    CREATE_LIMIT = 3
    Creators = {0}
    BARRIER_LIMIT = 1
    COUNT = 2
    WAIT_LIMIT = 2
    BarrierClients = {1, 2}
SPECIFICATION BSpec
INVARIANT SerialOnce
