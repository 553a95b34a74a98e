CONSTANTS
    MAX_THREADS = 3
    CREATE_LIMIT = 2
    Creators = {0}
    BARRIER_LIMIT = 1
    COUNT = 2
    WAIT_LIMIT = 2
    BarrierClients = {0, 1}
SPECIFICATION BSpec
INVARIANT BarrierHolds
