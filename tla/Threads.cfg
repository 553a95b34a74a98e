\* Main and up to four workers, created by main.
CONSTANTS
    MAX_THREADS = 5
    CREATE_LIMIT = 4
    Creators = {0}
SPECIFICATION FairSpec
INVARIANTS
    CoreInv
    NobodyCutShort
PROPERTIES
    ExitIsFinal
    RoundRobin
