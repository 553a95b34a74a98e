CONSTANTS
    MAX_THREADS = 3
    CREATE_LIMIT = 2
    Creators = {0}
SPECIFICATION FairSpec
PROPERTY AllExitedTerminates
