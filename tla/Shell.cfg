\* The system stops when the shell ends, and with three commands (README).
SPECIFICATION FairSpec
CONSTANTS
    MAX_PROC = 4
    MAX_FD = 8
    CAP = 2
    OUTPUT = 2
    Lines <- AllLines
    NestedLines <- SomeLines
    Noise <- NoiseLines
    Producers <- PWord
    Copiers <- CWord
    Unopenable <- XWord
INVARIANTS
    ShTypeOK
    OneReader
    PipesConnected
    NothingLeftOpen
PROPERTIES
    LinesUnderstood
    TwoFinish
CHECK_DEADLOCK FALSE
