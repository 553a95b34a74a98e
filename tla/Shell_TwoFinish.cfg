\* A first command that writes more than the pipe holds.
SPECIFICATION FairSpec
CONSTANTS
    MAX_PROC = 3
    MAX_FD = 8
    CAP = 2
    OUTPUT = 3
    Lines <- FewLines
    NestedLines <- SomeLines
    Noise <- NoiseLines
    Producers <- PWord
    Copiers <- CWord
    Unopenable <- XWord
PROPERTY TwoFinish
CHECK_DEADLOCK FALSE
