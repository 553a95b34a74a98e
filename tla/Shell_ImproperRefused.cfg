\* A redirected output in the middle is accepted.
SPECIFICATION Spec
CONSTANTS
    MAX_PROC = 4
    MAX_FD = 8
    CAP = 2
    OUTPUT = 2
    Lines <- AllLines
    NestedLines <- SomeLines
    Noise <- NoiseLines
    Producers <- PWord
    Copiers <- CWord
    Unopenable <- XWord
PROPERTY ImproperRefused
CHECK_DEADLOCK FALSE
