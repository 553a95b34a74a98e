\* The empty line, and a line that ends in a bar.
SPECIFICATION Spec
CONSTANTS
    MAX_PROC = 4
    MAX_FD = 8
    CAP = 2
    OUTPUT = 2
    Lines <- AllLines
    NestedLines <- SomeLines
    Noise <- NoiseLines
    Producers <- PWord
    Copiers <- CWord
    Unopenable <- XWord
PROPERTY LinesSurvived
CHECK_DEADLOCK FALSE
