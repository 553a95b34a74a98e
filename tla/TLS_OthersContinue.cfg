\* A thread whose own call was refused, and which then touches another's page.
SPECIFICATION FairSpec
CONSTANTS
    Threads = {a, b}
    NoThread = none
    Zero = 0
    PAGE_SIZE = 2
    MAX_THREADS = 9
    Sizes = {3}
    Offsets = {1}
    ReadLengths = {2}
    WriteLengths = {2}
    Creators = {a}
    Cloners = {}
    Strangers = {b}
    CALL_LIMIT = 2
    Apart = {"tables", "pages"}
PROPERTY OthersContinue
CHECK_DEADLOCK FALSE
