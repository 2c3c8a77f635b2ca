SPECIFICATION Spec
CONSTANTS
    Levels <- MCLevels
    Warmups = 0
    Requests = 3
    EarlyStop = 2
    Delays = {TRUE}
PROPERTIES
    SiblingsStop
