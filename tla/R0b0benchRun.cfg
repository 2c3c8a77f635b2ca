\* Three lanes; and two installers of three assets, two of them scripts of one
\* directory.
SPECIFICATION MCSpec
CONSTANTS
    N = 3
    Bfcl = TRUE
    MaxCancels = 2
    Installers = {i1, i2}
    Last = 3
INVARIANTS
    OneResult
    ResultTellsTheTruth
    ChildGone
PROPERTIES
    CancelledRunEnds
    InstallsAreWhole
