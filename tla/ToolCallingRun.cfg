SPECIFICATION MCSpec
CONSTANTS
    N = 3
    Category <- MCCategory
INVARIANTS
    ResultTellsTheTruth
    NothingLeaks
PROPERTIES
    ProgressIsShown
    NothingHangs
