SPECIFICATION Spec
CONSTANTS
    N = 2
    Bfcl = FALSE
    MaxCancels = 1
INVARIANTS
    AlwaysAResult
