SPECIFICATION Spec
CONSTANTS
    Start = 2
    Maximum = 14
    Resolution = 2
    Targets <- MCTargets
    Warmups = 2
    Repeats = 2
INVARIANTS
    TimeoutStops
