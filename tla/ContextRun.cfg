SPECIFICATION FairSpec
CONSTANTS
    Start = 2
    Maximum = 14
    Resolution = 2
    Targets <- MCTargets
    Warmups = 2
    Repeats = 2
INVARIANTS
    ResultTellsTheTruth
    EvidenceDecides
    ProbeSound
    AttemptsKept
PROPERTIES
    RunEnds
    StepsRunOut
