SPECIFICATION FairSpec
CONSTANTS
    Warmups = 1
    Measured = 2
    Usage <- MCUsage
    MaxFaults = 1
    MaxRestarts = 1
    MaxTraffic = 2
INVARIANTS
    RunTellsTheTruth
    TelemetryIsOfItsWindow
PROPERTIES
    CancellationHolds
    CancelledRunEnds
