SPECIFICATION MCSpec
CONSTANTS
    p1 = p1
    p2 = p2
    r1 = r1
    r2 = r2
    Procs = {p1, p2}
    Results = {r1, r2}
    Stamp <- MCStamp
    MaxTag = 3
    NoEntry = NoEntry
    Archived <- MCArchived
    Kind <- MCKind
    Session = {1}
    NoDetail = 0
    MaxSent = 2
INVARIANTS
    WinnerIsEquivalent
