\* Two reservations: one is held or cancelled, and another takes the traffic
\* after it, also while the first worker is left stranded.  One benchmark in
\* the dashboard, with a message that waits and a dialog above a dialog.
SPECIFICATION MCSpec
CONSTANTS
    Models <- MCModels
    NoModel = NoModel
    Default <- MCDefault
    MaxReservations = 2
    Configs = {"file", "large"}
    Invalid = "invalid"
    Configured = "file"
    Builtin = "large"
    Large = {"large"}
    MaxPosted = 1
    MaxDialogs = 2
    MaxTouched = 1
INVARIANTS
    TrafficIsOwned
    SelectionIsSound
    ExactlyOneResult
    WorkersOwnReservations
PROPERTIES
    PollingResumes
    SelectionKept
    CancelledWorkEnds
    ImplementsOwnership
    RunsAreSeen
