CONSTANTS
    NumProt = 1
    TripDelay <- MCTripDelay
    ResetDelay <- MCResetDelay
    Kind = "pump"
    SelfHold = TRUE
    LabMode = TRUE
    CommPolicy = "LOCAL_AUTO"
    SelfStartDelay = 1
    SelfRestartDelay = 1
    WatchdogTimeout = 0
    CommHold = 0
    Writes <- TripWrites
    Inputs <- TripInputs
    MaxPending = 3
SPECIFICATION Spec
INVARIANTS
    LatchConsistent
    EstopHoldsTrip
PROPERTIES
    ReleasedOnlyByReset
