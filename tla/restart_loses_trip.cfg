CONSTANTS
    NumProt = 1
    TripDelay <- MCNow
    ResetDelay <- MCNow
    Kind = "generator"
    SelfHold = TRUE
    LabMode = FALSE
    CommPolicy = "LOCAL_AUTO"
    SelfStartDelay = 1
    SelfRestartDelay = 1
    WatchdogTimeout = 0
    CommHold = 0
    Writes <- MCWrites
    Inputs <- MCInputs
    MaxPending = 1
SPECIFICATION DurableSpec
PROPERTIES
    RestartKeepsTrip
