CONSTANTS
    NumProt = 1
    TripDelay <- MCOneScan
    ResetDelay <- MCOneScan
    Kind = "turbine"
    SelfHold = TRUE
    LabMode = TRUE
    CommPolicy = "LOCAL_AUTO"
    SelfStartDelay = 2
    SelfRestartDelay = 2
    WatchdogTimeout = 0
    CommHold = 0
    Writes <- HoldWrites
    Inputs <- HoldInputs
    MaxPending = 2
SPECIFICATION Spec
PROPERTIES
    StopHoldsUntilStart
