CONSTANTS
    NumProt = 1
    TripDelay <- MCOneScan
    ResetDelay <- MCOneScan
    Kind = "pump"
    SelfHold = TRUE
    LabMode = TRUE
    CommPolicy = "TRIP"
    SelfStartDelay = 2
    SelfRestartDelay = 1
    WatchdogTimeout = 2
    CommHold = 2
    Writes <- CommWrites
    Inputs <- TripInputs
    MaxPending = 1
SPECIFICATION LiveSpec
INVARIANTS
    CommLossHoldsTrip
PROPERTIES
    LostWatchdogTrips
    SelfStarts
