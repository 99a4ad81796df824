CONSTANTS
    AutoSync = TRUE
    LongLoss = TRUE
    PurgeScans = 3
    IgnitionScans = 2
    FlameDelay = 3
    MinFire = 1
    StartupFire = 2
    FullFire = 4
    Kp = 2
    Ki = 1
    OutMin = 0
    OutMax = 4
    RateUp = 1
    RateDown = 2
    IntegralLimit = 4
    Errors <- MCErrors
    Biases <- MCBiases
    Limits = {2, 4}
    Wide = 4
    StartupOpen = 1
    GovernorUp = 1
    GovernorDown = 2
    OpenRate = 1
    CloseRate = 2
    CloseDelay = 3
    Feedwater = TRUE
    FullSpeed = 4
    MinSpeed = 1
    SpeedUp = 1
    SpeedDown = 2
    DemandRate = 2
    Retries = 1
    MaxConnections = 2
    MaxResets = 2
    MaxTrips = 3
    PulseScans = 6
    Period = 4
    MaxPulses = 2
    BadAge = 2
    MaxRound = 3
    MaxLate = 2
    Devices = {a, b}
    LabDevices = {a}
    Protecting = {a}
    Showing = {a, b}
    Publishing = {a, b}
    Processes = {"process"}
    Stranger = z
    SavedValue = 1
    SavedFaults = {"sensor", "comm"}
    Turn = 12
    StaleTicks = 3
    Lag = 2
SPECIFICATION Spec
INVARIANTS
    TypeOK
    SafeMeansOpen
    PurgeBeforeFire
    RunsDown
    PulseReaches
    OneReadingPerScan
    OneReleasePerRequest
    GoodIsFresh
    LostTellsSilence
    OccurrencesStay
PROPERTIES
    NoAutomaticReclose
    Bumpless
    NoJumpOpen
CHECK_DEADLOCK FALSE
