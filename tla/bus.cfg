CONSTANTS
    Devices = {d1}
    StepSizes = {1, 2}
    MaxTick = 2
    MaxConn = 2
    MaxRequests = 3
SPECIFICATION LiveSpec
INVARIANTS
    NoSplitPause
    AnswersAreOfThisTick
PROPERTIES
    ReconnectionSurvives
    TickEnds
    StepEnds
CHECK_DEADLOCK FALSE
