CONSTANTS
    Devices = {d1}
    Frail = {d1}
    Names = {"one"}
    NoName = "none"
    StepSizes = {1}
    MaxTick = 2
    MaxRequests = 1
    MaxJobs = 2
    MaxLeaves = 1
SPECIFICATION LiveSpec
INVARIANTS
    WholeSlice
    LockStep
PROPERTIES
    NoTickRewound
    RunsFreelyOnlyWhenAsked
    JobEnds
CHECK_DEADLOCK FALSE
