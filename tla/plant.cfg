CONSTANTS
    Clients = {"plc", "hmi", "safety"}
    WriteAllowlist = {"plc", "hmi"}
    SafetyAllowlist = {"safety"}
    SingleWriter = TRUE
    LeaseTime = 2
    Coils = {"START", "EMERGENCY_STOP"}
    Holdings = {"SETPOINT", "MANUAL_OUTPUT", "RESERVED"}
    Writable = {"START", "EMERGENCY_STOP", "SETPOINT", "MANUAL_OUTPUT"}
    SafetyCoils = {"EMERGENCY_STOP"}
    Pulses = {"START"}
    Bits = {0, 1}
    Legal <- MCLegal
    Defaults <- MCDefaults
    Fallbacks <- MCFallbacks
    Snapshots <- MCSnapshots
    Requests <- MCRequests
    QueueLimit = 2
    MaxTime = 3
    Order <- MCOrder
    Matrix <- MCMatrix
    MaxTrips = 1
SPECIFICATION MCSpec
INVARIANTS
    OneWriter
    BusyJustified
    OutsidersReachSafetyOnly
PROPERTIES
    ImplementsBank
    TripReachesTargets
    PlantComesUp
