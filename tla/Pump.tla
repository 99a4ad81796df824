---------------------------------- MODULE Pump ----------------------------------
(***************************************************************************)
(* devices/pump_base.py with its two programs, the condensate pump and the *)
(* feedwater pump: what speed a pump asks for, what overrules it and how   *)
(* it stops.  Speed is counted in steps.  Of the regulators the one that   *)
(* gives the demand is kept (the level regulator of the condensate pump,   *)
(* the flow regulator of the feedwater pump, whose level regulator only    *)
(* moves a set point); the hydraulics, the motor and cavitation are not    *)
(* modelled, a trip they cause is an input.                                *)
(***************************************************************************)
EXTENDS ScanFrame

CONSTANTS
    Feedwater,            \* which of the two programs
    FullSpeed, MinSpeed,  \* 100 %, min_speed
    SpeedUp, SpeedDown,   \* speed_rate, and twice speed_rate, per scan
    DemandRate            \* the rate of the regulator, per scan

ASSUME PumpAssumption ==
    /\ Feedwater \in BOOLEAN
    /\ FullSpeed \in Nat /\ MinSpeed \in 1 .. FullSpeed
    /\ {SpeedUp, SpeedDown, DemandRate} \subseteq Nat \ {0}

VARIABLE pump

Speeds == 0 .. FullSpeed

PumpState ==
    [phase  : Phases,
     speed  : Speeds,
     demand : Speeds,      \* the output of the regulator that gives the demand
     halted : Speeds]      \* history: scans in a row with a reason to stand, to FullSpeed

PumpInputs ==
    [command   : ScanCommands,
     auto      : BOOLEAN,                 \* auto_mode
     wish      : Speeds,                  \* MANUAL_OUTPUT, or where the regulator wants to go
     lowest    : {0, FullSpeed},          \* OUTPUT_LOW_LIMIT
     highest   : {0, FullSpeed},          \* OUTPUT_HIGH_LIMIT
     lift      : {0, FullSpeed},          \* the speed that lifts the head at the outlet
     inhibited : BOOLEAN,                 \* flow_inhibited: the boiler forbids feeding
     safe      : BOOLEAN,                 \* FORCE_SAFE or an emergency stop
     derate    : {0, 1, 2},               \* halves of pump_derate; 0 also for pump_trip
     trips     : BOOLEAN]                 \* a protection trips after step()

NewPump == [phase |-> "OFF", speed |-> 0, demand |-> 0, halted |-> 0]

(* step_pump holds the level regulator; that is the one that gives the     *)
(* demand of the condensate pump only.  A trip holds both.                 *)
HoldLevel(p)   == IF Feedwater THEN p ELSE [p EXCEPT !.demand = 0]
PumpOnTrip(p)  == [p EXCEPT !.demand = 0]
PumpOnStart(p) == [p EXCEPT !.phase = OnStart("pump", @)]
PumpOnStop(p)  == [p EXCEPT !.phase = OnStop("pump", @)]

(* local_speed_demand: by hand the regulator follows what is asked.        *)
LocalSpeedDemand(p, in) ==
    [p EXCEPT !.demand = IF in.auto THEN Toward(@, in.wish, DemandRate, DemandRate) ELSE in.wish]

\* The feedwater pump alone is ever inhibited.
Inhibited(in) == Feedwater /\ in.inhibited

Stands(p, in) == in.safe \/ p.phase \notin {"STARTING", "RUNNING"} \/ Inhibited(in)

Greatest(a, b) == IF a > b THEN a ELSE b

Floored(demand, in) ==
    Greatest(Clamp(demand, in.lowest, in.highest), Greatest(MinSpeed, in.lift))

\* Mutant: the floors are applied after the inhibition.
TargetFloored(p, in) ==
    IF in.safe \/ p.phase \notin {"STARTING", "RUNNING"} THEN 0
    ELSE Floored(IF Inhibited(in) THEN 0 ELSE p.demand, in)

(* The speed command before the faults: 0 with a reason to stand, else the *)
(* demand within the limits, but not below what the pump needs to deliver. *)
Target(p, in) == IF Stands(p, in) THEN 0 ELSE Floored(p.demand, in)

(* step_pump                                                               *)
StepPump(p, in) ==
    LET p1 == IF Stands(p, in) THEN HoldLevel(p) ELSE LocalSpeedDemand(p, in)
        speed == Toward(p.speed, (Target(p1, in) * in.derate) \div 2, SpeedUp, SpeedDown)
    IN  [p1 EXCEPT
            !.speed = speed,
            !.phase = CASE @ = "STARTING" /\ speed >= MinSpeed -> "RUNNING"
                        [] @ = "STOPPING" /\ speed = 0         -> "OFF"
                        [] OTHER                               -> @,
            !.halted = IF Stands(p, in) THEN Toward(@, FullSpeed, 1, 0) ELSE 0]

(* _apply_commands and _self_hold_step: what they call of the program; a   *)
(* trip forces the state first.                                            *)
PumpTripped(p) == PumpOnTrip([p EXCEPT !.phase = "TRIPPED"])

PumpCommanded(p, command) ==
    CASE Starts(p.phase, command) -> PumpOnStart(p)
      [] Stops(p.phase, command)  -> PumpOnStop(p)
      [] Resets(p.phase, command) -> [p EXCEPT !.phase = "OFF"]
      [] command = "TRIP"         -> PumpTripped(p)
      [] OTHER                    -> p

(* The protections come last, on what step() has computed.                 *)
PumpScan(in) ==
    LET p1 == StepPump(PumpCommanded(pump, in.command), in)
    IN  pump' = IF in.trips THEN PumpTripped(p1) ELSE p1

PumpInit == pump = NewPump
PumpNext == \E in \in PumpInputs : PumpScan(in)
PumpSpec == PumpInit /\ [][PumpNext]_pump

-----------------------------------------------------------------------------
PumpTypeOK == pump \in PumpState

(***************************************************************************)
(* A pump that has a reason to stand really runs down, whatever minimum    *)
(* speed, head, low limit or manual output asks of it meanwhile and        *)
(* however it is started and stopped: after n scans it has lost n times    *)
(* the rate, so water to a boiler that forbids it ends in bounded time.    *)
(***************************************************************************)
RunsDown == pump.speed + SpeedDown * pump.halted =< FullSpeed \/ pump.speed = 0
===============================================================================
