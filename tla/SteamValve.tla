------------------------------- MODULE SteamValve -------------------------------
(***************************************************************************)
(* devices/steam_valve/main.py: the governor, the hand-over between its    *)
(* two regulators, and the actuator with its faults.  Positions, commands  *)
(* and outputs are counted in steps.  A regulator answers any output that  *)
(* Regulator allows it to reach in a scan; the steam flow is left out.     *)
(***************************************************************************)
EXTENDS ScanFrame

CONSTANTS
    Wide,                     \* the valve fully open (100 %)
    StartupOpen,              \* startup_valve_max
    GovernorUp, GovernorDown, \* the rates of the two regulators, per scan
    OpenRate, CloseRate,      \* OPEN_RATE, CLOSE_RATE, per scan
    CloseDelay                \* fail_to_close_delay, in scans

ASSUME SteamValveAssumption ==
    /\ Wide \in Nat \ {0} /\ StartupOpen \in 1 .. Wide
    /\ {GovernorUp, GovernorDown, OpenRate, CloseRate, CloseDelay} \subseteq Nat \ {0}

VARIABLE valve

Openings == 0 .. Wide
ValveFaults == {"none", "STUCK_OPEN", "STUCK_CLOSED", "STUCK_POSITION",
                "FAIL_TO_CLOSE", "ACTUATOR_POWER_LOSS"}

ValveState ==
    [phase    : Phases,
     position : Openings,
     command  : Openings,
     speedOut : Openings,         \* speed_ctl.output
     loadOut  : Openings,         \* load_ctl.output
     onLoad   : BOOLEAN,          \* load_control_active
     unclosed : 0 .. CloseDelay,  \* close_demand_timer
     auto     : BOOLEAN,          \* history: auto_mode in the last scan
     powered  : BOOLEAN]          \* history: no ACTUATOR_POWER_LOSS in the last scan

ValveInputs ==
    [command : ScanCommands,
     auto    : BOOLEAN,           \* auto_mode
     wish    : Openings,          \* MANUAL_OUTPUT, or where the regulator in charge wants to go
     control : {"grid", "run-up", "speed"},   \* on the grid, below 97 % of the set speed, else
     unsafe  : BOOLEAN,           \* turbine or boiler tripped, overspeed, estop, FORCE_SAFE
     yields  : BOOLEAN,           \* link lost under FAIL_CLOSE or FAIL_LOW
     fault   : ValveFaults,
     trips   : BOOLEAN]           \* a protection trips after step()

NewValve ==
    [phase |-> "OFF", position |-> 0, command |-> 0, speedOut |-> 0, loadOut |-> 0,
     onLoad |-> FALSE, unclosed |-> 0, auto |-> TRUE, powered |-> TRUE]

(* Both regulators follow a value that is not theirs (track, hold).        *)
Follow(v, value) == [v EXCEPT !.speedOut = value, !.loadOut = value]

ValveOnStart(v) == [v EXCEPT !.phase = OnStart("steam_valve", @)]
ValveOnStop(v)  == [Follow(v, 0) EXCEPT !.phase = OnStop("steam_valve", @)]
ValveOnTrip(v)  == Follow(v, 0)

(* apply_comm_loss under FAIL_CLOSE and FAIL_LOW; what it writes into      *)
(* MANUAL_OUTPUT is the manual input of this scan and of the next ones.    *)
ValveYields(v) == [Follow(v, 0) EXCEPT !.command = 0]

\* Update of the regulator in charge, from its output to its target.
Governed(output, target, high) ==
    Clamp(Toward(output, target, GovernorUp, GovernorDown), 0, high)

(* On the grid the load regulator leads.  The one that takes over starts   *)
(* from where the valve is, the other follows.                             *)
LoadControl(v, in) ==
    LET from == IF v.onLoad THEN v.loadOut ELSE v.position
    IN  [Follow(v, Governed(from, in.wish, Wide)) EXCEPT !.onLoad = TRUE]

(* Off the grid the speed regulator does, below a limit in the run-up.     *)
SpeedControl(v, in) ==
    LET high == IF in.control = "run-up" THEN StartupOpen ELSE Wide
        from == IF v.onLoad THEN v.position ELSE v.speedOut
    IN  [Follow(v, Governed(from, in.wish, high)) EXCEPT !.onLoad = FALSE]

(* governor(): by hand both regulators follow MANUAL_OUTPUT.  What a       *)
(* regulator answers is the command, which is in `speedOut' and `loadOut'. *)
Governor(v, in) ==
    LET manual == IF in.yields THEN 0 ELSE in.wish
        v1 == IF ~in.auto THEN [Follow(v, manual) EXCEPT !.onLoad = FALSE]
              ELSE IF in.control = "grid" THEN LoadControl(v, in) ELSE SpeedControl(v, in)
    IN  [v1 EXCEPT !.command = v1.speedOut]

\* Mutant: the regulators are not held while the valve is kept shut.
ShutUnheld(v) == [v EXCEPT !.command = 0, !.onLoad = FALSE]

(* A fast close, OFF and STOPPING: command 0 and both regulators held.     *)
Shut(v) == [Follow(v, 0) EXCEPT !.command = 0, !.onLoad = FALSE]

(* The actuator; without power it fails closed, whatever the governor says *)
(* and without telling the regulators.                                     *)
Actuate(v, fault, fast) ==
    LET closing == IF fault = "ACTUATOR_POWER_LOSS" THEN CloseRate
                   ELSE IF fast THEN Wide ELSE CloseRate
        command == IF fault = "ACTUATOR_POWER_LOSS" THEN 0 ELSE v.command
        position ==
            CASE fault = "STUCK_OPEN"     -> Wide
              [] fault = "STUCK_CLOSED"   -> 0
              [] fault = "STUCK_POSITION" -> v.position
              [] fault = "FAIL_TO_CLOSE"  -> Toward(v.position, command, OpenRate, 0)
              [] OTHER -> Toward(v.position, command, OpenRate, closing)
    IN  [v EXCEPT !.command = command, !.position = position,
                  !.unclosed = IF command = 0 /\ position > 0 THEN Toward(@, CloseDelay, 1, 0) ELSE 0]

(* step(); the transition to OFF is its last line.                         *)
ValveStep(v, in) ==
    LET fast == in.unsafe \/ v.phase = "TRIPPED"
        v1 == IF fast \/ v.phase \in {"OFF", "STOPPING"} THEN Shut(v) ELSE Governor(v, in)
        v2 == Actuate(v1, in.fault, fast)
    IN  IF v2.phase = "STOPPING" /\ v2.position = 0 THEN [v2 EXCEPT !.phase = "OFF"] ELSE v2

(* _apply_commands and _self_hold_step: what they call of the program; a   *)
(* trip forces the state first.                                            *)
ValveTripped(v) == ValveOnTrip([v EXCEPT !.phase = "TRIPPED"])

ValveCommanded(v, command) ==
    CASE Starts(v.phase, command) -> ValveOnStart(v)
      [] Stops(v.phase, command)  -> ValveOnStop(v)
      [] Resets(v.phase, command) -> [v EXCEPT !.phase = "OFF"]
      [] command = "TRIP"         -> ValveTripped(v)
      [] OTHER                    -> v

(* A valve that was told to close and is open when CloseDelay has passed   *)
(* trips itself (FAIL_TO_CLOSE).                                           *)
ValveScan(in) ==
    LET v1 == ValveCommanded(valve, in.command)
        v2 == ValveStep(IF in.yields THEN ValveYields(v1) ELSE v1, in)
        v3 == IF in.trips \/ v2.unclosed = CloseDelay THEN ValveTripped(v2) ELSE v2
    IN  valve' = [v3 EXCEPT !.auto = in.auto, !.powered = in.fault # "ACTUATOR_POWER_LOSS"]

ValveInit == valve = NewValve
ValveNext == \E in \in ValveInputs : ValveScan(in)
ValveSpec == ValveInit /\ [][ValveNext]_valve

-----------------------------------------------------------------------------
ValveTypeOK == valve \in ValveState

(***************************************************************************)
(* The command never jumps up while the governor is in charge: at a hand-  *)
(* over between speed and load control, when a trip or a stop is over, or  *)
(* after years at a limit, it rises by one scan's rate from where the      *)
(* command or the valve was, the higher of the two.  It may jump in manual *)
(* and in the scan after, and when the actuator has power again: nobody    *)
(* tells the regulators that the valve closed without them.                *)
(***************************************************************************)
NoJumpOpen ==
    [][ valve.powered /\ valve.auto /\ valve'.auto
            => \/ valve'.command =< valve.command + GovernorUp
               \/ valve'.command =< valve.position + GovernorUp ]_valve
===============================================================================
