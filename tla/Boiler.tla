--------------------------------- MODULE Boiler ---------------------------------
(***************************************************************************)
(* devices/boiler/main.py: the firing sequence, the flame and the burner.  *)
(* The burner's output is counted in steps (one step up or two down a      *)
(* scan, MinFire lit at the least); pressure and drum level are inputs,    *)
(* seen through the comparisons the program makes with them.               *)
(***************************************************************************)
EXTENDS ScanFrame

CONSTANTS
    PurgeScans, IgnitionScans,   \* purge_time, ignition_time
    FlameDelay,                  \* the delay of the protection FLAME_FAILURE
    MinFire, StartupFire, FullFire   \* min_fire, startup_burner_max, full output

ASSUME BoilerAssumption ==
    /\ PurgeScans \in Nat \ {0} /\ IgnitionScans \in Nat \ {0} /\ FlameDelay \in Nat \ {0}
    /\ MinFire \in Nat \ {0} /\ StartupFire \in MinFire .. FullFire /\ FullFire \in Nat

VARIABLE boiler

BoilerState ==
    [phase     : Phases,
     purge     : 0 .. PurgeScans,      \* purge_timer
     ignition  : 0 .. IgnitionScans,   \* ignition_timer
     flame     : 0 .. 2,
     burner    : 0 .. FullFire,        \* burner_output
     rampDone  : BOOLEAN,              \* pressure_ramp_done
     unlit     : 0 .. FlameDelay,      \* scans flame_fail_flag has been set
     purged    : 0 .. PurgeScans]      \* history: scans of purging since the last start

BoilerInputs ==
    [command  : ScanCommands,
     safe     : BOOLEAN,               \* FORCE_SAFE
     capped   : BOOLEAN,               \* auto_mode, OUTPUT_LOW_LIMIT not above the cap
     demand   : MinFire .. FullFire,   \* what the regulator or the operator asks for
     steaming : BOOLEAN,               \* what ends the limit of the start-up
     ready    : BOOLEAN,               \* pressure is at min_turbine_pressure
     runback  : BOOLEAN,               \* pressure is at runback_pressure
     noFlame  : BOOLEAN,               \* fault burner_flame_loss
     trips    : BOOLEAN]               \* another protection trips

Firing == {"IGNITING", "PRESSURIZING", "RUNNING"}

NewBoiler ==
    [phase |-> "OFF", purge |-> 0, ignition |-> 0, flame |-> 0, burner |-> 0,
     rampDone |-> FALSE, unlit |-> 0, purged |-> 0]

\* Mutant: the purge timer is not set again.
StartWithoutPurge(b) == [b EXCEPT !.phase = OnStart("boiler", @), !.purged = 0]

(* on_start; it sets the timer even when the transition is refused.        *)
BoilerOnStart(b) ==
    LET phase == OnStart("boiler", b.phase)
    IN  [b EXCEPT !.phase = phase, !.purge = PurgeScans,
                  !.purged = IF phase = b.phase THEN @ ELSE 0]

BoilerOnStop(b)  == [b EXCEPT !.phase = OnStop("boiler", @)]
BoilerOnReset(b) == [b EXCEPT !.rampDone = FALSE]
BoilerOnTrip(b)  == [b EXCEPT !.burner = 0, !.flame = 0]

(* The sequence at the head of step().                                     *)
Sequence(b, in) ==
    CASE b.phase = "PURGING" ->
            LET left == b.purge - 1
            IN  [b EXCEPT !.purge = IF left > 0 THEN left ELSE 0,
                          !.purged = Toward(@, PurgeScans, 1, 0),
                          !.ignition = IF left <= 0 THEN IgnitionScans ELSE @,
                          !.phase = IF left <= 0 THEN "IGNITING" ELSE @]
      [] b.phase = "IGNITING" ->
            LET left == b.ignition - 1
            IN  [b EXCEPT !.ignition = IF left > 0 THEN left ELSE 0,
                          !.flame = IF left <= 0 THEN 2 ELSE 1,
                          !.phase = IF left <= 0 THEN "PRESSURIZING" ELSE @]
      [] b.phase = "PRESSURIZING" /\ in.ready    -> [b EXCEPT !.phase = "RUNNING"]
      [] b.phase = "STOPPING" /\ b.burner = 0    -> [b EXCEPT !.phase = "OFF", !.flame = 0]
      [] OTHER -> b

(* The demand of the regulator is limited during the start-up; what the    *)
(* operator asks for by hand is not, and OUTPUT_LOW_LIMIT comes after it.  *)
Demand(b, in, firing) ==
    IF b.phase = "TRIPPED" \/ in.safe \/ ~firing \/ in.runback THEN 0
    ELSE IF in.capped /\ ~b.rampDone /\ in.demand > StartupFire THEN StartupFire
    ELSE in.demand

(* The burner follows its target; firing without a flame is cut at once.   *)
Burner(b, target, fast, firing) ==
    [b EXCEPT !.burner = IF firing /\ b.flame = 0 THEN 0
                         ELSE Toward(@, target, 1, IF fast THEN FullFire ELSE 2)]

(* The state the rest of step() goes by is the one at its head.            *)
BoilerStep(b, in) ==
    LET firing == b.phase \in Firing
        b1 == Sequence(b, in)
        b2 == [b1 EXCEPT !.rampDone = @ \/ (firing /\ ~in.safe /\ in.steaming)]
        demand == Demand(b2, in, firing)
        b3 == IF in.noFlame THEN [b2 EXCEPT !.flame = 0] ELSE b2
        b4 == Burner(b3, IF in.noFlame THEN 0 ELSE demand, in.runback, firing)
        unlit == firing /\ demand > 0 /\ b4.flame = 0
    IN  [b4 EXCEPT !.unlit =
            IF unlit /\ b4.phase \notin {"OFF", "PURGING", "TRIPPED"}
            THEN Toward(@, FlameDelay, 1, 0) ELSE 0]

(* _apply_commands and _self_hold_step: what they call of the program; a   *)
(* trip forces the state first.  A RESET_TRIP with nothing to reset calls  *)
(* on_reset all the same.                                                  *)
BoilerTripped(b) == BoilerOnTrip([b EXCEPT !.phase = "TRIPPED"])

BoilerCommanded(b, command) ==
    CASE Starts(b.phase, command) -> BoilerOnStart(b)
      [] Stops(b.phase, command)  -> BoilerOnStop(b)
      [] Resets(b.phase, command) -> BoilerOnReset([b EXCEPT !.phase = "OFF"])
      [] command = "RESET" /\ b.phase # "TRIPPED" -> BoilerOnReset(b)
      [] command = "TRIP"         -> BoilerTripped(b)
      [] OTHER                    -> b

(* The protections come last, on what step() has computed.                 *)
BoilerScan(in) ==
    LET b1 == BoilerCommanded(boiler, in.command)
        b2 == BoilerStep(b1, in)
    IN  boiler' = IF in.trips \/ b2.unlit = FlameDelay THEN BoilerTripped(b2) ELSE b2

BoilerInit == boiler = NewBoiler
BoilerNext == \E in \in BoilerInputs : BoilerScan(in)
BoilerSpec == BoilerInit /\ [][BoilerNext]_boiler

-----------------------------------------------------------------------------
BoilerTypeOK == boiler \in BoilerState

(***************************************************************************)
(* Nothing is lit in a furnace that was not purged in full since the last  *)
(* start, whichever stops, trips, resets and restarts came in between.     *)
(***************************************************************************)
PurgeBeforeFire ==
    boiler.flame > 0 \/ boiler.burner > 0 \/ boiler.phase \in Firing
        => boiler.purged = PurgeScans
===============================================================================
