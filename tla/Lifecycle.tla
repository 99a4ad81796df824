------------------------------ MODULE Lifecycle ------------------------------
(***************************************************************************)
(* The state machine every device owns (common/device/state_machine.py)    *)
(* and the places where the eight device programs drive it: the target of  *)
(* on_start, the target of on_stop, and the transitions their physics step *)
(* asks for.  DeviceState.MAINTENANCE and SAFE_HOLD are declared by the    *)
(* program but no code ever enters them, so they are not phases here.      *)
(***************************************************************************)

DeviceKinds == {"pump", "condenser", "turbine", "steam_valve",
                "generator", "boiler", "feedwater_tank"}

Starting == {"STARTING", "PURGING", "IGNITING", "PRESSURIZING"}
Phases   == Starting \cup {"OFF", "RUNNING", "STOPPING", "TRIPPED"}
Active   == Starting \cup {"RUNNING"}

(***************************************************************************)
(* The transition table consulted by StateMachine.to.                      *)
(***************************************************************************)
DefaultTransitions ==
    [s \in Phases |->
        CASE s = "OFF"      -> {"STARTING", "RUNNING", "TRIPPED"}
          [] s = "STARTING" -> {"RUNNING", "STOPPING", "TRIPPED", "OFF"}
          [] s = "RUNNING"  -> {"STOPPING", "TRIPPED", "OFF"}
          [] s = "STOPPING" -> {"OFF", "TRIPPED"}
          [] s = "TRIPPED"  -> {"OFF"}
          [] OTHER          -> {}]

BoilerTransitions ==
    [DefaultTransitions EXCEPT
        !["OFF"]          = {"PURGING", "TRIPPED"},
        !["PURGING"]      = {"IGNITING", "STOPPING", "TRIPPED", "OFF"},
        !["IGNITING"]     = {"PRESSURIZING", "STOPPING", "TRIPPED", "OFF"},
        !["PRESSURIZING"] = {"RUNNING", "STOPPING", "TRIPPED", "OFF"},
        !["RUNNING"]      = {"STOPPING", "TRIPPED", "OFF", "PRESSURIZING"}]

Transitions(kind) ==
    IF kind = "boiler" THEN BoilerTransitions ELSE DefaultTransitions

(***************************************************************************)
(* StateMachine.to: a transition outside the table is refused and changes  *)
(* nothing.  StateMachine.force is plain assignment and needs no operator. *)
(***************************************************************************)
To(kind, s, target) ==
    IF target \in Transitions(kind)[s] THEN target ELSE s

(***************************************************************************)
(* on_start and on_stop.  The feedwater tank overrides neither, so both    *)
(* leave it where it is; configure() puts it in RUNNING at construction.   *)
(***************************************************************************)
OnStart(kind, s) ==
    CASE kind = "boiler"                     -> To(kind, s, "PURGING")
      [] kind \in {"steam_valve", "generator"} -> To(kind, s, "RUNNING")
      [] kind = "feedwater_tank"             -> s
      [] OTHER                               -> To(kind, s, "STARTING")

OnStop(kind, s) ==
    CASE kind = "generator"      -> To(kind, s, "OFF")
      [] kind = "feedwater_tank" -> s
      [] OTHER                   -> To(kind, s, "STOPPING")

InitialPhase(kind) == IF kind = "feedwater_tank" THEN "RUNNING" ELSE "OFF"

HasStartStop(kind) == kind # "feedwater_tank"

(***************************************************************************)
(* The transition the physics of a device may ask for in phase s: at       *)
(* speed, vacuum established, purge complete, flame established, minimum   *)
(* pressure, stopped, steam admitted.  Whether the process has got there   *)
(* is an input of the scan.                                                *)
(***************************************************************************)
PhysicsTarget(kind, s) ==
    CASE s = "STARTING" /\ kind \in {"pump", "condenser", "turbine"} -> "RUNNING"
      [] s = "OFF"      /\ kind = "turbine"                          -> "STARTING"
      [] s = "STOPPING" /\ kind \notin {"generator", "feedwater_tank"} -> "OFF"
      [] s = "PURGING"      /\ kind = "boiler"                       -> "IGNITING"
      [] s = "IGNITING"     /\ kind = "boiler"                       -> "PRESSURIZING"
      [] s = "PRESSURIZING" /\ kind = "boiler"                       -> "RUNNING"
      [] OTHER                                                       -> s

PhysicsStep(kind, s, moved) ==
    IF moved THEN To(kind, s, PhysicsTarget(kind, s)) ELSE s
==============================================================================
