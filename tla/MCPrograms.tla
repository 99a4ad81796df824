------------------------------- MODULE MCPrograms -------------------------------
(***************************************************************************)
(* Instances for TLC of the programs of the devices, of what they are made *)
(* of and of the ways to them.  No two of these units share a variable, so *)
(* they are checked side by side: `unit' says which of them moves, and the *)
(* others keep their initial state.                                        *)
(***************************************************************************)
EXTENDS Generator, Boiler, Regulator, SteamValve, Pump, Gateway,
        ResetLink, Signals, Faults, Alarms, Supervision

MCErrors == {-1, 0, 1, 2}
MCBiases == {-1, 0, 1}

VARIABLE unit

vars == <<unit, gen, boiler, regulatorVars, valve, pump, gw, resetVars,
          signalVars, device, alarmVars, watch>>

Init ==
    /\ unit \in {"generator", "boiler", "regulator", "valve", "pump", "gateway",
                "reset", "signals", "faults", "alarms", "watchdog"}
    /\ GeneratorInit /\ BoilerInit /\ RegulatorInit /\ ValveInit /\ PumpInit
    /\ ResetLinkInit /\ SignalsInit /\ FaultsInit /\ AlarmsInit
    /\ SupervisionInit
    /\ IF unit = "gateway" THEN GatewayInit
       ELSE gw = NewGateway([group \in Groups |-> 0])

Next ==
    /\ \/ /\ unit = "generator" /\ GeneratorNext
          /\ UNCHANGED <<boiler, regulatorVars, valve, pump, gw, resetVars, signalVars, device, alarmVars, watch>>
       \/ /\ unit = "boiler" /\ BoilerNext
          /\ UNCHANGED <<gen, regulatorVars, valve, pump, gw, resetVars, signalVars, device, alarmVars, watch>>
       \/ /\ unit = "regulator" /\ RegulatorNext
          /\ UNCHANGED <<gen, boiler, valve, pump, gw, resetVars, signalVars, device, alarmVars, watch>>
       \/ /\ unit = "valve" /\ ValveNext
          /\ UNCHANGED <<gen, boiler, regulatorVars, pump, gw, resetVars, signalVars, device, alarmVars, watch>>
       \/ /\ unit = "pump" /\ PumpNext
          /\ UNCHANGED <<gen, boiler, regulatorVars, valve, gw, resetVars, signalVars, device, alarmVars, watch>>
       \/ /\ unit = "gateway" /\ GatewayNext
          /\ UNCHANGED <<gen, boiler, regulatorVars, valve, pump, resetVars, signalVars, device, alarmVars, watch>>
       \/ /\ unit = "reset" /\ ResetLinkNext
          /\ UNCHANGED <<gen, boiler, regulatorVars, valve, pump, gw, signalVars, device, alarmVars, watch>>
       \/ /\ unit = "signals" /\ SignalsNext
          /\ UNCHANGED <<gen, boiler, regulatorVars, valve, pump, gw, resetVars, device, alarmVars, watch>>
       \/ /\ unit = "faults" /\ FaultsNext
          /\ UNCHANGED <<gen, boiler, regulatorVars, valve, pump, gw, resetVars, signalVars, alarmVars, watch>>
       \/ /\ unit = "alarms" /\ AlarmsNext
          /\ UNCHANGED <<gen, boiler, regulatorVars, valve, pump, gw, resetVars, signalVars, device, watch>>
       \/ /\ unit = "watchdog" /\ SupervisionNext
          /\ UNCHANGED <<gen, boiler, regulatorVars, valve, pump, gw, resetVars, signalVars, device, alarmVars>>
    /\ UNCHANGED unit

Spec == Init /\ [][Next]_vars

(***************************************************************************)
(* The state of every unit keeps its type: no counter, timer, output or    *)
(* integral of theirs leaves the range that the code limits it to.         *)
(***************************************************************************)
TypeOK ==
    /\ GeneratorTypeOK /\ BoilerTypeOK /\ RegulatorTypeOK /\ ValveTypeOK /\ PumpTypeOK
    /\ GatewayTypeOK /\ ResetLinkTypeOK /\ SignalsTypeOK /\ FaultsTypeOK /\ AlarmsTypeOK
    /\ SupervisionTypeOK
===============================================================================
