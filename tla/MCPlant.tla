------------------------------- MODULE MCPlant --------------------------------
(***************************************************************************)
(* An instance of ModbusAccess for TLC, two controllers and a safety PLC   *)
(* that is not one of them; of the external PLC at the other end of such   *)
(* connections; and of the start of the plant that both serve.  They share *)
(* no variable, so they are checked side by side: `unit' says which of     *)
(* them moves, and the others keep their initial state.                    *)
(***************************************************************************)
EXTENDS ModbusAccess, ExternalPLC, PlantStart

Req(values, keep, fits) == [values |-> values, keep |-> keep, readFits |-> fits]

MCLegal ==
    [a \in Addresses |-> IF a = "SETPOINT" THEN {{}, {0}, {1}} ELSE Word]

MCDefaults == [a \in Addresses |-> {}]

MCSnapshots == {[MCDefaults EXCEPT !["EMERGENCY_STOP"] = {0}, !["SETPOINT"] = {0}]}

MCFallbacks == {<<>>, "MANUAL_OUTPUT" :> {0}}

MCRequests ==
    {Req("START" :> {0} @@ "EMERGENCY_STOP" :> {0}, {}, TRUE),
     Req("EMERGENCY_STOP" :> {0}, {}, TRUE),
     Req("SETPOINT" :> {0, 1} @@ "MANUAL_OUTPUT" :> {}, {}, TRUE),
     Req("SETPOINT" :> {1}, {0}, TRUE),
     Req("SETPOINT" :> {} @@ "MANUAL_OUTPUT" :> {1}, {}, TRUE),
     Req("MANUAL_OUTPUT" :> {}, {}, FALSE),
     Req("RESERVED" :> {0}, {}, TRUE)}

MCOrder  == <<"turbine">>
MCMatrix == "turbine" :> <<"generator", "steam_valve">>

VARIABLE unit

vars == <<unit, accessVars, plcVars, plant>>

MCInit == unit \in {"access", "plc", "start"} /\ Init /\ PlcInit /\ PlantInit

MCNext ==
    /\ \/ unit = "access" /\ Next      /\ UNCHANGED <<plcVars, plant>>
       \/ unit = "plc"    /\ PlcNext   /\ UNCHANGED <<accessVars, plant>>
       \/ unit = "start"  /\ PlantNext /\ UNCHANGED <<accessVars, plcVars>>
    /\ UNCHANGED unit

\* PlcFairness and PlantFairness, each for the runs of its own unit.
Fairness ==
    /\ \A s \in Sources : /\ WF_plcVars(unit = "plc" /\ PollInputs(s))
                          /\ SF_plcVars(unit = "plc" /\ PollDiscretes(s, TRUE))
    /\ WF_plcVars(unit = "plc" /\ (StartLogic \/ LookAt \/ \E answer \in Answers : Command(answer)))
    /\ \A u \in Units : /\ WF_plant(unit = "start" /\ ScanOf(u))
                        /\ WF_plant(unit = "start" /\ Reset(u))
    /\ SF_plant(unit = "start" /\ Evacuate) /\ SF_plant(unit = "start" /\ FillTank)
    /\ SF_plant(unit = "start" /\ FillDrum) /\ SF_plant(unit = "start" /\ Pressurise)
    /\ SF_plant(unit = "start" /\ Turn)

MCSpec == MCInit /\ [][MCNext]_vars /\ Fairness

-----------------------------------------------------------------------------
(***************************************************************************)
(* ComesUp, of the unit that is about the start: from cold and after every *)
(* trip the self-starting devices bring the plant to the grid again.       *)
(***************************************************************************)
PlantComesUp == unit = "start" => ComesUp
===============================================================================
