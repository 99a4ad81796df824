------------------------------ MODULE PlantStart ------------------------------
(***************************************************************************)
(* The start of the whole plant, and its return after a trip.  No program  *)
(* sequences the eight devices: each starts itself when its permissives,   *)
(* read from the signals of the others, hold (docs/self-holding.md, 4).    *)
(* So the order, and whether there is one, is a property of all of them.   *)
(*                                                                         *)
(* Of a device this module keeps its phase, of the process the zones that  *)
(* permissives and protections compare.  What a device does by itself, in  *)
(* any order of the devices, takes seconds; to leave a zone takes longer,  *)
(* and comes after it.  Operators only reset.  The hotwell, which the      *)
(* makeup valve holds, the blowdown, which needs hours, and what the       *)
(* regulators do within a zone are not modelled; the inside of a scan is   *)
(* the business of Device and of the modules of the programs.              *)
(***************************************************************************)
EXTENDS Naturals, Lifecycle

CONSTANT MaxTrips          \* bound: trips from outside the modelled process

ASSUME PlantAssumption == MaxTrips \in Nat

VARIABLE plant

Units == {"condenser", "condensate_pump", "feedwater_pump", "boiler",
          "steam_valve", "turbine", "generator"}

KindOf(u) == IF u \in {"condensate_pump", "feedwater_pump"} THEN "pump" ELSE u

PlantState ==
    [phase    : [Units -> Phases],
     vacuum   : BOOLEAN,  \* the condenser is at 0.15 bar or less
     tank     : 0 .. 3,   \* below 25 %; below 61 %; between; above 64 %
     drum     : 0 .. 3,   \* below 30 %; below 67.7 %; between; above 70.7 %
     pressure : 0 .. 2,   \* of the boiler: below 10 bar; below 30 bar; above
     open     : BOOLEAN,  \* the main steam valve
     speed    : 0 .. 4,   \* below 100 RPM; 2700; 2940; synchronous; above 3150
     breaker  : BOOLEAN,  \* breaker_closed
     feed     : BOOLEAN,  \* feedwater_permitted
     trips    : 0 .. MaxTrips]

PlantInit ==
    plant = [phase |-> [u \in Units |-> "OFF"], vacuum |-> FALSE, tank |-> 1, drum |-> 1,
             pressure |-> 0, open |-> FALSE, speed |-> 0, breaker |-> FALSE,
             feed |-> TRUE, trips |-> 0]

-----------------------------------------------------------------------------
Tripped(p, u) == p.phase[u] = "TRIPPED"
On(p, u)      == p.phase[u] \in {"STARTING", "RUNNING"}
Steaming(p)   == p.phase["boiler"] \in {"PRESSURIZING", "RUNNING"}
Flows(p)      == p.open /\ p.pressure > 0

Up(n, top) == IF n < top THEN n + 1 ELSE n
Down(n)    == IF n > 0 THEN n - 1 ELSE n

\* Mutant: the feedwater pump is available only while it delivers.
BoilerPermittedWhileFed(p) ==
    p.drum > 0 /\ ~(p.open /\ p.pressure = 2) /\ On(p, "feedwater_pump")

(* start_permissives of each program; that no trip is latched is the phase *)
(* here.  Of the feedwater pump the boiler asks a flow that is not         *)
(* negative, which any flow is; of the valve no more than 5 kg/s, which it *)
(* passes at its cap from 28 bar on.                                       *)
BoilerPermitted(p) == p.drum > 0 /\ ~(p.open /\ p.pressure = 2)

ValvePermitted(p) ==
    p.pressure = 2 /\ p.vacuum /\ ~Tripped(p, "boiler") /\ ~Tripped(p, "turbine")

TurbinePermitted(p)   == p.vacuum /\ p.pressure > 0
GeneratorPermitted(p) == ~Tripped(p, "turbine") /\ p.speed >= 2

Permitted(p, u) ==
    CASE u = "feedwater_pump" -> p.tank > 0
      [] u = "boiler"         -> BoilerPermitted(p)
      [] u = "steam_valve"    -> ValvePermitted(p)
      [] u = "turbine"        -> TurbinePermitted(p)
      [] u = "generator"      -> GeneratorPermitted(p)
      [] OTHER                -> TRUE

(* self_start_ready and self_stop_request: a pump runs when the vessel     *)
(* after it needs water, and stands by when it has enough.                 *)
Needed(p, u) ==
    CASE u = "condensate_pump" -> p.tank < 2
      [] u = "feedwater_pump"  -> p.drum < 2
      [] OTHER                 -> TRUE

Enough(p, u) ==
    CASE u = "condensate_pump" -> p.tank = 3
      [] u = "feedwater_pump"  -> p.drum = 3 \/ ~p.feed
      [] OTHER                 -> FALSE

(* _self_hold_step of a device that no operator has stopped.               *)
SelfHold(p, u) ==
    CASE p.phase[u] = "OFF" /\ Permitted(p, u) /\ Needed(p, u) ->
            [p EXCEPT !.phase[u] = OnStart(KindOf(u), @)]
      [] p.phase[u] \in Active /\ Enough(p, u) -> [p EXCEPT !.phase[u] = OnStop(KindOf(u), @)]
      [] OTHER -> p

-----------------------------------------------------------------------------
(***************************************************************************)
(* step() of each program: the phases that a zone brings, and what moves   *)
(* in seconds, the valve and the breaker.                                  *)
(***************************************************************************)
Reached(p, u) ==
    CASE p.phase[u] = "STARTING" /\ u = "condenser" -> p.vacuum
      [] p.phase[u] = "STARTING" /\ u = "turbine"   -> p.speed >= 3
      [] p.phase[u] = "OFF" /\ u = "turbine"        -> p.speed > 0
      [] p.phase[u] = "PRESSURIZING"                -> p.pressure = 2
      [] OTHER                                      -> p.phase[u] \notin {"OFF", "RUNNING", "TRIPPED"}

FastClose(p) ==
    \/ Tripped(p, "turbine") \/ Tripped(p, "boiler") \/ Tripped(p, "steam_valve")
    \/ p.speed = 4

Step(p, u) ==
    LET p1 == [p EXCEPT !.phase[u] = PhysicsStep(KindOf(u), @, Reached(p, u))] IN
    CASE u = "steam_valve" -> [p1 EXCEPT !.open = p.phase[u] = "RUNNING" /\ ~FastClose(p)]
      [] u = "generator"   ->
            [p1 EXCEPT !.breaker =
                /\ ~Tripped(p, "turbine") /\ ~Tripped(p, "generator")
                /\ @ \/ (p.phase[u] = "RUNNING" /\ p.speed = 3)]
      [] OTHER -> p1

(* The protections whose values the zones show: low vacuum, underfrequency,*)
(* low-low drum level and low-low suction.                                 *)
Endangered(p, u) ==
    CASE u = "turbine"        -> ~p.vacuum /\ p.speed > 0
      [] u = "generator"      -> p.breaker /\ p.speed < 3
      [] u = "boiler"         -> p.drum = 0 /\ p.phase[u] # "OFF"
      [] u = "feedwater_pump" -> p.tank = 0 /\ p.phase[u] # "OFF"
      [] OTHER                -> FALSE

Protect(p, u) == IF Endangered(p, u) THEN [p EXCEPT !.phase[u] = "TRIPPED"] ELSE p

Scanned(p, u) == Protect(Step(SelfHold(p, u), u), u)
Settled       == \A u \in Units : Scanned(plant, u) = plant

-----------------------------------------------------------------------------
ScanOf(u) == plant' = Scanned(plant, u)

(***************************************************************************)
(* The process leaves a zone, once the devices have done what they do in   *)
(* this one.  A vessel is between the pump that fills it and what draws    *)
(* from it; with both the regulator of the pump holds the zone.            *)
(***************************************************************************)
Level(level, fills, draws) ==
    CASE fills /\ ~draws -> Up(level, 3)
      [] draws /\ ~fills -> Down(level)
      [] OTHER           -> level

Evacuate == Settled /\ plant' = [plant EXCEPT !.vacuum = On(plant, "condenser")]

FillTank ==
    /\ Settled
    /\ plant' = [plant EXCEPT !.tank =
                    Level(@, On(plant, "condensate_pump"), On(plant, "feedwater_pump"))]

FillDrum ==
    /\ Settled
    /\ plant' = [plant EXCEPT !.drum = Level(@, On(plant, "feedwater_pump"), Steaming(plant))]

\* Fired with the valve open it still gains: burner and valve are capped in the run-up.
Pressurise ==
    /\ Settled
    /\ plant' = [plant EXCEPT !.pressure = IF Steaming(plant) THEN Up(@, 2) ELSE Down(@)]

(* Steam brings the turbine to the synchronous speed, where the governor   *)
(* holds it; but a trip of the generator takes its load from it.           *)
Turn ==
    /\ Settled
    /\ \E overrun \in BOOLEAN :
          /\ overrun => plant.speed = 3 /\ Flows(plant) /\ Tripped(plant, "generator")
          /\ plant' = [plant EXCEPT !.speed =
                          CASE overrun       -> 4
                            [] ~Flows(plant) -> Down(@)
                            [] OTHER         -> IF @ > 3 THEN 3 ELSE Up(@, 3)]

(* A trip for any other reason, at any moment; the high-high level of the  *)
(* drum also forbids to feed the boiler.                                   *)
Trip(u) ==
    /\ plant.trips < MaxTrips /\ ~Tripped(plant, u)
    /\ \E flooded \in BOOLEAN :
          /\ flooded => u = "boiler" /\ plant.drum = 3
          /\ plant' = [plant EXCEPT !.phase[u] = "TRIPPED", !.trips = @ + 1, !.feed = @ /\ ~flooded]

(* RESET_TRIP, once the cause is gone.                                     *)
Reset(u) ==
    /\ Tripped(plant, u) /\ ~Endangered(plant, u)
    /\ plant' = [plant EXCEPT !.phase[u] = "OFF", !.feed = @ \/ u = "boiler"]

PlantNext ==
    \/ Evacuate \/ FillTank \/ FillDrum \/ Pressurise \/ Turn
    \/ \E u \in Units : ScanOf(u) \/ Trip(u) \/ Reset(u)

(***************************************************************************)
(* The devices scan for ever (PlantBus ticks them), the process goes on    *)
(* however often a device acts, and operators reset a trip that can be     *)
(* reset.                                                                  *)
(***************************************************************************)
PlantFairness ==
    /\ \A u \in Units : WF_plant(ScanOf(u)) /\ WF_plant(Reset(u))
    /\ SF_plant(Evacuate) /\ SF_plant(FillTank) /\ SF_plant(FillDrum)
    /\ SF_plant(Pressurise) /\ SF_plant(Turn)

PlantSpec == PlantInit /\ [][PlantNext]_plant /\ PlantFairness

-----------------------------------------------------------------------------
PlantTypeOK == plant \in PlantState

(***************************************************************************)
(* The plant comes up, from cold and again after every trip that is reset: *)
(* the devices never wait for each other in a circle, whichever of them    *)
(* trips at whatever stage, what trips behind it, and in whatever order    *)
(* they are reset.                                                         *)
(***************************************************************************)
ComesUp == []<>(plant.breaker /\ plant.speed = 3 /\ Flows(plant))
===============================================================================
