------------------------------ MODULE ProgramProofs ------------------------------
(***************************************************************************)
(* Theorems about the programs of the devices, for every value of their    *)
(* constants: the breaker of the generator, the furnace of the boiler, the *)
(* pumps, the regulator, and the governor with its valve; and, with those  *)
(* of LinkProofs, about all of them side by side.                          *)
(***************************************************************************)
EXTENDS MCPrograms, LinkProofs

(* The hooks of the programs ask for phases the state machine has.         *)
LEMMA PhasesClosed ==
    ASSUME NEW kind \in DeviceKinds, NEW s \in Phases
    PROVE  OnStart(kind, s) \in Phases /\ OnStop(kind, s) \in Phases
  BY DEF OnStart, OnStop, To, Phases, Starting, DeviceKinds

-----------------------------------------------------------------------------
(* The generator.  What was opened deliberately blocks the automatic       *)
(* synchronisation; that makes NoAutomaticReclose inductive.               *)
Kept(g) == g \in GeneratorState /\ (g.heldOpen => g.blocked)

GeneratorInv == Kept(gen) /\ SafeMeansOpen

(* Opening the breaker opens it or finds that it is stuck.                 *)
LEMMA OpenKeeps ==
    ASSUME NEW g, Kept(g), NEW why, NEW stuck \in BOOLEAN
    PROVE  LET h == OpenBreaker(g, why, stuck)
           IN  /\ Kept(h) /\ h.phase = g.phase
               /\ ~stuck => ~h.closed
               /\ h.closed => g.closed
               /\ ~g.closed => h = g
               /\ h.heldOpen => g.heldOpen \/ why \in Deliberate
  BY DEF OpenBreaker, Kept, GeneratorState

(* Closing it changes nothing but closed and the alarm.                    *)
LEMMA CloseKeeps ==
    ASSUME NEW g, Kept(g), NEW in \in GeneratorInputs, NEW permitted \in BOOLEAN
    PROVE  LET h == CloseBreaker(g, in, permitted)
           IN  /\ Kept(h) /\ h.phase = g.phase
               /\ h.heldOpen = g.heldOpen /\ h.blocked = g.blocked
               /\ ~permitted => h = g
  BY DEF CloseBreaker, Kept, GeneratorState, GeneratorInputs

(* The pulses: without BREAKER_CLOSE an open breaker stays open.           *)
LEMMA PulsesKeep ==
    ASSUME NEW g, Kept(g), NEW in \in GeneratorInputs
    PROVE  LET h == BreakerPulses(g, in)
           IN  /\ Kept(h) /\ h.phase = g.phase
               /\ ~in.close /\ ~g.closed => h = g
<1> DEFINE permitted == SyncPermitted(g, in, in.before)
           g1 == IF in.close THEN CloseBreaker(g, in, permitted) ELSE g
<1>1. permitted \in BOOLEAN
  BY DEF SyncPermitted, GeneratorInputs, Kept, GeneratorState
<1>2. in.stuck \in BOOLEAN /\ in.open \in BOOLEAN /\ in.close \in BOOLEAN
  BY DEF GeneratorInputs
<1>3. Kept(g1) /\ g1.phase = g.phase /\ (~in.close => g1 = g)
  BY <1>1, CloseKeeps
<1>4. BreakerPulses(g, in) = IF in.open THEN OpenBreaker(g1, "MANUAL", in.stuck) ELSE g1
  BY DEF BreakerPulses
<1> HIDE DEF g1, permitted
<1> QED
  BY <1>2, <1>3, <1>4, OpenKeeps

(* With a reason to stay open the breaker ends open, unless it is stuck.   *)
LEMMA SafetyKeeps ==
    ASSUME NEW g, Kept(g), NEW in \in GeneratorInputs
    PROVE  LET h == Safety(g, in)
           IN  /\ Kept(h) /\ h.phase = g.phase
               /\ ~g.closed => h = g
               /\ h.closed /\ (in.turbine \/ in.safe \/ h.phase = "TRIPPED") => in.stuck
<1>1. in.stuck \in BOOLEAN
  BY DEF GeneratorInputs
<1> QED
  BY <1>1, OpenKeeps DEF Safety

(* The automatic synchronisation closes nothing that is blocked, nothing   *)
(* in danger, and only in RUNNING.                                         *)
LEMMA SynchroniseKeeps ==
    ASSUME NEW g, Kept(g), NEW in \in GeneratorInputs
    PROVE  LET h == Synchronise(g, in)
           IN  /\ Kept(h) /\ h.phase = g.phase /\ h.heldOpen = g.heldOpen
               /\ h # g => /\ ~g.blocked /\ ~in.safe /\ g.phase = "RUNNING"
                           /\ ~in.turbine
<1>1. SyncPermitted(g, in, in.now) \in BOOLEAN
  BY DEF SyncPermitted, GeneratorInputs, Kept, GeneratorState
<1>2. SyncPermitted(g, in, in.now) => ~in.turbine
  BY DEF SyncPermitted
<1> QED
  BY <1>1, <1>2, CloseKeeps DEF Synchronise

LEMMA GeneratorStepKeeps ==
    ASSUME NEW g, Kept(g), NEW in \in GeneratorInputs
    PROVE  LET h == GeneratorStep(g, in)
           IN  /\ Kept(h) /\ h.phase = g.phase
               /\ h.closed /\ (in.turbine \/ in.safe \/ h.phase = "TRIPPED") => in.stuck
               /\ ~in.close /\ ~g.closed /\ h.closed => ~h.heldOpen
<1> DEFINE g1 == BreakerPulses(g, in)
           g2 == Safety(g1, in)
           g3 == Synchronise(g2, in)
<1>1. Kept(g1) /\ g1.phase = g.phase /\ (~in.close /\ ~g.closed => g1 = g)
  BY PulsesKeep
<1>2. /\ Kept(g2) /\ g2.phase = g1.phase /\ (~g1.closed => g2 = g1)
      /\ g2.closed /\ (in.turbine \/ in.safe \/ g2.phase = "TRIPPED") => in.stuck
  BY <1>1, SafetyKeeps
<1>3. /\ Kept(g3) /\ g3.phase = g2.phase /\ g3.heldOpen = g2.heldOpen
      /\ g3 # g2 => ~g2.blocked /\ ~in.safe /\ g2.phase = "RUNNING" /\ ~in.turbine
  BY <1>2, SynchroniseKeeps
<1>4. GeneratorStep(g, in) = g3
  BY DEF GeneratorStep
<1> HIDE DEF g1, g2, g3
<1>5. ~in.close /\ ~g.closed /\ g3.closed => ~g3.heldOpen
  BY <1>1, <1>2, <1>3 DEF Kept
<1> QED
  BY <1>1, <1>2, <1>3, <1>4, <1>5

(* What one scan does, and what the theorems need of it.                   *)
LEMMA GeneratorScanKeeps ==
    ASSUME Kept(gen), NEW in \in GeneratorInputs, GeneratorScan(in)
    PROVE  /\ Kept(gen') /\ SafeMeansOpen'
           /\ gen.heldOpen /\ ~gen.closed /\ gen'.closed => gen'.byHand \/ ~gen'.heldOpen
<1> DEFINE onTrip(g) == OpenBreaker(g, "PROTECTION", in.stuck)
           opened == OpenBreaker(gen, "STOP", in.stuck)
           tripped == [gen EXCEPT !.phase = "TRIPPED"]
           g1 == CASE in.command = "START" /\ gen.phase \notin Active \cup {"TRIPPED"} -> GeneratorOnStart(gen)
                   [] in.command = "STOP"  /\ gen.phase \notin {"OFF", "TRIPPED"} ->
                        [opened EXCEPT !.phase = OnStop("generator", @)]
                   [] in.command = "RESET" /\ gen.phase = "TRIPPED" -> [gen EXCEPT !.phase = "OFF"]
                   [] in.command = "TRIP"  -> OpenBreaker(tripped, "PROTECTION", in.stuck)
                   [] OTHER -> gen
           g2 == IF LongLoss /\ in.loss THEN OpenBreaker(g1, "COMM_TIMEOUT", in.stuck) ELSE g1
           g3 == GeneratorStep(g2, in)
           g4 == IF in.trips THEN OpenBreaker([g3 EXCEPT !.phase = "TRIPPED"], "PROTECTION", in.stuck)
                 ELSE g3
<1>1. gen' = [g4 EXCEPT !.byHand = in.close, !.danger = in.turbine \/ in.safe, !.stuck = in.stuck]
  BY DEF GeneratorScan, GeneratorCommanded, GeneratorTripped, GeneratorOnStop, Starts, Stops, Resets
<1>2. /\ {in.close, in.stuck, in.turbine, in.safe, in.trips, in.loss} \subseteq BOOLEAN
      /\ in.command \in ScanCommands
  BY DEF GeneratorInputs
<1>3. Kept(g1) /\ (~gen.closed => ~g1.closed)
  <2>1. CASE in.command = "START" /\ gen.phase \notin Active \cup {"TRIPPED"}
    <3>1. OnStart("generator", gen.phase) \in Phases
      BY PhasesClosed DEF Kept, GeneratorState, DeviceKinds
    <3> QED
      BY <2>1, <3>1 DEF GeneratorOnStart, Kept, GeneratorState
  <2>2. CASE in.command = "STOP" /\ gen.phase \notin {"OFF", "TRIPPED"}
    <3>1. Kept(opened) /\ (~gen.closed => ~opened.closed)
      BY <1>2, OpenKeeps
    <3>2. OnStop("generator", opened.phase) \in Phases
      BY <3>1, PhasesClosed DEF Kept, GeneratorState, DeviceKinds
    <3>3. g1 = [opened EXCEPT !.phase = OnStop("generator", @)]
      BY <2>2
    <3> HIDE DEF opened
    <3> QED
      BY <3>1, <3>2, <3>3 DEF Kept, GeneratorState
  <2>3. CASE in.command = "RESET" /\ gen.phase = "TRIPPED"
    BY <2>3 DEF Kept, GeneratorState, Phases
  <2>4. CASE in.command = "TRIP"
    <3>1. Kept(tripped) /\ tripped.closed = gen.closed
      BY DEF Kept, GeneratorState, Phases
    <3> HIDE DEF tripped
    <3> QED
      BY <1>2, <2>4, <3>1, OpenKeeps
  <2>5. CASE ~ \/ in.command = "START" /\ gen.phase \notin Active \cup {"TRIPPED"}
               \/ in.command = "STOP" /\ gen.phase \notin {"OFF", "TRIPPED"}
               \/ in.command = "RESET" /\ gen.phase = "TRIPPED"
               \/ in.command = "TRIP"
    <3>1. g1 = gen
      BY <2>5
    <3> QED
      BY <3>1
  <2> QED
    BY <2>1, <2>2, <2>3, <2>4, <2>5
<1> HIDE DEF g1
<1>4. Kept(g2) /\ (~g1.closed => ~g2.closed)
  BY <1>2, <1>3, OpenKeeps
<1> HIDE DEF g2
<1>5. /\ Kept(g3)
      /\ g3.closed /\ (in.turbine \/ in.safe \/ g3.phase = "TRIPPED") => in.stuck
      /\ ~in.close /\ ~g2.closed /\ g3.closed => ~g3.heldOpen
  BY <1>4, GeneratorStepKeeps
<1> HIDE DEF g3
<1>6. /\ Kept(g4)
      /\ g4.closed /\ (in.turbine \/ in.safe \/ g4.phase = "TRIPPED") => in.stuck
      /\ ~in.close /\ ~g2.closed /\ g4.closed => ~g4.heldOpen
  <2>1. CASE in.trips
    <3> DEFINE t == [g3 EXCEPT !.phase = "TRIPPED"]
    <3>1. Kept(t) /\ t.closed = g3.closed /\ t.heldOpen = g3.heldOpen
      BY <1>5 DEF Kept, GeneratorState, Phases
    <3>2. g4 = OpenBreaker(t, "PROTECTION", in.stuck)
      BY <2>1
    <3>3. "PROTECTION" \notin Deliberate
      BY DEF Deliberate
    <3> HIDE DEF t, g4
    <3> QED
      BY <1>2, <1>5, <3>1, <3>2, <3>3, OpenKeeps
  <2>2. CASE ~in.trips
    BY <1>5, <2>2
  <2> QED
    BY <1>2, <2>1, <2>2
<1> HIDE DEF g4
<1>7. /\ gen' \in GeneratorState
      /\ gen'.closed = g4.closed /\ gen'.phase = g4.phase
      /\ gen'.heldOpen = g4.heldOpen /\ gen'.blocked = g4.blocked
      /\ gen'.byHand = in.close /\ gen'.stuck = in.stuck
      /\ gen'.danger = (in.turbine \/ in.safe)
  BY <1>1, <1>2, <1>6 DEF Kept, GeneratorState
<1> QED
  BY <1>3, <1>4, <1>6, <1>7 DEF Kept, SafeMeansOpen

LEMMA GeneratorStarts == GeneratorInit => GeneratorInv
  BY DEF GeneratorInit, NewGenerator, GeneratorInv, Kept, GeneratorState, SafeMeansOpen,
         Phases, Starting

LEMMA GeneratorInductive == GeneratorInv /\ [GeneratorNext]_gen => GeneratorInv'
<1> SUFFICES ASSUME GeneratorInv, [GeneratorNext]_gen PROVE GeneratorInv'
  OBVIOUS
<1>1. CASE GeneratorNext
  BY <1>1, GeneratorScanKeeps DEF GeneratorNext, GeneratorInv
<1>2. CASE UNCHANGED gen
  BY <1>2 DEF GeneratorInv, Kept, SafeMeansOpen
<1> QED
  BY <1>1, <1>2

(***************************************************************************)
(* The state of the generator keeps its type.                              *)
(***************************************************************************)
THEOREM GeneratorTyped == GeneratorSpec => []GeneratorTypeOK
<1>1. GeneratorInv => GeneratorTypeOK
  BY DEF GeneratorInv, Kept, GeneratorTypeOK
<1> QED
  BY <1>1, GeneratorStarts, GeneratorInductive, PTL DEF GeneratorSpec

(***************************************************************************)
(* Whatever comes together in a scan, the breaker ends it open when there  *)
(* is a reason to, unless it is stuck.                                     *)
(***************************************************************************)
THEOREM BreakerOpensInDanger == GeneratorSpec => []SafeMeansOpen
<1>1. GeneratorInv => SafeMeansOpen
  BY DEF GeneratorInv
<1> QED
  BY <1>1, GeneratorStarts, GeneratorInductive, PTL DEF GeneratorSpec

(***************************************************************************)
(* What was opened deliberately only BREAKER_CLOSE or a start closes.      *)
(***************************************************************************)
THEOREM NoReclose == GeneratorSpec => NoAutomaticReclose
<1>1. GeneratorInv /\ [GeneratorNext]_gen =>
        [gen.heldOpen /\ ~gen.closed /\ gen'.closed => gen'.byHand \/ ~gen'.heldOpen]_gen
  BY GeneratorScanKeeps DEF GeneratorNext, GeneratorInv
<1> QED
  BY <1>1, GeneratorStarts, GeneratorInductive, PTL DEF GeneratorSpec, NoAutomaticReclose

-----------------------------------------------------------------------------
(* The boiler.  While it purges, the scans purged and the timer add up, so *)
(* the furnace is purged in full when the timer is up; and nothing burns   *)
(* in the phases from which a start is possible.                           *)
Purged(b) ==
    /\ b \in BoilerState
    /\ b.flame > 0 \/ b.burner > 0 \/ b.phase \in Firing => b.purged = PurgeScans
    /\ b.phase \in {"OFF", "PURGING", "TRIPPED"} => b.burner = 0 /\ b.flame = 0
    /\ b.phase = "PURGING" => b.purge > 0 /\ b.purged + b.purge = PurgeScans

LEMMA SequencePurges ==
    ASSUME NEW b, Purged(b), NEW in \in BoilerInputs
    PROVE  LET h == Sequence(b, in)
           IN  Purged(h) /\ (b.phase \in Firing => h.phase \in Firing)
<1> USE BoilerAssumption
<1>1. CASE b.phase = "PURGING"
  <2> DEFINE left == b.purge - 1
             purge == IF left > 0 THEN left ELSE 0
             purged == Toward(b.purged, PurgeScans, 1, 0)
             ignition == IF left <= 0 THEN IgnitionScans ELSE b.ignition
             phase == IF left <= 0 THEN "IGNITING" ELSE "PURGING"
  <2>1. Sequence(b, in) = [b EXCEPT !.purge = purge, !.purged = purged,
                                    !.ignition = ignition, !.phase = phase]
    BY <1>1 DEF Sequence
  <2>2. /\ b.purge \in 1 .. PurgeScans /\ b.purged \in 0 .. PurgeScans
        /\ b.purged + b.purge = PurgeScans
        /\ b.ignition \in 0 .. IgnitionScans
        /\ b.burner = 0 /\ b.flame = 0
    BY <1>1 DEF Purged, BoilerState
  <2>3. purged = b.purged + 1
    BY <2>2 DEF Toward
  <2>4. /\ purge \in 0 .. PurgeScans /\ purged \in 0 .. PurgeScans
        /\ purged + purge = PurgeScans /\ ignition \in 0 .. IgnitionScans
        /\ \/ phase = "PURGING" /\ purge > 0
           \/ phase = "IGNITING" /\ purge = 0
    BY <2>2, <2>3
  <2> HIDE DEF purge, purged, ignition, phase
  <2> DEFINE h == [b EXCEPT !.purge = purge, !.purged = purged,
                            !.ignition = ignition, !.phase = phase]
  <2>5. h \in BoilerState
    BY <2>4 DEF Purged, BoilerState, Phases, Starting
  <2>6. /\ h.purge = purge /\ h.purged = purged /\ h.phase = phase
        /\ h.burner = 0 /\ h.flame = 0
    BY <2>2 DEF Purged, BoilerState
  <2>7. purged \in Nat /\ purge \in Nat /\ PurgeScans \in Nat
    BY <2>4
  <2> HIDE DEF h
  <2>8. h.phase \in Firing => h.purged = PurgeScans
    BY <2>4, <2>6, <2>7 DEF Firing
  <2>9. h.phase \in {"PURGING", "IGNITING"}
    BY <2>4, <2>6
  <2>10. Purged(h)
    BY <2>4, <2>5, <2>6, <2>7, <2>8, <2>9 DEF Purged
  <2> QED
    BY <1>1, <2>1, <2>10 DEF h, Firing
<1>2. CASE b.phase = "IGNITING"
  <2> DEFINE left == b.ignition - 1
             ignition == IF left > 0 THEN left ELSE 0
             flame == IF left <= 0 THEN 2 ELSE 1
             phase == IF left <= 0 THEN "PRESSURIZING" ELSE "IGNITING"
  <2>1. Sequence(b, in) = [b EXCEPT !.ignition = ignition, !.flame = flame, !.phase = phase]
    BY <1>2 DEF Sequence
  <2>2. ignition \in 0 .. IgnitionScans /\ flame \in 0 .. 2 /\ phase \in {"PRESSURIZING", "IGNITING"}
    BY DEF Purged, BoilerState
  <2> HIDE DEF ignition, flame, phase
  <2> QED
    BY <1>2, <2>1, <2>2 DEF Purged, BoilerState, Firing, Phases, Starting
<1>3. CASE b.phase = "PRESSURIZING" /\ in.ready
  <2>1. Sequence(b, in) = [b EXCEPT !.phase = "RUNNING"]
    BY <1>3 DEF Sequence
  <2> QED
    BY <1>3, <2>1 DEF Purged, BoilerState, Firing, Phases, Starting
<1>4. CASE b.phase = "STOPPING" /\ b.burner = 0
  <2>1. Sequence(b, in) = [b EXCEPT !.phase = "OFF", !.flame = 0]
    BY <1>4 DEF Sequence
  <2> DEFINE h == [b EXCEPT !.phase = "OFF", !.flame = 0]
  <2>2. h \in BoilerState
    <3>1. b \in BoilerState /\ "OFF" \in Phases /\ 0 \in 0 .. 2
      BY DEF Purged, Phases
    <3> QED
      BY <3>1 DEF BoilerState
  <2>3. h.phase = "OFF" /\ h.flame = 0 /\ h.burner = 0
    BY <1>4 DEF Purged, BoilerState
  <2> HIDE DEF h
  <2> QED
    BY <1>4, <2>1, <2>2, <2>3 DEF Purged, Firing, h
<1>5. CASE ~ \/ b.phase \in {"PURGING", "IGNITING"}
             \/ b.phase = "PRESSURIZING" /\ in.ready
             \/ b.phase = "STOPPING" /\ b.burner = 0
  <2>1. Sequence(b, in) = b
    BY <1>5 DEF Sequence
  <2> QED
    BY <2>1
<1> QED
  BY <1>1, <1>2, <1>3, <1>4, <1>5

(* The demand is within the burner's range, and 0 unless the head of the   *)
(* scan was firing.                                                        *)
LEMMA DemandInRange ==
    ASSUME NEW b, NEW in \in BoilerInputs, NEW firing \in BOOLEAN
    PROVE  Demand(b, in, firing) \in 0 .. FullFire /\ (~firing => Demand(b, in, firing) = 0)
  BY BoilerAssumption DEF Demand, BoilerInputs

LEMMA BurnerPurged ==
    ASSUME NEW b, Purged(b), NEW firing \in BOOLEAN, firing => b.phase \in Firing,
           NEW target \in 0 .. FullFire, ~firing => target = 0, NEW fast \in BOOLEAN
    PROVE  LET h == Burner(b, target, fast, firing)
           IN  Purged(h) /\ h.phase = b.phase
<1> DEFINE burner == IF firing /\ b.flame = 0 THEN 0
                     ELSE Toward(b.burner, target, 1, IF fast THEN FullFire ELSE 2)
<1>1. burner \in 0 .. FullFire /\ (~firing => burner <= b.burner)
  BY BoilerAssumption DEF Toward, Purged, BoilerState
<1>2. Burner(b, target, fast, firing) = [b EXCEPT !.burner = burner]
  BY DEF Burner
<1> HIDE DEF burner
<1> QED
  BY <1>1, <1>2, BoilerAssumption DEF Purged, BoilerState, Firing

LEMMA BoilerStepPurged ==
    ASSUME NEW b, Purged(b), NEW in \in BoilerInputs
    PROVE  Purged(BoilerStep(b, in))
<1> DEFINE firing == b.phase \in Firing
           b1 == Sequence(b, in)
           b2 == [b1 EXCEPT !.rampDone = @ \/ (firing /\ ~in.safe /\ in.steaming)]
           demand == Demand(b2, in, firing)
           b3 == IF in.noFlame THEN [b2 EXCEPT !.flame = 0] ELSE b2
           b4 == Burner(b3, IF in.noFlame THEN 0 ELSE demand, in.runback, firing)
           cold == /\ firing /\ demand > 0 /\ b4.flame = 0
                   /\ b4.phase \notin {"OFF", "PURGING", "TRIPPED"}
           unlit == IF cold THEN Toward(b4.unlit, FlameDelay, 1, 0) ELSE 0
<1>0. firing \in BOOLEAN
  OBVIOUS
<1>1. Purged(b1) /\ (firing => b1.phase \in Firing)
  BY SequencePurges
<1> HIDE DEF firing, b1
<1>2. Purged(b2) /\ b2.phase = b1.phase
  BY <1>0, <1>1 DEF Purged, BoilerState, BoilerInputs
<1> HIDE DEF b2
<1>3. Purged(b3) /\ b3.phase = b2.phase
  BY <1>2 DEF Purged, BoilerState
<1>4. demand \in 0 .. FullFire /\ (~firing => demand = 0)
  BY <1>0, DemandInRange
<1>5. BoilerStep(b, in) = [b4 EXCEPT !.unlit = unlit]
  BY DEF BoilerStep, firing, b1, b2
<1>6. in.runback \in BOOLEAN /\ in.noFlame \in BOOLEAN
  BY DEF BoilerInputs
<1> HIDE DEF b3, demand
<1>7. Purged(b4)
  <2>1. (IF in.noFlame THEN 0 ELSE demand) \in 0 .. FullFire
    BY <1>4, BoilerAssumption
  <2>2. ~firing => (IF in.noFlame THEN 0 ELSE demand) = 0
    BY <1>4
  <2> QED
    BY <1>0, <1>1, <1>2, <1>3, <1>6, <2>1, <2>2, BurnerPurged
<1> HIDE DEF b4
<1>8. unlit \in 0 .. FlameDelay
  BY <1>7, BoilerAssumption DEF Toward, Purged, BoilerState
<1> HIDE DEF unlit
<1> QED
  BY <1>5, <1>7, <1>8 DEF Purged, BoilerState

(* The commands: a start is possible from OFF alone, and purges anew.      *)
LEMMA BoilerStarts ==
    ASSUME NEW b, Purged(b), b.phase \notin Active \cup {"TRIPPED"}
    PROVE  Purged(BoilerOnStart(b))
<1>1. CASE b.phase = "OFF"
  <2>1. "PURGING" \in Transitions("boiler")["OFF"]
    BY DEF Transitions, BoilerTransitions, DefaultTransitions, Phases
  <2>2. OnStart("boiler", b.phase) = "PURGING"
    BY <1>1, <2>1 DEF OnStart, To
  <2>3. BoilerOnStart(b) = [b EXCEPT !.phase = "PURGING", !.purge = PurgeScans, !.purged = 0]
    BY <1>1, <2>2 DEF BoilerOnStart
  <2> DEFINE h == [b EXCEPT !.phase = "PURGING", !.purge = PurgeScans, !.purged = 0]
  <2>4. /\ b \in BoilerState /\ "PURGING" \in Phases /\ b.burner = 0 /\ b.flame = 0
        /\ {0, PurgeScans} \subseteq 0 .. PurgeScans /\ PurgeScans \in Nat \ {0}
    BY <1>1, BoilerAssumption DEF Purged, Phases, Starting
  <2>5. /\ h \in BoilerState
        /\ h.phase = "PURGING" /\ h.purge = PurgeScans /\ h.purged = 0
        /\ h.burner = 0 /\ h.flame = 0
    BY <2>4 DEF BoilerState
  <2> HIDE DEF h
  <2>6. Purged(h)
    BY <2>4, <2>5 DEF Purged, Firing
  <2> QED
    BY <2>3, <2>6 DEF h
<1>2. CASE b.phase # "OFF"
  <2>1. b \in BoilerState /\ b.phase = "STOPPING"
    BY <1>2 DEF Purged, BoilerState, Phases, Active
  <2>2. OnStart("boiler", b.phase) = b.phase
    BY <2>1 DEF OnStart, To, Transitions, BoilerTransitions, DefaultTransitions, Phases
  <2>3. BoilerOnStart(b) = [b EXCEPT !.phase = b.phase, !.purge = PurgeScans, !.purged = b.purged]
    BY <2>2 DEF BoilerOnStart
  <2> DEFINE h == [b EXCEPT !.phase = b.phase, !.purge = PurgeScans, !.purged = b.purged]
  <2>4. PurgeScans \in 0 .. PurgeScans
    BY BoilerAssumption
  <2>5. /\ h \in BoilerState
        /\ h.phase = "STOPPING" /\ h.purged = b.purged /\ h.burner = b.burner /\ h.flame = b.flame
    BY <2>1, <2>4 DEF BoilerState
  <2> HIDE DEF h
  <2>6. Purged(h)
    BY <2>1, <2>5 DEF Purged
  <2> QED
    BY <2>3, <2>6 DEF h
<1> QED
  BY <1>1, <1>2

LEMMA BoilerStops ==
    ASSUME NEW b, Purged(b), b.phase \notin {"OFF", "TRIPPED"}
    PROVE  Purged(BoilerOnStop(b))
<1>1. OnStop("boiler", b.phase) \in {"STOPPING", b.phase}
  BY DEF OnStop, To
<1>2. b \in BoilerState /\ "STOPPING" \in Phases /\ b.phase \in Phases
  BY DEF Purged, BoilerState, Phases
<1>3. CASE OnStop("boiler", b.phase) = "STOPPING"
  <2> DEFINE h == [b EXCEPT !.phase = "STOPPING"]
  <2>1. /\ h \in BoilerState
        /\ h.phase = "STOPPING" /\ h.purged = b.purged /\ h.burner = b.burner /\ h.flame = b.flame
    BY <1>2 DEF BoilerState
  <2>2. BoilerOnStop(b) = h
    BY <1>3 DEF BoilerOnStop
  <2> HIDE DEF h
  <2> QED
    BY <2>1, <2>2 DEF Purged, Firing
<1>4. CASE OnStop("boiler", b.phase) = b.phase
  BY <1>2, <1>4 DEF BoilerOnStop, Purged, BoilerState
<1> QED
  BY <1>1, <1>3, <1>4

(* A trip, of whatever part of the scan, leaves nothing burning.           *)
LEMMA BoilerTrips ==
    ASSUME NEW b, Purged(b)
    PROVE  Purged(BoilerTripped(b))
<1> DEFINE h == [[b EXCEPT !.phase = "TRIPPED"] EXCEPT !.burner = 0, !.flame = 0]
<1>1. BoilerTripped(b) = h
  BY DEF BoilerTripped, BoilerOnTrip
<1>2. b \in BoilerState /\ "TRIPPED" \in Phases /\ 0 \in 0 .. 2 /\ 0 \in 0 .. FullFire
  BY BoilerAssumption DEF Purged, Phases
<1>3. h \in BoilerState /\ h.phase = "TRIPPED" /\ h.burner = 0 /\ h.flame = 0
  BY <1>2 DEF BoilerState
<1> HIDE DEF h
<1> QED
  BY <1>1, <1>3 DEF Purged, Firing

LEMMA BoilerScanPurged ==
    ASSUME Purged(boiler), NEW in \in BoilerInputs, BoilerScan(in)
    PROVE  Purged(boiler')
<1> DEFINE b1 ==
        CASE in.command = "START" /\ boiler.phase \notin Active \cup {"TRIPPED"} -> BoilerOnStart(boiler)
          [] in.command = "STOP"  /\ boiler.phase \notin {"OFF", "TRIPPED"} -> BoilerOnStop(boiler)
          [] in.command = "RESET" /\ boiler.phase = "TRIPPED" ->
                BoilerOnReset([boiler EXCEPT !.phase = "OFF"])
          [] in.command = "TRIP"  -> BoilerTripped(boiler)
          [] in.command = "RESET" /\ boiler.phase # "TRIPPED" -> BoilerOnReset(boiler)
          [] OTHER -> boiler
           b2 == BoilerStep(b1, in)
<1>1. Purged(b1)
  <2>1. CASE in.command = "START" /\ boiler.phase \notin Active \cup {"TRIPPED"}
    BY <2>1, BoilerStarts
  <2>2. CASE in.command = "STOP" /\ boiler.phase \notin {"OFF", "TRIPPED"}
    BY <2>2, BoilerStops
  <2>3. CASE in.command = "RESET" /\ boiler.phase = "TRIPPED"
    <3> DEFINE h == [[boiler EXCEPT !.phase = "OFF"] EXCEPT !.rampDone = FALSE]
    <3>1. boiler \in BoilerState /\ "OFF" \in Phases /\ boiler.burner = 0 /\ boiler.flame = 0
      BY <2>3 DEF Purged, Phases
    <3>2. h \in BoilerState /\ h.phase = "OFF" /\ h.burner = 0 /\ h.flame = 0
      BY <3>1 DEF BoilerState
    <3>3. b1 = h
      BY <2>3 DEF BoilerOnReset
    <3> HIDE DEF h, b1
    <3> QED
      BY <3>2, <3>3 DEF Purged, Firing
  <2>4. CASE in.command = "TRIP"
    BY <2>4, BoilerTrips
  <2>5. CASE ~ \/ in.command = "START" /\ boiler.phase \notin Active \cup {"TRIPPED"}
               \/ in.command = "STOP" /\ boiler.phase \notin {"OFF", "TRIPPED"}
               \/ in.command = "RESET"
               \/ in.command = "TRIP"
    <3>1. b1 = boiler
      BY <2>5
    <3> QED
      BY <3>1
  <2>6. CASE in.command = "RESET" /\ boiler.phase # "TRIPPED"
    <3> DEFINE h == [boiler EXCEPT !.rampDone = FALSE]
    <3>1. /\ h \in BoilerState /\ h.phase = boiler.phase /\ h.purged = boiler.purged
          /\ h.burner = boiler.burner /\ h.flame = boiler.flame /\ h.purge = boiler.purge
      BY DEF Purged, BoilerState
    <3>2. b1 = h
      BY <2>6 DEF BoilerOnReset
    <3> HIDE DEF h, b1
    <3> QED
      BY <3>1, <3>2 DEF Purged, Firing
  <2> QED
    BY <2>1, <2>2, <2>3, <2>4, <2>5, <2>6
<1>2. boiler' = IF in.trips \/ b2.unlit = FlameDelay THEN BoilerTripped(b2) ELSE b2
  BY DEF BoilerScan, BoilerCommanded, Starts, Stops, Resets
<1> HIDE DEF b1
<1>3. Purged(b2)
  BY <1>1, BoilerStepPurged
<1> HIDE DEF b2
<1> QED
  BY <1>2, <1>3, BoilerTrips

LEMMA BoilerAlwaysPurged == BoilerSpec => []Purged(boiler)
<1>1. BoilerInit => Purged(boiler)
  <2> SUFFICES ASSUME BoilerInit PROVE Purged(boiler)
    OBVIOUS
  <2>1. /\ "OFF" \in Phases /\ 0 \in 0 .. 2 /\ 0 \in 0 .. PurgeScans /\ 0 \in 0 .. IgnitionScans
        /\ 0 \in 0 .. FullFire /\ 0 \in 0 .. FlameDelay
    BY BoilerAssumption DEF Phases
  <2> QED
    BY <2>1 DEF BoilerInit, NewBoiler, Purged, BoilerState, Firing
<1>2. Purged(boiler) /\ [BoilerNext]_boiler => Purged(boiler)'
  <2> SUFFICES ASSUME Purged(boiler), [BoilerNext]_boiler PROVE Purged(boiler)'
    OBVIOUS
  <2>1. CASE BoilerNext
    BY <2>1, BoilerScanPurged DEF BoilerNext
  <2>2. CASE UNCHANGED boiler
    BY <2>2
  <2> QED
    BY <2>1, <2>2
<1> QED
  BY <1>1, <1>2, PTL DEF BoilerSpec

(***************************************************************************)
(* The state of the boiler's program keeps its type.                       *)
(***************************************************************************)
THEOREM BoilerTyped == BoilerSpec => []BoilerTypeOK
<1>1. Purged(boiler) => BoilerTypeOK
  BY DEF Purged, BoilerTypeOK
<1> QED
  BY <1>1, BoilerAlwaysPurged, PTL

(***************************************************************************)
(* No fire without a full purge since the last start, for every length of  *)
(* purge, ignition and flame delay and every size of fire.                 *)
(***************************************************************************)
THEOREM FireIsPurged == BoilerSpec => []PurgeBeforeFire
<1>1. Purged(boiler) => PurgeBeforeFire
  BY DEF Purged, PurgeBeforeFire
<1> QED
  BY <1>1, BoilerAlwaysPurged, PTL

-----------------------------------------------------------------------------
(* The pumps.                                                              *)
Running(p) == p \in PumpState /\ (p.speed + SpeedDown * p.halted <= FullSpeed \/ p.speed = 0)

LEMMA PumpZero == 0 \in Speeds /\ FullSpeed \in Speeds /\ MinSpeed \in Speeds
  BY PumpAssumption DEF Speeds

LEMMA TargetInRange ==
    ASSUME NEW p, p \in PumpState, NEW in \in PumpInputs
    PROVE  Target(p, in) \in Speeds /\ (Stands(p, in) => Target(p, in) = 0)
<1>1. /\ p.demand \in Speeds /\ in.lowest \in Speeds /\ in.highest \in Speeds /\ in.lift \in Speeds
      /\ MinSpeed \in Speeds
  BY PumpZero DEF PumpState, PumpInputs
<1>2. Clamp(p.demand, in.lowest, in.highest) \in Speeds
  BY <1>1 DEF Clamp
<1>3. Floored(p.demand, in) \in Speeds
  BY <1>1, <1>2 DEF Floored, Greatest
<1> QED
  BY <1>3, PumpZero DEF Target

(* The derating leaves a target a target, and 0 at 0.                      *)
LEMMA Derated ==
    ASSUME NEW t \in Speeds, NEW d \in {0, 1, 2}
    PROVE  (t * d) \div 2 \in Speeds /\ (t = 0 => (t * d) \div 2 = 0)
<1>1. t \in Nat /\ t <= FullSpeed /\ FullSpeed \in Nat
  BY PumpAssumption DEF Speeds
<1>2. CASE d = 0
  BY <1>1, <1>2 DEF Speeds
<1>3. CASE d = 1
  BY <1>1, <1>3 DEF Speeds
<1>4. CASE d = 2
  BY <1>1, <1>4 DEF Speeds
<1> QED
  BY <1>2, <1>3, <1>4

LEMMA DemandKept ==
    ASSUME NEW p, p \in PumpState, NEW in \in PumpInputs
    PROVE  LET h == IF Stands(p, in) THEN HoldLevel(p) ELSE LocalSpeedDemand(p, in)
           IN  /\ h \in PumpState /\ h.phase = p.phase
               /\ h.speed = p.speed /\ h.halted = p.halted
<1>1. /\ p.demand \in Speeds /\ in.wish \in Speeds /\ in.auto \in BOOLEAN
      /\ DemandRate \in Nat /\ FullSpeed \in Nat
  BY PumpAssumption DEF PumpState, PumpInputs
<1>2. Toward(p.demand, in.wish, DemandRate, DemandRate) \in Speeds
  BY <1>1 DEF Toward, Speeds
<1>3. CASE Stands(p, in)
  BY <1>3, PumpZero DEF HoldLevel, PumpState
<1>4. CASE ~Stands(p, in)
  BY <1>1, <1>2, <1>4 DEF LocalSpeedDemand, PumpState
<1> QED
  BY <1>3, <1>4

(* With a reason to stand the pump loses SpeedDown or stands.              *)
LEMMA StepRuns ==
    ASSUME NEW p, Running(p), NEW in \in PumpInputs
    PROVE  Running(StepPump(p, in))
<1> DEFINE p1 == IF Stands(p, in) THEN HoldLevel(p) ELSE LocalSpeedDemand(p, in)
           target == (Target(p1, in) * in.derate) \div 2
           speed == Toward(p.speed, target, SpeedUp, SpeedDown)
           phase == CASE p1.phase = "STARTING" /\ speed >= MinSpeed -> "RUNNING"
                      [] p1.phase = "STOPPING" /\ speed = 0         -> "OFF"
                      [] OTHER                                      -> p1.phase
           halted == IF Stands(p, in) THEN Toward(p1.halted, FullSpeed, 1, 0) ELSE 0
<1>1. StepPump(p, in) = [p1 EXCEPT !.speed = speed, !.phase = phase, !.halted = halted]
  BY DEF StepPump
<1>2. /\ p1 \in PumpState /\ p1.phase = p.phase /\ p1.halted = p.halted
      /\ Stands(p1, in) = Stands(p, in)
  BY DemandKept DEF Running, Stands
<1> HIDE DEF p1
<1>3. target \in Speeds /\ (Stands(p, in) => target = 0)
  <2>1. Target(p1, in) \in Speeds /\ (Stands(p, in) => Target(p1, in) = 0)
    BY <1>2, TargetInRange
  <2>2. in.derate \in {0, 1, 2}
    BY DEF PumpInputs
  <2> QED
    BY <2>1, <2>2, Derated
<1> HIDE DEF target
<1>4. /\ p.speed \in 0 .. FullSpeed /\ p.halted \in 0 .. FullSpeed /\ FullSpeed \in Nat
      /\ SpeedUp \in Nat \ {0} /\ SpeedDown \in Nat \ {0}
  BY PumpAssumption DEF Running, PumpState, Speeds
<1>5. speed \in Speeds /\ halted \in Speeds /\ phase \in Phases
  <2>1. speed \in Speeds
    BY <1>3, <1>4 DEF Toward, Speeds
  <2>2. halted \in Speeds
    BY <1>2, <1>4 DEF Toward, Speeds
  <2>3. p1.phase \in Phases /\ {"RUNNING", "OFF"} \subseteq Phases
    BY <1>2 DEF PumpState, Phases
  <2> QED
    BY <2>1, <2>2, <2>3
<1>6. speed + SpeedDown * halted <= FullSpeed \/ speed = 0
  <2>1. CASE ~Stands(p, in)
    <3>1. halted = 0 /\ SpeedDown * 0 = 0
      BY <1>4, <2>1
    <3> QED
      BY <1>4, <1>5, <3>1 DEF Speeds
  <2>2. CASE Stands(p, in)
    <3>1. target = 0
      BY <1>3, <2>2
    <3>2. CASE p.speed <= SpeedDown
      BY <1>4, <3>1, <3>2 DEF Toward
    <3>3. CASE p.speed > SpeedDown
      <4>1. speed = p.speed - SpeedDown
        BY <1>4, <3>1, <3>3 DEF Toward
      <4>2. halted \in Nat /\ halted <= p.halted + 1
        BY <1>2, <1>4, <2>2 DEF Toward
      <4>3. SpeedDown * halted <= SpeedDown * (p.halted + 1)
        BY <1>4, <4>2
      <4>4. SpeedDown * (p.halted + 1) = SpeedDown * p.halted + SpeedDown
        BY <1>4
      <4>5. p.speed + SpeedDown * p.halted <= FullSpeed
        BY <1>4, <3>3 DEF Running
      <4>6. SpeedDown * halted \in Nat /\ SpeedDown * p.halted \in Nat
        BY <1>4, <4>2
      <4> HIDE DEF speed, halted
      <4> QED
        BY <1>4, <4>1, <4>3, <4>4, <4>5, <4>6
    <3> QED
      BY <1>4, <3>2, <3>3
  <2> QED
    BY <2>1, <2>2
<1> HIDE DEF speed, phase, halted
<1>7. /\ StepPump(p, in) \in PumpState
      /\ StepPump(p, in).speed = speed /\ StepPump(p, in).halted = halted
  BY <1>1, <1>2, <1>5 DEF PumpState
<1> QED
  BY <1>6, <1>7 DEF Running

LEMMA PumpScanRuns ==
    ASSUME Running(pump), NEW in \in PumpInputs, PumpScan(in)
    PROVE  Running(pump')
<1> DEFINE p1 ==
        CASE in.command = "START" /\ pump.phase \notin Active \cup {"TRIPPED"} -> PumpOnStart(pump)
          [] in.command = "STOP"  /\ pump.phase \notin {"OFF", "TRIPPED"} -> PumpOnStop(pump)
          [] in.command = "RESET" /\ pump.phase = "TRIPPED" -> [pump EXCEPT !.phase = "OFF"]
          [] in.command = "TRIP"  -> PumpTripped(pump)
          [] OTHER -> pump
           p2 == StepPump(p1, in)
<1>1. ASSUME NEW p, Running(p) PROVE Running(PumpTripped(p))
  <2>1. p \in PumpState /\ "TRIPPED" \in Phases
    BY <1>1 DEF Running, Phases
  <2> QED
    BY <1>1, <2>1, PumpZero DEF PumpTripped, PumpOnTrip, Running, PumpState
<1>2. ASSUME NEW phase \in Phases PROVE Running([pump EXCEPT !.phase = phase])
  BY <1>2 DEF Running, PumpState
<1>3. /\ pump.phase \in Phases /\ "OFF" \in Phases
      /\ OnStart("pump", pump.phase) \in Phases /\ OnStop("pump", pump.phase) \in Phases
  <2>1. pump.phase \in Phases /\ "OFF" \in Phases /\ "pump" \in DeviceKinds
    BY DEF Running, PumpState, Phases, DeviceKinds
  <2> QED
    BY <2>1, PhasesClosed
<1>4. Running(p1)
  BY <1>1, <1>2, <1>3 DEF PumpOnStart, PumpOnStop
<1>5. pump' = IF in.trips THEN PumpTripped(p2) ELSE p2
  BY DEF PumpScan, PumpCommanded, Starts, Stops, Resets
<1> HIDE DEF p1
<1>6. Running(p2)
  BY <1>4, StepRuns
<1> QED
  BY <1>1, <1>5, <1>6

LEMMA PumpAlwaysRuns == PumpSpec => []Running(pump)
<1>1. PumpInit => Running(pump)
  <2>1. "OFF" \in Phases
    BY DEF Phases
  <2> QED
    BY <2>1, PumpZero DEF PumpInit, NewPump, Running, PumpState
<1>2. Running(pump) /\ [PumpNext]_pump => Running(pump)'
  <2> SUFFICES ASSUME Running(pump), [PumpNext]_pump PROVE Running(pump)'
    OBVIOUS
  <2>1. CASE PumpNext
    BY <2>1, PumpScanRuns DEF PumpNext
  <2>2. CASE UNCHANGED pump
    BY <2>2
  <2> QED
    BY <2>1, <2>2
<1> QED
  BY <1>1, <1>2, PTL DEF PumpSpec

(***************************************************************************)
(* The state of the pump's program keeps its type, for both programs.      *)
(***************************************************************************)
THEOREM PumpTyped == PumpSpec => []PumpTypeOK
<1>1. Running(pump) => PumpTypeOK
  BY DEF Running, PumpTypeOK
<1> QED
  BY <1>1, PumpAlwaysRuns, PTL

(***************************************************************************)
(* A pump with a reason to stand runs down at its rate, for every speed,   *)
(* rate and limit and for both programs.                                   *)
(***************************************************************************)
THEOREM PumpRunsDown == PumpSpec => []RunsDown
<1>1. Running(pump) => RunsDown
  BY DEF Running, RunsDown
<1> QED
  BY <1>1, PumpAlwaysRuns, PTL

-----------------------------------------------------------------------------
(* The regulator.                                                          *)
RegulatorInv == RegulatorTypeOK /\ (regulator.last = "track" => regulator.pending)

LEMMA ClampInRange ==
    ASSUME NEW low \in Int, NEW high \in Int, low <= high, NEW value \in Int
    PROVE  Clamp(value, low, high) \in low .. high
  BY DEF Clamp

LEMMA IntegralInRange ==
    ASSUME NEW value \in Int
    PROVE  Integral(value) \in -IntegralLimit .. IntegralLimit
<1>1. IntegralLimit \in Nat
  BY RegulatorAssumption
<1>2. -IntegralLimit \in Int /\ IntegralLimit \in Int /\ -IntegralLimit <= IntegralLimit
  BY <1>1
<1> QED
  BY <1>2, ClampInRange DEF Integral

LEMMA TowardBetween ==
    ASSUME NEW value \in Int, NEW target \in Int, NEW up \in Nat, NEW down \in Nat
    PROVE  /\ Toward(value, target, up, down) \in Int
           /\ value <= target => Toward(value, target, up, down) \in value .. target
           /\ target <= value => Toward(value, target, up, down) \in target .. value
  BY DEF Toward

LEMMA Drifts ==
    ASSUME NEW error \in Int, NEW gain \in Nat
    PROVE  /\ gain * error \in Int
           /\ gain * (IF error < 0 THEN -error ELSE error) \in Nat
           /\ error >= 0 => gain * (IF error < 0 THEN -error ELSE error) = gain * error
                            /\ gain * error >= 0
           /\ error < 0  => gain * (IF error < 0 THEN -error ELSE error) = -(gain * error)
                            /\ gain * error <= 0
<1>1. CASE error >= 0
  BY <1>1
<1>2. CASE error < 0
  <2>1. -error \in Nat
    BY <1>2
  <2>2. gain * (-error) = -(gain * error)
    OBVIOUS
  <2>3. gain * (-error) \in Nat
    BY <2>1
  <2> QED
    BY <1>2, <2>1, <2>2, <2>3
<1> QED
  BY <1>1, <1>2

(* One update: within the limits, and after a track() by no more than the  *)
(* drift from where it was.                                                *)
LEMMA UpdateSmooth ==
    ASSUME NEW r \in RegulatorState, NEW error \in Int, NEW bias \in Int,
           NEW outMax \in OutMin .. OutMax
    PROVE  LET u == Update(r, error, bias, OutMin, outMax)
           IN  /\ u \in RegulatorState /\ u.last = "update"
               /\ r.pending /\ u.free => u.output - r.output \in -u.drift .. u.drift
<1> DEFINE magnitude == IF error < 0 THEN -error ELSE error
           carried  == Carried(r, error, bias)
           integral == Integrated(carried, error, bias, OutMin, outMax)
           target   == Clamp(Kp * error + integral + bias, OutMin, outMax)
           output   == Clamp(Toward(r.output, target, RateUp, RateDown), OutMin, outMax)
           free     == /\ r.output \in OutMin .. outMax
                       /\ r.output - Kp * error - bias \in -IntegralLimit .. IntegralLimit
           drift    == Ki * magnitude
<1>1. /\ Kp \in Nat /\ Ki \in Nat /\ RateUp \in Nat /\ RateDown \in Nat /\ IntegralLimit \in Nat
      /\ OutMin \in Int /\ OutMax \in Int /\ outMax \in Int /\ OutMin <= outMax /\ outMax <= OutMax
      /\ r.output \in Int /\ r.integral \in -IntegralLimit .. IntegralLimit /\ r.pending \in BOOLEAN
  BY RegulatorAssumption DEF RegulatorState
<1>2. Update(r, error, bias, OutMin, outMax) =
        [output |-> output, integral |-> integral, pending |-> FALSE, last |-> "update",
         free |-> free, drift |-> drift]
  <2>1. (IF OutMin > OutMin THEN OutMin ELSE OutMin) = OutMin
    OBVIOUS
  <2>2. (IF outMax < OutMax THEN outMax ELSE OutMax) = outMax
    BY <1>1
  <2>3. (IF outMax < OutMin THEN OutMin ELSE outMax) = outMax
    BY <1>1
  <2> QED
    BY <2>1, <2>2, <2>3 DEF Update
<1>3. /\ Kp * error \in Int /\ Ki * error \in Int /\ drift \in Nat
      /\ error >= 0 => drift = Ki * error /\ Ki * error >= 0
      /\ error < 0 => drift = -(Ki * error) /\ Ki * error <= 0
  BY <1>1, Drifts
<1> DEFINE P == Kp * error
           Q == Ki * error
<1>4. P \in Int /\ Q \in Int
  BY <1>3
<1>5. carried \in -IntegralLimit .. IntegralLimit
      /\ (r.pending /\ r.output - P - bias \in -IntegralLimit .. IntegralLimit
            => carried = r.output - P - bias)
  <2>1. r.output - P - bias \in Int
    BY <1>1, <1>4
  <2>2. Integral(r.output - P - bias) \in -IntegralLimit .. IntegralLimit
    BY <2>1, IntegralInRange
  <2>3. r.output - P - bias \in -IntegralLimit .. IntegralLimit
            => Integral(r.output - P - bias) = r.output - P - bias
    BY <1>1, <2>1 DEF Integral, Clamp
  <2> QED
    BY <1>1, <2>2, <2>3 DEF Carried
<1> HIDE DEF carried
<1>6. /\ integral \in -IntegralLimit .. IntegralLimit
      /\ Q >= 0 => carried <= integral /\ integral <= carried + Q
      /\ Q <= 0 => carried + Q <= integral /\ integral <= carried
  <2>1. carried \in Int /\ carried + Q \in Int
    BY <1>1, <1>4, <1>5
  <2>2. /\ Integral(carried + Q) \in -IntegralLimit .. IntegralLimit
        /\ Q >= 0 => carried <= Integral(carried + Q) /\ Integral(carried + Q) <= carried + Q
        /\ Q <= 0 => carried + Q <= Integral(carried + Q) /\ Integral(carried + Q) <= carried
    <3> HIDE DEF Q
    <3>1. Integral(carried + Q) \in -IntegralLimit .. IntegralLimit
      BY <2>1, IntegralInRange
    <3> QED
      BY <1>1, <1>4, <1>5, <2>1, <3>1 DEF Integral, Clamp
  <2>3. integral = carried \/ integral = Integral(carried + Q)
    BY DEF Integrated
  <2> HIDE DEF Q, integral
  <2> QED
    BY <1>1, <1>4, <1>5, <2>1, <2>2, <2>3
<1> HIDE DEF integral
<1>7. target \in OutMin .. outMax /\ target \in Int
  <2>1. Kp * error + integral + bias \in Int
    BY <1>1, <1>3, <1>6
  <2>2. target \in OutMin .. outMax
    BY <1>1, <2>1, ClampInRange
  <2> QED
    BY <1>1, <2>2
<1>8. output \in OutMin .. outMax /\ output \in OutMin .. OutMax
  <2>1. Toward(r.output, target, RateUp, RateDown) \in Int
    BY <1>1, <1>7, TowardBetween
  <2> QED
    BY <1>1, <2>1, ClampInRange
<1>9. ASSUME r.pending, free PROVE output - r.output \in -drift .. drift
  <2>1. carried = r.output - P - bias /\ r.output \in OutMin .. outMax
    BY <1>5, <1>9
  <2>2. /\ Q >= 0 => r.output <= target /\ target <= r.output + Q
        /\ Q <= 0 => r.output + Q <= target /\ target <= r.output
    <3>1. target = Clamp(P + integral + bias, OutMin, outMax)
      OBVIOUS
    <3> HIDE DEF P, Q, target
    <3> QED
      BY <1>1, <1>4, <1>6, <2>1, <3>1 DEF Clamp
  <2>3. /\ Q >= 0 => output - r.output \in 0 .. Q
        /\ Q <= 0 => output - r.output \in Q .. 0
    <3> HIDE DEF P, Q, target
    <3> DEFINE moved == Toward(r.output, target, RateUp, RateDown)
    <3>1. /\ moved \in Int
          /\ r.output <= target => moved \in r.output .. target
          /\ target <= r.output => moved \in target .. r.output
      BY <1>1, <1>7, TowardBetween
    <3>2. output = Clamp(moved, OutMin, outMax)
      OBVIOUS
    <3> HIDE DEF moved, output
    <3> QED
      BY <1>1, <1>4, <1>7, <2>1, <2>2, <3>1, <3>2 DEF Clamp
  <2>4. output \in Int
    BY <1>1, <1>8
  <2> HIDE DEF output, drift, target
  <2>5. (Q >= 0 /\ drift = Q) \/ (Q <= 0 /\ drift = -Q)
    BY <1>3
  <2> HIDE DEF Q
  <2> QED
    BY <1>1, <1>3, <1>4, <2>3, <2>4, <2>5
<1>10. free \in BOOLEAN
  OBVIOUS
<1> HIDE DEF output, free, drift
<1>11. Update(r, error, bias, OutMin, outMax) \in RegulatorState
  BY <1>2, <1>3, <1>6, <1>8, <1>10 DEF RegulatorState
<1> QED
  BY <1>2, <1>9, <1>11

LEMMA TrackMarks ==
    ASSUME NEW r \in RegulatorState, NEW value \in OutMin .. OutMax
    PROVE  Track(r, value) \in RegulatorState /\ Track(r, value).pending
<1>1. value \in Int /\ OutMin \in Int /\ OutMax \in Int /\ OutMin <= OutMax
  BY RegulatorAssumption
<1>2. Clamp(value, OutMin, OutMax) \in OutMin .. OutMax
  BY <1>1, ClampInRange
<1>3. Integral(Clamp(value, OutMin, OutMax)) \in -IntegralLimit .. IntegralLimit
  BY <1>1, <1>2, IntegralInRange
<1> QED
  BY <1>2, <1>3 DEF Track, RegulatorState

LEMMA RegulatorStarts == RegulatorInit => RegulatorInv
<1>1. OutMin \in Int /\ OutMax \in Int /\ OutMin <= OutMax /\ IntegralLimit \in Nat
  BY RegulatorAssumption
<1>2. Clamp(0, OutMin, OutMax) \in OutMin .. OutMax /\ 0 \in -IntegralLimit .. IntegralLimit
  BY <1>1, ClampInRange
<1> QED
  BY <1>2 DEF RegulatorInit, NewRegulator, RegulatorInv, RegulatorTypeOK, RegulatorState

LEMMA RegulatorInductive == RegulatorInv /\ [RegulatorNext]_regulatorVars => RegulatorInv'
<1> SUFFICES ASSUME RegulatorInv, [RegulatorNext]_regulatorVars PROVE RegulatorInv'
  OBVIOUS
<1>0. /\ regulator \in RegulatorState
      /\ recorded \in [output : OutMin .. OutMax, integral : -IntegralLimit .. IntegralLimit]
  BY DEF RegulatorInv, RegulatorTypeOK
<1>1. CASE \E error \in Errors, bias \in Biases, outMax \in Limits : UpdateRegulator(error, bias, outMax)
  <2>1. PICK error \in Errors, bias \in Biases, outMax \in Limits : UpdateRegulator(error, bias, outMax)
    BY <1>1
  <2>2. error \in Int /\ bias \in Int /\ outMax \in OutMin .. OutMax
    BY RegulatorAssumption
  <2>3. regulator' = Update(regulator, error, bias, OutMin, outMax) /\ recorded' = recorded
    BY <2>1 DEF UpdateRegulator
  <2>4. regulator' \in RegulatorState /\ regulator'.last = "update"
    BY <1>0, <2>2, <2>3, UpdateSmooth
  <2> QED
    BY <1>0, <2>3, <2>4 DEF RegulatorInv, RegulatorTypeOK
<1>2. CASE \E value \in OutMin .. OutMax : TrackRegulator(value)
  <2>1. PICK value \in OutMin .. OutMax : TrackRegulator(value)
    BY <1>2
  <2>2. regulator' = Track(regulator, value) /\ recorded' = recorded
    BY <2>1 DEF TrackRegulator
  <2>3. regulator' \in RegulatorState /\ regulator'.pending
    BY <1>0, <2>2, TrackMarks
  <2> QED
    BY <1>0, <2>2, <2>3 DEF RegulatorInv, RegulatorTypeOK
<1>3. CASE StoreRegulator
  BY <1>0, <1>3 DEF StoreRegulator, RegulatorInv, RegulatorTypeOK, RegulatorState
<1>4. CASE RecallRegulator
  BY <1>0, <1>4 DEF RecallRegulator, Recall, RegulatorInv, RegulatorTypeOK, RegulatorState
<1>5. CASE UNCHANGED regulatorVars
  BY <1>5 DEF regulatorVars, RegulatorInv, RegulatorTypeOK
<1> QED
  BY <1>1, <1>2, <1>3, <1>4, <1>5 DEF RegulatorNext

(***************************************************************************)
(* Output and integral stay within their limits, for every gain, rate and  *)
(* limit, whatever is tracked, stored and recalled.                        *)
(***************************************************************************)
THEOREM RegulatorLimited == RegulatorSpec => []RegulatorTypeOK
<1>1. RegulatorInv => RegulatorTypeOK
  BY DEF RegulatorInv
<1> QED
  BY <1>1, RegulatorStarts, RegulatorInductive, PTL DEF RegulatorSpec

(***************************************************************************)
(* The first update after a track() is smooth, for every tuning.           *)
(***************************************************************************)
THEOREM HandsOverSmoothly == RegulatorSpec => Bumpless
<1> DEFINE Smooth == regulator.last = "track" /\ regulator'.last = "update" /\ regulator'.free
                       => regulator'.output - regulator.output \in -regulator'.drift .. regulator'.drift
<1>1. RegulatorInv /\ [RegulatorNext]_regulatorVars => [Smooth]_regulatorVars
  <2> SUFFICES ASSUME RegulatorInv, [RegulatorNext]_regulatorVars PROVE [Smooth]_regulatorVars
    OBVIOUS
  <2>0. regulator \in RegulatorState /\ (regulator.last = "track" => regulator.pending)
    BY DEF RegulatorInv, RegulatorTypeOK
  <2>1. CASE \E error \in Errors, bias \in Biases, outMax \in Limits : UpdateRegulator(error, bias, outMax)
    <3>1. PICK error \in Errors, bias \in Biases, outMax \in Limits : UpdateRegulator(error, bias, outMax)
      BY <2>1
    <3>2. error \in Int /\ bias \in Int /\ outMax \in OutMin .. OutMax
      BY RegulatorAssumption
    <3>3. regulator' = Update(regulator, error, bias, OutMin, outMax)
      BY <3>1 DEF UpdateRegulator
    <3> QED
      BY <2>0, <3>2, <3>3, UpdateSmooth
  <2>2. CASE \E value \in OutMin .. OutMax : TrackRegulator(value)
    BY <2>0, <2>2 DEF TrackRegulator, Track, RegulatorState
  <2>3. CASE StoreRegulator
    BY <2>3 DEF StoreRegulator
  <2>4. CASE RecallRegulator
    BY <2>0, <2>4 DEF RecallRegulator, Recall, RegulatorState
  <2>5. CASE UNCHANGED regulatorVars
    BY <2>5
  <2> QED
    BY <2>1, <2>2, <2>3, <2>4, <2>5 DEF RegulatorNext
<1> QED
  BY <1>1, RegulatorStarts, RegulatorInductive, PTL DEF RegulatorSpec, Bumpless

-----------------------------------------------------------------------------
(* The steam valve.  The two regulators follow each other, and while the   *)
(* actuator has power they are not ahead of the command.                   *)
Governing(v) ==
    /\ v \in ValveState
    /\ v.speedOut = v.loadOut
    /\ v.powered => v.speedOut <= v.command

LEMMA ValveRanges ==
    /\ Wide \in Nat \ {0} /\ StartupOpen \in Openings /\ 0 \in Openings /\ Wide \in Openings
    /\ \A x \in Openings : x \in Nat /\ x <= Wide
    /\ GovernorUp \in Nat /\ GovernorDown \in Nat /\ OpenRate \in Nat /\ CloseRate \in Nat
    /\ CloseDelay \in Nat
  BY SteamValveAssumption DEF Openings

(* A regulator rises by its rate at most.                                  *)
LEMMA GovernedRises ==
    ASSUME NEW output \in Openings, NEW target \in Openings, NEW high \in Openings
    PROVE  Governed(output, target, high) \in Openings
           /\ Governed(output, target, high) <= output + GovernorUp
  BY ValveRanges DEF Governed, Toward, Clamp, Openings

(* What the governor commands is what both regulators put out, and in auto *)
(* mode it is within a scan's rate of the regulators or of the valve.      *)
LEMMA GovernorRises ==
    ASSUME NEW v \in ValveState, v.speedOut = v.loadOut, NEW in \in ValveInputs
    PROVE  LET h == Governor(v, in)
           IN  /\ h \in ValveState /\ h.position = v.position
               /\ h.speedOut = h.loadOut /\ h.command = h.speedOut
               /\ in.auto => \/ h.command <= v.speedOut + GovernorUp
                             \/ h.command <= v.position + GovernorUp
<1>0. /\ v.speedOut \in Openings /\ v.loadOut \in Openings /\ v.position \in Openings
      /\ in.wish \in Openings /\ in.auto \in BOOLEAN
      /\ v.onLoad \in BOOLEAN
  BY DEF ValveState, ValveInputs
<1> DEFINE manual == IF in.yields THEN 0 ELSE in.wish
<1>1. CASE ~in.auto
  <2>1. manual \in Openings
    BY <1>0, ValveRanges
  <2>2. Governor(v, in) = [[Follow(v, manual) EXCEPT !.onLoad = FALSE] EXCEPT !.command = manual]
    BY <1>1 DEF Governor, Follow, ValveState
  <2> HIDE DEF manual
  <2> QED
    BY <1>1, <2>1, <2>2 DEF Follow, ValveState
<1>2. ASSUME in.auto, NEW from \in {v.speedOut, v.position}, NEW high \in Openings, NEW load \in BOOLEAN,
             Governor(v, in) =
                LET out == Governed(from, in.wish, high)
                IN  [[Follow(v, out) EXCEPT !.onLoad = load] EXCEPT !.command = out]
      PROVE  /\ Governor(v, in) \in ValveState /\ Governor(v, in).position = v.position
             /\ Governor(v, in).speedOut = Governor(v, in).loadOut
             /\ Governor(v, in).command = Governor(v, in).speedOut
             /\ \/ Governor(v, in).command <= v.speedOut + GovernorUp
                \/ Governor(v, in).command <= v.position + GovernorUp
  <2> DEFINE out == Governed(from, in.wish, high)
  <2>1. out \in Openings /\ out <= from + GovernorUp
    BY <1>0, <1>2, GovernedRises
  <2>2. Governor(v, in) = [[Follow(v, out) EXCEPT !.onLoad = load] EXCEPT !.command = out]
    BY <1>2
  <2> HIDE DEF out
  <2>3. /\ Governor(v, in) \in ValveState /\ Governor(v, in).position = v.position
        /\ Governor(v, in).speedOut = out /\ Governor(v, in).loadOut = out
        /\ Governor(v, in).command = out
    BY <1>2, <2>1, <2>2 DEF Follow, ValveState
  <2>4. out <= v.speedOut + GovernorUp \/ out <= v.position + GovernorUp
    BY <1>2, <2>1
  <2> QED
    BY <2>3, <2>4
<1>3. CASE in.auto /\ in.control = "grid"
  <2> DEFINE from == IF v.onLoad THEN v.loadOut ELSE v.position
             out == Governed(from, in.wish, Wide)
  <2>1. Governor(v, in) = [[Follow(v, out) EXCEPT !.onLoad = TRUE] EXCEPT !.command = out]
    BY <1>3 DEF Governor, LoadControl, Follow, ValveState
  <2>2. from \in {v.speedOut, v.position}
    OBVIOUS
  <2> HIDE DEF from
  <2> QED
    BY <1>2, <1>3, <2>1, <2>2, ValveRanges
<1>4. CASE in.auto /\ in.control # "grid"
  <2> DEFINE from == IF v.onLoad THEN v.position ELSE v.speedOut
             high == IF in.control = "run-up" THEN StartupOpen ELSE Wide
             out == Governed(from, in.wish, high)
  <2>1. Governor(v, in) = [[Follow(v, out) EXCEPT !.onLoad = FALSE] EXCEPT !.command = out]
    BY <1>4 DEF Governor, SpeedControl, Follow, ValveState
  <2>2. from \in {v.speedOut, v.position} /\ high \in Openings
    BY ValveRanges
  <2> HIDE DEF from, high
  <2> QED
    BY <1>2, <1>4, <2>1, <2>2
<1> QED
  BY <1>0, <1>1, <1>3, <1>4

(* The actuator moves the valve; without power it drops the command.       *)
LEMMA ActuatorKeeps ==
    ASSUME NEW v \in ValveState, NEW fault \in ValveFaults, NEW fast \in BOOLEAN
    PROVE  LET h == Actuate(v, fault, fast)
           IN  /\ h \in ValveState /\ h.speedOut = v.speedOut /\ h.loadOut = v.loadOut
               /\ h.command = IF fault = "ACTUATOR_POWER_LOSS" THEN 0 ELSE v.command
<1> DEFINE closing == IF fault = "ACTUATOR_POWER_LOSS" THEN CloseRate
                      ELSE IF fast THEN Wide ELSE CloseRate
           command == IF fault = "ACTUATOR_POWER_LOSS" THEN 0 ELSE v.command
           position ==
             CASE fault = "STUCK_OPEN"     -> Wide
               [] fault = "STUCK_CLOSED"   -> 0
               [] fault = "STUCK_POSITION" -> v.position
               [] fault = "FAIL_TO_CLOSE"  -> Toward(v.position, command, OpenRate, 0)
               [] OTHER -> Toward(v.position, command, OpenRate, closing)
           unclosed == IF command = 0 /\ position > 0 THEN Toward(v.unclosed, CloseDelay, 1, 0) ELSE 0
<1>1. Actuate(v, fault, fast) =
        [v EXCEPT !.command = command, !.position = position, !.unclosed = unclosed]
  BY DEF Actuate
<1>2. command \in Openings /\ v.position \in Openings /\ closing \in Nat
      /\ v.unclosed \in 0 .. CloseDelay
  BY ValveRanges DEF ValveState
<1> HIDE DEF closing
<1>3. ASSUME NEW down \in Nat PROVE Toward(v.position, command, OpenRate, down) \in Openings
  <2> HIDE DEF command
  <2> QED
    BY <1>2, ValveRanges DEF Toward, Openings
<1>4. position \in Openings
  BY <1>2, <1>3, ValveRanges
<1> HIDE DEF command, position
<1>5. unclosed \in 0 .. CloseDelay
  BY <1>2, ValveRanges DEF Toward
<1> HIDE DEF unclosed
<1>6. /\ Actuate(v, fault, fast) \in ValveState
      /\ Actuate(v, fault, fast).speedOut = v.speedOut
      /\ Actuate(v, fault, fast).loadOut = v.loadOut
      /\ Actuate(v, fault, fast).command = command
  BY <1>1, <1>2, <1>4, <1>5 DEF ValveState
<1> QED
  BY <1>6 DEF command

(* step(): what it commands is within a rate of where the regulators or    *)
(* the valve were, and the regulators are not ahead of it.                 *)
LEMMA ValveStepRises ==
    ASSUME NEW v \in ValveState, v.speedOut = v.loadOut, NEW in \in ValveInputs
    PROVE  LET h == ValveStep(v, in)
           IN  /\ h \in ValveState /\ h.speedOut = h.loadOut
               /\ in.fault # "ACTUATOR_POWER_LOSS" => h.speedOut <= h.command
               /\ in.auto => \/ h.command <= v.speedOut + GovernorUp
                             \/ h.command <= v.position + GovernorUp
<1> DEFINE fast == in.unsafe \/ v.phase = "TRIPPED"
           v1 == IF fast \/ v.phase \in {"OFF", "STOPPING"} THEN Shut(v) ELSE Governor(v, in)
           v2 == Actuate(v1, in.fault, fast)
<1>0. /\ v.speedOut \in Openings /\ v.position \in Openings
      /\ in.fault \in ValveFaults /\ fast \in BOOLEAN
  BY DEF ValveState, ValveInputs
<1>1. /\ v1 \in ValveState /\ v1.speedOut = v1.loadOut /\ v1.command = v1.speedOut
      /\ in.auto => v1.command <= v.speedOut + GovernorUp \/ v1.command <= v.position + GovernorUp
  <2>1. CASE fast \/ v.phase \in {"OFF", "STOPPING"}
    <3>1. v1 = [Follow(v, 0) EXCEPT !.command = 0, !.onLoad = FALSE]
      BY <2>1 DEF Shut
    <3>2. /\ v1 \in ValveState /\ v1.speedOut = 0 /\ v1.loadOut = 0 /\ v1.command = 0
      BY <3>1, ValveRanges DEF Follow, ValveState
    <3>3. v.speedOut \in Nat /\ GovernorUp \in Nat
      BY <1>0, ValveRanges
    <3> HIDE DEF v1
    <3> QED
      BY <3>2, <3>3
  <2>2. CASE ~(fast \/ v.phase \in {"OFF", "STOPPING"})
    <3>1. v1 = Governor(v, in)
      BY <2>2
    <3> HIDE DEF v1
    <3> QED
      BY <3>1, GovernorRises
  <2> QED
    BY <2>1, <2>2
<1> HIDE DEF v1, fast
<1>2. /\ v2 \in ValveState /\ v2.speedOut = v1.speedOut /\ v2.loadOut = v1.loadOut
      /\ v2.command = IF in.fault = "ACTUATOR_POWER_LOSS" THEN 0 ELSE v1.command
  BY <1>0, <1>1, ActuatorKeeps
<1>3. ValveStep(v, in) = IF v2.phase = "STOPPING" /\ v2.position = 0
                         THEN [v2 EXCEPT !.phase = "OFF"] ELSE v2
  BY DEF ValveStep, v1, fast
<1> HIDE DEF v2
<1>4. "OFF" \in Phases
  BY DEF Phases
<1>5. /\ ValveStep(v, in) \in ValveState
      /\ ValveStep(v, in).speedOut = v2.speedOut /\ ValveStep(v, in).loadOut = v2.loadOut
      /\ ValveStep(v, in).command = v2.command
  BY <1>2, <1>3, <1>4 DEF ValveState
<1>6. v1.command \in Nat /\ v.speedOut \in Nat /\ GovernorUp \in Nat
  BY <1>0, <1>1, ValveRanges DEF ValveState
<1>7. CASE in.fault = "ACTUATOR_POWER_LOSS"
  <2>1. v2.command = 0
    BY <1>2, <1>7
  <2>2. 0 <= v.speedOut + GovernorUp
    BY <1>6
  <2> QED
    BY <1>1, <1>2, <1>5, <1>7, <2>1, <2>2
<1>8. CASE in.fault # "ACTUATOR_POWER_LOSS"
  <2>1. v2.command = v1.command /\ v1.speedOut <= v1.command
    BY <1>1, <1>2, <1>6, <1>8
  <2> QED
    BY <1>1, <1>2, <1>5, <2>1
<1> QED
  BY <1>7, <1>8

LEMMA ValveScanRises ==
    ASSUME Governing(valve), NEW in \in ValveInputs, ValveScan(in)
    PROVE  /\ Governing(valve') /\ valve'.auto = in.auto
           /\ valve.powered /\ in.auto
                => \/ valve'.command <= valve.command + GovernorUp
                   \/ valve'.command <= valve.position + GovernorUp
<1> DEFINE v1 ==
        CASE in.command = "START" /\ valve.phase \notin Active \cup {"TRIPPED"} -> ValveOnStart(valve)
          [] in.command = "STOP"  /\ valve.phase \notin {"OFF", "TRIPPED"} -> ValveOnStop(valve)
          [] in.command = "RESET" /\ valve.phase = "TRIPPED" -> [valve EXCEPT !.phase = "OFF"]
          [] in.command = "TRIP"  -> ValveTripped(valve)
          [] OTHER -> valve
           v2 == IF in.yields THEN ValveYields(v1) ELSE v1
           v3 == ValveStep(v2, in)
           v4 == IF in.trips \/ v3.unclosed = CloseDelay THEN ValveTripped(v3) ELSE v3
           v5 == [v4 EXCEPT !.auto = in.auto, !.powered = in.fault # "ACTUATOR_POWER_LOSS"]
<1>0. /\ valve.phase \in Phases /\ {"OFF", "TRIPPED"} \subseteq Phases
      /\ OnStart("steam_valve", valve.phase) \in Phases /\ OnStop("steam_valve", valve.phase) \in Phases
  <2>1. valve.phase \in Phases /\ {"OFF", "TRIPPED"} \subseteq Phases /\ "steam_valve" \in DeviceKinds
    BY DEF Governing, ValveState, Phases, DeviceKinds
  <2> QED
    BY <2>1, PhasesClosed
<1>1. /\ v1 \in ValveState /\ v1.speedOut = v1.loadOut /\ v1.position = valve.position
      /\ v1.speedOut \in {0, valve.speedOut}
  BY <1>0, ValveRanges
  DEF ValveOnStart, ValveOnStop, ValveOnTrip, ValveTripped, Follow, Governing, ValveState
<1> HIDE DEF v1
<1>2. /\ v2 \in ValveState /\ v2.speedOut = v2.loadOut /\ v2.position = valve.position
      /\ v2.speedOut \in {0, valve.speedOut}
  BY <1>1, ValveRanges DEF ValveYields, Follow, ValveState
<1>3. valve' = v5
  BY DEF ValveScan, ValveCommanded, Starts, Stops, Resets, v1
<1> HIDE DEF v2
<1>4. /\ v3 \in ValveState /\ v3.speedOut = v3.loadOut
      /\ in.fault # "ACTUATOR_POWER_LOSS" => v3.speedOut <= v3.command
      /\ in.auto => \/ v3.command <= v2.speedOut + GovernorUp
                    \/ v3.command <= v2.position + GovernorUp
  BY <1>2, ValveStepRises
<1> HIDE DEF v3
<1>5. /\ v4 \in ValveState /\ v4.speedOut = v4.loadOut /\ v4.command = v3.command
      /\ v4.speedOut \in {0, v3.speedOut}
  BY <1>0, <1>4, ValveRanges DEF ValveTripped, ValveOnTrip, Follow, ValveState
<1> HIDE DEF v4
<1>6. /\ v5 \in ValveState /\ v5.speedOut = v4.speedOut /\ v5.loadOut = v4.loadOut
      /\ v5.command = v4.command /\ v5.auto = in.auto
      /\ v5.powered = (in.fault # "ACTUATOR_POWER_LOSS")
  BY <1>5 DEF ValveState, ValveInputs
<1> HIDE DEF v5
<1>7. v3.command \in Nat /\ valve.speedOut \in Nat /\ valve.command \in Nat /\ GovernorUp \in Nat
  BY <1>4, ValveRanges DEF Governing, ValveState
<1>8. Governing(valve')
  <2>1. ASSUME in.fault # "ACTUATOR_POWER_LOSS" PROVE v4.speedOut <= v3.command
    BY <1>4, <1>5, <1>7, <2>1
  <2>2. v5.powered => v5.speedOut <= v5.command
    BY <1>5, <1>6, <2>1
  <2>3. v5.speedOut = v5.loadOut
    BY <1>5, <1>6
  <2> QED
    BY <1>3, <1>6, <2>2, <2>3 DEF Governing
<1>9. ASSUME valve.powered, in.auto
      PROVE  \/ v3.command <= valve.command + GovernorUp
             \/ v3.command <= valve.position + GovernorUp
  <2>1. valve.speedOut <= valve.command
    BY <1>9 DEF Governing
  <2>2. v2.speedOut + GovernorUp <= valve.command + GovernorUp
    BY <1>2, <1>7, <2>1
  <2>3. v2.speedOut \in Nat
    BY <1>2, <1>7
  <2>4. v2.position = valve.position
    BY <1>2
  <2> QED
    BY <1>4, <1>7, <1>9, <2>2, <2>3, <2>4
<1> QED
  BY <1>3, <1>5, <1>6, <1>8, <1>9

LEMMA ValveStarts == ValveInit => Governing(valve)
<1>1. "OFF" \in Phases /\ 0 \in 0 .. CloseDelay
  BY ValveRanges DEF Phases
<1> QED
  BY <1>1, ValveRanges DEF ValveInit, NewValve, Governing, ValveState

LEMMA ValveInductive == Governing(valve) /\ [ValveNext]_valve => Governing(valve)'
<1> SUFFICES ASSUME Governing(valve), [ValveNext]_valve PROVE Governing(valve)'
  OBVIOUS
<1>1. CASE ValveNext
  BY <1>1, ValveScanRises DEF ValveNext
<1>2. CASE UNCHANGED valve
  BY <1>2
<1> QED
  BY <1>1, <1>2

(***************************************************************************)
(* The state of the steam valve's program keeps its type.                  *)
(***************************************************************************)
THEOREM ValveTyped == ValveSpec => []ValveTypeOK
<1>1. Governing(valve) => ValveTypeOK
  BY DEF Governing, ValveTypeOK
<1> QED
  BY <1>1, ValveStarts, ValveInductive, PTL DEF ValveSpec

(***************************************************************************)
(* The governor never makes the valve jump open, for every rate, limit and *)
(* delay.                                                                  *)
(***************************************************************************)
THEOREM OpensGradually == ValveSpec => NoJumpOpen
<1> DEFINE Gradual == valve.powered /\ valve.auto /\ valve'.auto
                        => \/ valve'.command =< valve.command + GovernorUp
                           \/ valve'.command =< valve.position + GovernorUp
<1>1. Governing(valve) /\ [ValveNext]_valve => [Gradual]_valve
  BY ValveScanRises DEF ValveNext
<1> QED
  BY <1>1, ValveStarts, ValveInductive, PTL DEF ValveSpec, NoJumpOpen

-----------------------------------------------------------------------------
(* All the units side by side: whichever moves, each behaves as its own    *)
(* specification says.                                                     *)
LEMMA GatewayStands == gw = NewGateway([group \in Groups |-> 0]) => GatewayInit
<1>1. [group \in Groups |-> 0] \in [Groups -> 0 .. Period - 1]
  BY GatewayFacts
<1> QED
  BY <1>1 DEF GatewayInit

LEMMA UnitsStart ==
    Init => /\ GeneratorInit /\ BoilerInit /\ RegulatorInit /\ ValveInit /\ PumpInit /\ GatewayInit
            /\ ResetLinkInit /\ SignalsInit /\ FaultsInit /\ AlarmsInit /\ SupervisionInit
BY GatewayStands DEF Init

LEMMA UnitsMove ==
    [Next]_vars => /\ [GeneratorNext]_gen /\ [BoilerNext]_boiler /\ [RegulatorNext]_regulatorVars
                   /\ [ValveNext]_valve /\ [PumpNext]_pump /\ [GatewayNext]_gw
                   /\ [ResetLinkNext]_resetVars /\ [SignalsNext]_signalVars
                   /\ [FaultsNext]_device /\ [AlarmsNext]_alarmVars /\ [SupervisionNext]_watch
BY Zenon DEF Next, vars

LEMMA UnitsOfSpec ==
    Spec => /\ GeneratorSpec /\ BoilerSpec /\ RegulatorSpec /\ ValveSpec /\ PumpSpec /\ GatewaySpec
            /\ ResetLinkSpec /\ SignalsSpec /\ FaultsSpec /\ AlarmsSpec /\ SupervisionSpec
BY UnitsStart, UnitsMove, PTL
   DEF Spec, GeneratorSpec, BoilerSpec, RegulatorSpec, ValveSpec, PumpSpec, GatewaySpec,
       ResetLinkSpec, SignalsSpec, FaultsSpec, AlarmsSpec, SupervisionSpec

(***************************************************************************)
(* No counter, timer, output, integral or register of any unit leaves the  *)
(* range that the code limits it to.                                       *)
(***************************************************************************)
THEOREM UnitsTyped == Spec => []TypeOK
<1>1. Spec => /\ []GeneratorTypeOK /\ []BoilerTypeOK /\ []RegulatorTypeOK /\ []ValveTypeOK
              /\ []PumpTypeOK /\ []GatewayTypeOK /\ []ResetLinkTypeOK /\ []SignalsTypeOK
              /\ []FaultsTypeOK /\ []AlarmsTypeOK /\ []SupervisionTypeOK
  BY UnitsOfSpec, LinksTyped, GeneratorTyped, BoilerTyped, RegulatorLimited, ValveTyped, PumpTyped, PTL
<1>2. /\ GeneratorTypeOK /\ BoilerTypeOK /\ RegulatorTypeOK /\ ValveTypeOK /\ PumpTypeOK
      /\ GatewayTypeOK /\ ResetLinkTypeOK /\ SignalsTypeOK /\ FaultsTypeOK /\ AlarmsTypeOK
      /\ SupervisionTypeOK
      => TypeOK
  BY DEF TypeOK
<1> QED
  BY <1>1, <1>2, PTL
===============================================================================
