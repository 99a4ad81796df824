----------------------------- MODULE StopProofs -----------------------------
(***************************************************************************)
(* Proofs that an operator's STOP holds, for every number of protections,  *)
(* every delay, every policy and every device program but the turbine's    *)
(* (whose physics takes it from OFF to STARTING on steam alone: that       *)
(* program does break the property).  The restarts are those of            *)
(* DurableDevice.                                                          *)
(*                                                                         *)
(* The stages of a scan are gone through one by one, as in DeviceProofs: a *)
(* stage without a START forgets no STOP and sets no stopped device in     *)
(* motion (Remembers).  In the same way: what does set one in motion.      *)
(***************************************************************************)
EXTENDS DurableProofs

Remembers(d, r) ==
    d.operatorStop => r.operatorStop /\ (d.phase \notin Active => r.phase \notin Active)

LEMMA RemembersTransitive ==
    ASSUME NEW d, NEW r, NEW s, Remembers(d, r), Remembers(r, s)
    PROVE  Remembers(d, s)
BY DEF Remembers

LEMMA SameStop ==
    ASSUME NEW d, NEW r, r.operatorStop = d.operatorStop, r.phase = d.phase
    PROVE  Remembers(d, r)
BY DEF Remembers

LEMMA AtRest ==
    ASSUME Kind # "turbine", NEW s \in Phases \ Active, NEW moved \in BOOLEAN
    PROVE  PhysicsStep(Kind, s, moved) \notin Active
<1>1. s \in {"OFF", "STOPPING", "TRIPPED"}
  BY DEF Phases, Active
<1>2. PhysicsTarget(Kind, s) \in {s, "OFF"}
  BY <1>1 DEF PhysicsTarget
<1>3. "OFF" \notin Active
  BY DEF Active, Starting
<1> QED
  BY <1>2, <1>3 DEF PhysicsStep, To

LEMMA StopStays ==
    ASSUME NEW s \in Phases \ Active
    PROVE  OnStop(Kind, s) \notin Active
BY DEF OnStop, To, Phases, Active, Starting

-----------------------------------------------------------------------------
(* The stages.                                                             *)

LEMMA TripByStops ==
    ASSUME NEW d \in DeviceState, NEW c
    PROVE  Remembers(d, TripBy(d, c))
<1>1. TripBy(d, c).phase = "TRIPPED" /\ TripBy(d, c).operatorStop = d.operatorStop
  BY DEF TripBy, DeviceState
<1>2. "TRIPPED" \notin Active
  BY DEF Active, Starting
<1> QED
  BY <1>1, <1>2 DEF Remembers

LEMMA DrainStops ==
    ASSUME NEW d \in DeviceState, NEW q
    PROVE  Remembers(d, Drain(d, q))
<1>1. Drain(d, q).operatorStop = d.operatorStop /\ Drain(d, q).phase = d.phase
  BY DEF Drain, DeviceState
<1> QED
  BY <1>1, SameStop

LEMMA HandleStopStops ==
    ASSUME NEW d \in DeviceState
    PROVE  Remembers(d, HandleStop(d))
<1>1. /\ HandleStop(d).operatorStop = TRUE
      /\ HandleStop(d).phase = IF d.phase \in {"OFF", "TRIPPED"} THEN d.phase ELSE OnStop(Kind, d.phase)
  BY DEF HandleStop, DeviceState
<1>2. d.phase \in Phases
  BY DEF DeviceState
<1> QED
  BY <1>1, <1>2, StopStays DEF Remembers

LEMMA HandleResetStops ==
    ASSUME NEW d \in DeviceState
    PROVE  Remembers(d, HandleReset(d))
<1>1. CASE ~MayReset(d)
  BY <1>1, SameStop DEF HandleReset
<1>2. CASE MayReset(d)
  <2>1. /\ HandleReset(d).operatorStop = d.operatorStop
        /\ HandleReset(d).phase = IF Tripped(d) THEN "OFF" ELSE d.phase
    BY <1>2 DEF HandleReset, DeviceState
  <2>2. "OFF" \notin Active
    BY DEF Active, Starting
  <2> QED
    BY <2>1, <2>2 DEF Remembers
<1> QED
  BY <1>1, <1>2

LEMMA ReflexiveStop ==
    ASSUME NEW d
    PROVE  Remembers(d, d)
BY DEF Remembers

LEMMA LastCommandsStop ==
    ASSUME NEW d \in DeviceState
    PROVE  /\ Remembers(d, HandleTripTest(d))
           /\ Remembers(d, HandleEstop(d))
           /\ Remembers(d, NoteWatchdog(d))
<1>1. Remembers(d, HandleTripTest(d)) /\ Remembers(d, HandleEstop(d))
  BY TripByStops, ReflexiveStop DEF HandleTripTest, HandleEstop
<1>2. /\ NoteWatchdog(d).operatorStop = d.operatorStop
      /\ NoteWatchdog(d).phase = d.phase
  BY DEF NoteWatchdog, DeviceState
<1> QED
  BY <1>1, <1>2, SameStop

LEMMA CommStops ==
    ASSUME NEW d \in DeviceState
    PROVE  Remembers(d, UpdateCommStatus(d))
<1> DEFINE aged == [d EXCEPT !.wdAge = Saturate(d.wdAge, WatchdogTimeout)]
           loss == IF WatchdogOk(aged) THEN 0 ELSE Saturate(d.commLoss, CommHold)
           next == [aged EXCEPT !.commLoss = loss]
<1>1. /\ Saturate(d.wdAge, WatchdogTimeout) \in Nat
      /\ loss \in Nat
  BY DeviceAssumption DEF DeviceState, Saturate, DeviceAssumption
<1>2. aged \in DeviceState /\ aged.operatorStop = d.operatorStop /\ aged.phase = d.phase
  BY <1>1 DEF DeviceState
<1> HIDE DEF aged, loss
<1>3. next \in DeviceState /\ next.operatorStop = d.operatorStop /\ next.phase = d.phase
  BY <1>1, <1>2 DEF DeviceState
<1> HIDE DEF next
<1>4. UpdateCommStatus(d) \in {next, TripBy(next, COMM)}
  BY DEF UpdateCommStatus, next, loss, aged
<1> QED
  BY <1>3, <1>4, SameStop, TripByStops, RemembersTransitive

(* The self hold leaves a device alone that an operator has stopped.       *)
LEMMA SelfHoldStops ==
    ASSUME NEW d \in DeviceState, NEW in \in ScanInputs
    PROVE  Remembers(d, SelfHoldStep(d, in))
<1> SUFFICES ASSUME d.operatorStop PROVE Remembers(d, SelfHoldStep(d, in))
  BY DEF Remembers
<1>2. SelfHoldStep(d, in) \in
        {d, [d EXCEPT !.permTimer = 0, !.stopTimer = 0], [d EXCEPT !.permTimer = 0]}
  BY DEF SelfHoldStep
<1>3. /\ [d EXCEPT !.permTimer = 0, !.stopTimer = 0].operatorStop = d.operatorStop
      /\ [d EXCEPT !.permTimer = 0, !.stopTimer = 0].phase = d.phase
      /\ [d EXCEPT !.permTimer = 0].operatorStop = d.operatorStop
      /\ [d EXCEPT !.permTimer = 0].phase = d.phase
  BY DEF DeviceState
<1> QED
  BY <1>2, <1>3, SameStop

LEMMA PhysicsStops ==
    ASSUME Kind # "turbine", NEW d \in DeviceState, NEW in \in ScanInputs
    PROVE  Remembers(d, Physics(d, in))
<1>1. /\ Physics(d, in).operatorStop = d.operatorStop
      /\ Physics(d, in).phase = PhysicsStep(Kind, d.phase, in.moved)
      /\ d.phase \in Phases /\ in.moved \in BOOLEAN
  BY DEF Physics, DeviceState, ScanInputs
<1> QED
  BY <1>1, AtRest DEF Remembers

LEMMA ProtectStops ==
    ASSUME NEW d \in DeviceState, NEW in
    PROVE  /\ Remembers(d, Protect(d, in))
           /\ Remembers(d, UpdateManual(d))
<1>1. /\ Protect(d, in).operatorStop = d.operatorStop
      /\ Protect(d, in).phase = IF NewTrips(d.prot, in.zone) # {} THEN "TRIPPED" ELSE d.phase
      /\ UpdateManual(d).operatorStop = d.operatorStop
      /\ UpdateManual(d).phase = d.phase
  BY DEF Protect, UpdateManual, DeviceState
<1>2. "TRIPPED" \notin Active
  BY DEF Active, Starting
<1> QED
  BY <1>1, <1>2, SameStop DEF Remembers

-----------------------------------------------------------------------------
LEMMA CommandsStop ==
    ASSUME NEW d, Sound(d), NEW q \in [Regs -> WordOrNone], NEW in \in ScanInputs,
           ~Pulsed(q, "START")
    PROVE  Remembers(d, ApplyCommands(d, q, in))
<1> DEFINE d0 == Drain(d, q)
           d2 == IF Pulsed(q, "STOP")       THEN HandleStop(d0)     ELSE d0
           d3 == IF Pulsed(q, "RESET_TRIP") THEN HandleReset(d2)    ELSE d2
           d4 == IF Pulsed(q, "TRIP_TEST")  THEN HandleTripTest(d3) ELSE d3
           d5 == HandleEstop(d4)
<1>0. ApplyCommands(d, q, in) = NoteWatchdog(d5)
  BY Zenon DEF ApplyCommands
<1>1. Sound(d0) /\ Remembers(d, d0)
  BY DrainSound, DrainStops DEF Sound
<1> HIDE DEF d0
<1>2. Sound(d2) /\ Remembers(d0, d2)
  BY <1>1, HandleStopSound, HandleStopStops, ReflexiveStop DEF Continues, Sound
<1> HIDE DEF d2
<1>3. Sound(d3) /\ Remembers(d2, d3)
  BY <1>2, HandleResetSound, HandleResetStops, ReflexiveStop DEF Sound
<1> HIDE DEF d3
<1>4. Sound(d4) /\ Remembers(d3, d4)
  BY <1>3, HandleTripTestSound, LastCommandsStop, ReflexiveStop DEF Continues, Sound
<1> HIDE DEF d4
<1>5. Sound(d5) /\ Remembers(d4, d5)
  BY <1>4, HandleEstopSound, LastCommandsStop DEF Continues, Sound
<1> HIDE DEF d5
<1>6. Remembers(d5, NoteWatchdog(d5))
  BY <1>5, LastCommandsStop DEF Sound
<1> QED
  BY <1>0, <1>1, <1>2, <1>3, <1>4, <1>5, <1>6, RemembersTransitive

LEMMA ScanStops ==
    ASSUME Kind # "turbine", Sound(dev), pending \in [Regs -> WordOrNone],
           NEW in \in Inputs, Scan(in), ~Pulsed(pending, "START")
    PROVE  Remembers(dev, dev')
<1> DEFINE c == ApplyCommands(dev, pending, in)
           u == UpdateCommStatus(c)
           h == SelfHoldStep(u, in)
           y == Physics(h, in)
           p == Protect(y, in)
<1>0. in \in ScanInputs
  BY DeviceAssumption DEF DeviceAssumption
<1>1. dev' = UpdateManual(p)
  BY Zenon DEF Scan
<1>2. Sound(c) /\ Remembers(dev, c)
  BY <1>0, ApplyCommandsSound, CommandsStop
<1> HIDE DEF c
<1>3. Sound(u) /\ Remembers(c, u)
  BY <1>2, UpdateCommSound, CommStops DEF Continues, Sound
<1> HIDE DEF u
<1>4. Sound(h) /\ Remembers(u, h)
  BY <1>0, <1>3, SelfHoldSound, SelfHoldStops DEF Continues, Sound
<1> HIDE DEF h
<1>5. Sound(y) /\ Remembers(h, y)
  BY <1>0, <1>4, PhysicsSound, PhysicsStops DEF Continues, Sound
<1> HIDE DEF y
<1>6. Sound(p) /\ Remembers(y, p)
  BY <1>0, <1>5, ProtectSound, ProtectStops DEF Continues, Sound
<1> HIDE DEF p
<1>7. Remembers(p, dev')
  BY <1>1, <1>6, ProtectStops DEF Sound
<1> QED
  BY <1>2, <1>3, <1>4, <1>5, <1>6, <1>7, RemembersTransitive

LEMMA StepStops ==
    ASSUME Kind # "turbine", Sound(dev), pending \in [Regs -> WordOrNone], [Next]_vars,
           ~Pulsed(pending, "START")
    PROVE  Remembers(dev, dev')
<1>1. ASSUME NEW w \in Writes, Write(w) PROVE dev' = dev
  BY <1>1 DEF Write
<1>2. ASSUME NEW in \in Inputs, Scan(in) PROVE Remembers(dev, dev')
  BY <1>2, ScanStops
<1>3. UNCHANGED vars => dev' = dev
  BY DEF vars
<1> QED
  BY <1>1, <1>2, <1>3, ReflexiveStop DEF Next

(***************************************************************************)
(* After an operator's STOP no scan sets the device in motion before a     *)
(* START is applied, in every device program but the turbine's.            *)
(***************************************************************************)
THEOREM StopHolds ==
    ASSUME Kind # "turbine"
    PROVE  Spec => StopHoldsUntilStart
<1>1. IInv /\ [Next]_vars =>
        [ /\ dev.operatorStop /\ dev.phase \notin Active /\ dev'.phase \in Active
          => Pulsed(pending, "START") ]_vars
  BY StepStops DEF IInv, TypeOK, LatchConsistent, Sound, Remembers
<1> QED
  BY <1>1, Invariance, PTL DEF Spec, StopHoldsUntilStart

-----------------------------------------------------------------------------
(* What may set a device in motion.  The stages again: none but START and  *)
(* the self hold does it (AddsNoStart), and both look at the mode and at   *)
(* the permissives first.                                                  *)

AddsNoStart(d, r) ==
    /\ r.phase \in Active => d.phase \in Active
    /\ r.reg = d.reg

Started(q, d, in) ==
    d.phase \in Active => ~Maintenance(d) /\ Pulsed(q, "START") /\ in.startPermit
Allowed(q, d, in) ==
    d.phase \in Active => /\ ~Maintenance(d)
                          /\ \/ Pulsed(q, "START") /\ in.startPermit
                             \/ in.permit /\ in.needed

LEMMA StillStarted ==
    ASSUME NEW q, NEW d, NEW r, NEW in, AddsNoStart(d, r)
    PROVE  (Started(q, d, in) => Started(q, r, in)) /\ (Allowed(q, d, in) => Allowed(q, r, in))
BY DEF AddsNoStart, Started, Allowed, Maintenance

LEMMA NothingAdded ==
    ASSUME NEW d
    PROVE  AddsNoStart(d, d)
BY DEF AddsNoStart

LEMMA TripAddsNone ==
    ASSUME NEW d \in DeviceState, NEW c
    PROVE  AddsNoStart(d, TripBy(d, c))
<1>1. /\ TripBy(d, c).phase = "TRIPPED" /\ TripBy(d, c).reg = d.reg
  BY DEF TripBy, DeviceState
<1>2. "TRIPPED" \notin Active
  BY DEF Active, Starting
<1> QED
  BY <1>1, <1>2 DEF AddsNoStart

LEMMA CommandsAddNone ==
    ASSUME NEW d \in DeviceState
    PROVE  /\ AddsNoStart(d, HandleStop(d))
           /\ AddsNoStart(d, HandleReset(d))
           /\ AddsNoStart(d, HandleTripTest(d))
           /\ AddsNoStart(d, HandleEstop(d))
           /\ AddsNoStart(d, NoteWatchdog(d))
<1>1. d.phase \in Phases
  BY DEF DeviceState
<1>2. AddsNoStart(d, HandleStop(d))
  <2>1. /\ HandleStop(d).reg = d.reg
        /\ HandleStop(d).phase = IF d.phase \in {"OFF", "TRIPPED"} THEN d.phase
                                                                   ELSE OnStop(Kind, d.phase)
    BY DEF HandleStop, DeviceState
  <2> QED
    BY <1>1, <2>1, StopStays DEF AddsNoStart
<1>3. AddsNoStart(d, HandleReset(d))
  <2>1. CASE ~MayReset(d)
    BY <2>1, NothingAdded DEF HandleReset
  <2>2. CASE MayReset(d)
    <3>1. /\ HandleReset(d).reg = d.reg
          /\ HandleReset(d).phase = IF Tripped(d) THEN "OFF" ELSE d.phase
      BY <2>2 DEF HandleReset, DeviceState
    <3>2. "OFF" \notin Active
      BY DEF Active, Starting
    <3> QED
      BY <3>1, <3>2 DEF AddsNoStart
  <2> QED
    BY <2>1, <2>2
<1>4. AddsNoStart(d, HandleTripTest(d)) /\ AddsNoStart(d, HandleEstop(d))
  BY TripAddsNone, NothingAdded DEF HandleTripTest, HandleEstop
<1>5. AddsNoStart(d, NoteWatchdog(d))
  <2>1. /\ NoteWatchdog(d).phase = d.phase /\ NoteWatchdog(d).reg = d.reg
    BY DEF NoteWatchdog, DeviceState
  <2> QED
    BY <2>1 DEF AddsNoStart
<1> QED
  BY <1>2, <1>3, <1>4, <1>5

LEMMA CommAddsNone ==
    ASSUME NEW d \in DeviceState
    PROVE  AddsNoStart(d, UpdateCommStatus(d))
<1> DEFINE aged == [d EXCEPT !.wdAge = Saturate(d.wdAge, WatchdogTimeout)]
           loss == IF WatchdogOk(aged) THEN 0 ELSE Saturate(d.commLoss, CommHold)
           next == [aged EXCEPT !.commLoss = loss]
<1>1. /\ Saturate(d.wdAge, WatchdogTimeout) \in Nat
      /\ loss \in Nat
  BY DeviceAssumption DEF DeviceState, Saturate, DeviceAssumption
<1>2. /\ aged \in DeviceState /\ aged.phase = d.phase /\ aged.reg = d.reg
  BY <1>1 DEF DeviceState
<1> HIDE DEF aged, loss
<1>3. /\ next \in DeviceState /\ next.phase = d.phase /\ next.reg = d.reg
  BY <1>1, <1>2 DEF DeviceState
<1> HIDE DEF next
<1>4. UpdateCommStatus(d) \in {next, TripBy(next, COMM)}
  BY DEF UpdateCommStatus, next, loss, aged
<1>5. AddsNoStart(next, TripBy(next, COMM))
  BY <1>3, TripAddsNone
<1> QED
  BY <1>3, <1>4, <1>5 DEF AddsNoStart

LEMMA ProcessAddsNone ==
    ASSUME Kind # "turbine", NEW d \in DeviceState, NEW in \in ScanInputs
    PROVE  /\ AddsNoStart(d, Physics(d, in))
           /\ AddsNoStart(d, Protect(d, in))
           /\ AddsNoStart(d, UpdateManual(d))
<1>1. /\ Physics(d, in).phase = PhysicsStep(Kind, d.phase, in.moved)
      /\ Physics(d, in).reg = d.reg
      /\ d.phase \in Phases /\ in.moved \in BOOLEAN
  BY DEF Physics, DeviceState, ScanInputs
<1>2. /\ Protect(d, in).phase = IF NewTrips(d.prot, in.zone) # {} THEN "TRIPPED" ELSE d.phase
      /\ Protect(d, in).reg = d.reg
      /\ UpdateManual(d).phase = d.phase /\ UpdateManual(d).reg = d.reg
  BY DEF Protect, UpdateManual, DeviceState
<1>3. "TRIPPED" \notin Active
  BY DEF Active, Starting
<1> QED
  BY <1>1, <1>2, <1>3, AtRest DEF AddsNoStart

\* START looks at the mode.
LEMMA StartStarts ==
    ASSUME NEW d \in DeviceState, d.phase \notin Active, NEW q, Pulsed(q, "START"),
           NEW in \in ScanInputs
    PROVE  Started(q, HandleStart(d, in), in)
<1>1. /\ HandleStart(d, in).phase =
             IF MayStart(d, in) /\ d.phase \notin Active THEN OnStart(Kind, d.phase) ELSE d.phase
      /\ HandleStart(d, in).reg = d.reg
  BY DEF HandleStart, DeviceState
<1> QED
  BY <1>1 DEF Started, MayStart, Maintenance

\* The self hold looks at the mode, at the permissives and at the need.
LEMMA HoldStarts ==
    ASSUME NEW d \in DeviceState, NEW in \in ScanInputs, NEW q, Started(q, d, in)
    PROVE  Allowed(q, SelfHoldStep(d, in), in)
<1> DEFINE r == SelfHoldStep(d, in)
<1>1. Allowed(q, d, in)
  BY DEF Started, Allowed
<1>2. \/ r \in {d, [d EXCEPT !.permTimer = 0, !.stopTimer = 0], [d EXCEPT !.permTimer = 0],
                [d EXCEPT !.stopTimer = 0]}
      \/ d.phase \in Active /\ r = HoldRunning(d, in)
      \/ ~Maintenance(d) /\ r = HoldStopped(d, in)
  BY Zenon DEF SelfHoldStep
<1> HIDE DEF r
<1>3. CASE r \in {d, [d EXCEPT !.permTimer = 0, !.stopTimer = 0], [d EXCEPT !.permTimer = 0],
                  [d EXCEPT !.stopTimer = 0]}
  <2>1. r.phase = d.phase /\ r.reg = d.reg
    BY <1>3 DEF DeviceState
  <2> QED
    BY <1>1, <2>1 DEF Allowed, Maintenance, r
<1>4. CASE d.phase \in Active /\ r = HoldRunning(d, in)
  <2>1. r.reg = d.reg
    BY <1>4 DEF HoldRunning, DeviceState
  <2>2. ~Maintenance(d) /\ Pulsed(q, "START") /\ in.startPermit
    BY <1>4 DEF Started
  <2> QED
    BY <2>1, <2>2 DEF Allowed, Maintenance, r
<1>5. CASE ~Maintenance(d) /\ r = HoldStopped(d, in)
  <2> DEFINE go == in.permit /\ in.needed /\ d.permTimer + 1 >= SelfStartDelay
  <2>1. r.reg = d.reg /\ (~go => r.phase = d.phase)
    BY <1>5 DEF HoldStopped, DeviceState
  <2>2. CASE go
    BY <1>5, <2>1, <2>2 DEF Allowed, Maintenance, r
  <2>3. CASE ~go
    <3>1. r.phase = d.phase
      BY <2>1, <2>3
    <3> QED
      BY <1>1, <2>1, <3>1 DEF Allowed, Maintenance, r
  <2> QED
    BY <2>2, <2>3
<1> QED
  BY <1>2, <1>3, <1>4, <1>5

LEMMA CommandsStart ==
    ASSUME NEW d, Sound(d), d.phase \notin Active, NEW q \in [Regs -> WordOrNone],
           NEW in \in ScanInputs
    PROVE  Started(q, ApplyCommands(d, q, in), in)
<1> DEFINE d0 == Drain(d, q)
           d1 == IF Pulsed(q, "START")      THEN HandleStart(d0, in) ELSE d0
           d2 == IF Pulsed(q, "STOP")       THEN HandleStop(d1)     ELSE d1
           d3 == IF Pulsed(q, "RESET_TRIP") THEN HandleReset(d2)    ELSE d2
           d4 == IF Pulsed(q, "TRIP_TEST")  THEN HandleTripTest(d3) ELSE d3
           d5 == HandleEstop(d4)
<1>0. ApplyCommands(d, q, in) = NoteWatchdog(d5)
  BY Zenon DEF ApplyCommands
<1>1. Sound(d0) /\ d0.phase \notin Active
  <2>1. Drain(d, q).phase = d.phase
    BY DEF Drain, Sound, DeviceState
  <2> QED
    BY <2>1, DrainSound
<1> HIDE DEF d0
<1>2. Sound(d1) /\ Started(q, d1, in)
  <2>1. CASE Pulsed(q, "START")
    BY <1>1, <2>1, HandleStartSound, StartStarts DEF Continues, Sound
  <2>2. CASE ~Pulsed(q, "START")
    BY <1>1, <2>2 DEF Started
  <2> QED
    BY <2>1, <2>2
<1> HIDE DEF d1
<1>3. Sound(d2) /\ Started(q, d2, in)
  BY <1>2, HandleStopSound, CommandsAddNone, StillStarted DEF Continues, Sound
<1> HIDE DEF d2
<1>4. Sound(d3) /\ Started(q, d3, in)
  BY <1>3, HandleResetSound, CommandsAddNone, StillStarted DEF Sound
<1> HIDE DEF d3
<1>5. Sound(d4) /\ Started(q, d4, in)
  BY <1>4, HandleTripTestSound, CommandsAddNone, StillStarted DEF Continues, Sound
<1> HIDE DEF d4
<1>6. Sound(d5) /\ Started(q, d5, in)
  BY <1>5, HandleEstopSound, CommandsAddNone, StillStarted DEF Continues, Sound
<1> HIDE DEF d5
<1> QED
  BY <1>0, <1>6, CommandsAddNone, StillStarted DEF Sound

LEMMA ScanStarts ==
    ASSUME Kind # "turbine", Sound(dev), pending \in [Regs -> WordOrNone],
           NEW in \in Inputs, Scan(in), dev.phase \notin Active
    PROVE  Allowed(pending, dev', in)
<1> DEFINE c == ApplyCommands(dev, pending, in)
           u == UpdateCommStatus(c)
           h == SelfHoldStep(u, in)
           y == Physics(h, in)
           p == Protect(y, in)
<1>0. in \in ScanInputs
  BY DeviceAssumption DEF DeviceAssumption
<1>1. dev' = UpdateManual(p)
  BY Zenon DEF Scan
<1>2. Sound(c) /\ Started(pending, c, in)
  BY <1>0, ApplyCommandsSound, CommandsStart
<1> HIDE DEF c
<1>3. Sound(u) /\ Started(pending, u, in)
  BY <1>2, UpdateCommSound, CommAddsNone, StillStarted DEF Continues, Sound
<1> HIDE DEF u
<1>4. Sound(h) /\ Allowed(pending, h, in)
  BY <1>0, <1>3, SelfHoldSound, HoldStarts DEF Continues, Sound
<1> HIDE DEF h
<1>5. Sound(y) /\ Allowed(pending, y, in)
  BY <1>0, <1>4, PhysicsSound, ProcessAddsNone, StillStarted DEF Continues, Sound
<1> HIDE DEF y
<1>6. Sound(p) /\ Allowed(pending, p, in)
  BY <1>0, <1>5, ProtectSound, ProcessAddsNone, StillStarted DEF Continues, Sound
<1> HIDE DEF p
<1> QED
  BY <1>0, <1>1, <1>6, ProcessAddsNone, StillStarted DEF Sound

(***************************************************************************)
(* Nothing puts a stopped device in motion in maintenance mode, tripped,   *)
(* under emergency stop or in a scan whose permissives fail whoever asks   *)
(* for them, in every device program but the turbine's.                    *)
(***************************************************************************)
THEOREM StartsAllowed ==
    ASSUME Kind # "turbine"
    PROVE  Spec => StartsOnlyWhenAllowed
<1> DEFINE Start(in) == /\ dev.phase \notin Active
                        /\ dev'.phase \in Active
                        /\ Scan(in)
                        => /\ ~Maintenance(dev')
                           /\ ~Estop(dev')
                           /\ dev'.prot.latched = {}
                           /\ \/ Pulsed(pending, "START") /\ in.startPermit
                              \/ in.permit /\ in.needed
<1>1. ASSUME IInv, IInv', NEW in \in Inputs PROVE Start(in)
  <2> SUFFICES ASSUME dev.phase \notin Active, dev'.phase \in Active, Scan(in)
               PROVE  /\ ~Maintenance(dev') /\ ~Estop(dev') /\ dev'.prot.latched = {}
                      /\ \/ Pulsed(pending, "START") /\ in.startPermit
                         \/ in.permit /\ in.needed
    OBVIOUS
  <2>1. Sound(dev) /\ pending \in [Regs -> WordOrNone]
    BY <1>1 DEF IInv, TypeOK, LatchConsistent, Sound
  <2>2. Allowed(pending, dev', in)
    BY <2>1, ScanStarts
  <2>3. ~Tripped(dev')
    BY DEF Tripped, Active, Starting
  <2>4. ~Estop(dev') /\ ~AnyLatched(dev'.prot)
    BY <1>1, <2>3 DEF IInv, EstopHoldsTrip, LatchConsistent, Consistent
  <2> QED
    BY <2>2, <2>4 DEF Allowed, AnyLatched
<1>2. IInv /\ IInv' /\ [Next]_vars => [\A in \in Inputs : Start(in)]_vars
  BY <1>1
<1> QED
  BY <1>2, Invariance, PTL DEF Spec, StartsOnlyWhenAllowed

LEMMA DurableStepStops ==
    ASSUME Kind \notin {"turbine", "feedwater_tank"}, DurableInv, [DurableNext]_durableVars,
           dev.operatorStop, disk.operatorStop, Forgotten
    PROVE  \/ Pulsed(pending, "START")
           \/ \E s \in snaps, clean \in BOOLEAN : Restore(s, clean)
<1> SUFFICES ASSUME ~Pulsed(pending, "START"),
                    ~ \E s \in snaps, clean \in BOOLEAN : Restore(s, clean)
             PROVE  Remembers(dev, dev')
  BY DEF Forgotten, Remembers
<1>1. Sound(dev) /\ pending \in [Regs -> WordOrNone] /\ SoundPayload(disk) /\ NewDevice \in DeviceState
  BY NewDeviceSound DEF DurableInv, Sound
<1>2. CASE Operate
  BY <1>1, <1>2, StepStops DEF Operate
<1>3. ASSUME NEW p, p.operatorStop = TRUE, dev' = Boot(p) PROVE Remembers(dev, dev')
  <2>1. Boot(p).operatorStop = p.operatorStop /\ Boot(p).phase \in {"TRIPPED", "OFF"}
    BY <1>1 DEF Boot, DeviceState, InitialPhase
  <2>2. "TRIPPED" \notin Active /\ "OFF" \notin Active
    BY DEF Active, Starting
  <2> QED
    BY <1>3, <2>1, <2>2 DEF Remembers
<1>4. disk.operatorStop = TRUE /\ Payload(dev).operatorStop = TRUE
  BY <1>1 DEF SoundPayload, PayloadState, Payload, Sound, DeviceState
<1>5. CASE Crash
  BY <1>3, <1>4, <1>5 DEF Crash
<1>6. CASE Shutdown
  BY <1>3, <1>4, <1>6 DEF Shutdown
<1>7. CASE Persist \/ TakeSnapshot \/ UNCHANGED durableVars
  BY <1>7, ReflexiveStop DEF Persist, TakeSnapshot, durableVars
<1> QED
  BY <1>2, <1>5, <1>6, <1>7 DEF DurableNext

(***************************************************************************)
(* A STOP that has reached the disk outlives kills and shutdowns: only a   *)
(* START or the restore of a snapshot ends it.  (The feedwater tank has no *)
(* STOP to remember: it is always put in RUNNING.)                         *)
(***************************************************************************)
THEOREM StopSurvivesRestart ==
    ASSUME Kind \notin {"turbine", "feedwater_tank"}
    PROVE  DurableSpec => StopOutlivesProcess
<1>1. DurableInv /\ [DurableNext]_durableVars =>
        [ dev.operatorStop /\ disk.operatorStop /\ Forgotten
          => \/ Pulsed(pending, "START")
             \/ \E s \in snaps, clean \in BOOLEAN : Restore(s, clean) ]_durableVars
  BY DurableStepStops
<1> QED
  BY <1>1, DurableInvariance, PTL DEF DurableSpec, StopOutlivesProcess
===============================================================================
