----------------------------- MODULE DeviceProofs -----------------------------
(***************************************************************************)
(* Proofs about Device for every number of protections, every delay, every *)
(* device program, every policy, every set of writes and every behaviour   *)
(* of the process.                                                         *)
(*                                                                         *)
(* The inductive invariant is TypeOK /\ LatchConsistent /\ EstopHoldsTrip. *)
(* A scan is a chain of stages, so the proof has one lemma per stage: the  *)
(* stage keeps a sound device sound (Sound), and it keeps what is latched  *)
(* latched and the first-out what it was (Keeps).                          *)
(***************************************************************************)
EXTENDS Device, TLAPS, WellFoundedInduction

-----------------------------------------------------------------------------
(* The protection engine.                                                  *)

SoundEngine(e) == e \in EngineState /\ EngineConsistent(e)

KeepsEngine(e, f) ==
    /\ e.latched \subseteq f.latched
    /\ e.firstOut # NoCode => f.firstOut = e.firstOut

LEMMA NumProtNat == NumProt \in Nat
BY ProtectionAssumption DEF ProtectionAssumption

LEMMA CodesFacts ==
    /\ Prot \subseteq Codes
    /\ Prot \subseteq Nat
    /\ Manual \subseteq Codes
    /\ NoCode \notin Codes
    /\ Prot \cap Manual = {}
BY NumProtNat DEF Prot, Codes, Manual, COMM, TEST, ESTOP, NoCode

(* A non-empty set of protections has a first one in evaluation order.     *)
LEMMA FirstExists ==
    ASSUME NEW trips \in SUBSET Prot, trips # {}
    PROVE  \E c \in trips : \A d \in trips : c <= d
<1>1. trips \subseteq Nat
  BY CodesFacts
<1>2. PICK c \in trips : \A d \in trips : <<d, c>> \notin OpToRel(<, Nat)
  BY <1>1, NatLessThanWellFounded, WFMin
<1>3. ASSUME NEW d \in trips, d < c
      PROVE  <<d, c>> \in OpToRel(<, Nat)
  <2>1. d \in Nat /\ c \in Nat
    BY <1>1
  <2>2. <<d, c>> \in {ss \in Nat \X Nat : ss[1] < ss[2]}
    BY <1>3, <2>1
  <2>. QED
    BY <2>2 DEF OpToRel
<1>4. \A d \in trips : ~ (d < c)
  BY <1>2, <1>3, Zenon
<1>. QED
  BY <1>1, <1>4

LEMMA FirstOutFacts ==
    ASSUME NEW e \in EngineState, NEW trips \in SUBSET Prot
    PROVE  /\ FirstOutAfter(e, trips) \in Codes \cup {NoCode}
           /\ e.firstOut # NoCode => FirstOutAfter(e, trips) = e.firstOut
           /\ trips = {} => FirstOutAfter(e, trips) = e.firstOut
           /\ e.firstOut = NoCode /\ trips # {} => FirstOutAfter(e, trips) \in trips
<1>1. e.firstOut \in Codes \cup {NoCode}
  BY DEF EngineState
<1>2. CASE e.firstOut # NoCode \/ trips = {}
  BY <1>1, <1>2 DEF FirstOutAfter
<1>3. CASE e.firstOut = NoCode /\ trips # {}
  <2>1. FirstOutAfter(e, trips) \in trips
    BY <1>3, FirstExists DEF FirstOutAfter
  <2>. QED
    BY <1>3, <2>1, CodesFacts
<1>. QED
  BY <1>2, <1>3

LEMMA NewTripsFacts ==
    ASSUME NEW e, NEW zone
    PROVE  /\ NewTrips(e, zone) \in SUBSET Prot
           /\ NewTrips(e, zone) \cap e.active = {}
BY DEF NewTrips

(* One pass of evaluate() only adds latches.                               *)
LEMMA EvaluateSound ==
    ASSUME NEW e, SoundEngine(e), NEW zone \in [Prot -> Zones]
    PROVE  /\ SoundEngine(Evaluate(e, zone))
           /\ KeepsEngine(e, Evaluate(e, zone))
           /\ Evaluate(e, zone).latched = e.latched \cup NewTrips(e, zone)
<1>. DEFINE trips == NewTrips(e, zone)
            f == Evaluate(e, zone)
<1>1. e \in EngineState /\ EngineConsistent(e)
  BY DEF SoundEngine
<1>2. trips \in SUBSET Prot /\ Prot \subseteq Codes
  BY NewTripsFacts, CodesFacts
<1>3. /\ f.active = ActiveAfter(e, zone)
      /\ f.latched = e.latched \cup trips
      /\ f.firstFlags = FlagsAfter(e, trips)
      /\ f.firstOut = FirstOutAfter(e, trips)
  BY <1>1 DEF Evaluate, EngineState, LatchedAfter
<1>. HIDE DEF trips
<1>4. f \in EngineState
  <2>1. ActiveAfter(e, zone) \in SUBSET Codes
    BY DEF ActiveAfter
  <2>2. LatchedAfter(e, zone) \in SUBSET Codes
    BY <1>1, <1>2 DEF LatchedAfter, EngineState, trips
  <2>3. /\ FirstOutAfter(e, NewTrips(e, zone)) \in Codes \cup {NoCode}
        /\ FlagsAfter(e, NewTrips(e, zone)) \in SUBSET Codes
    BY <1>1, <1>2, FirstOutFacts DEF FlagsAfter, EngineState, trips
  <2>4. ResettableAfter(e, zone) \in SUBSET Codes
    BY DEF ResettableAfter
  <2>5. /\ AboveAfter(e, zone) \in [Prot -> Nat]
        /\ ClearAfter(e, zone) \in [Prot -> Nat]
    BY <1>1, ProtectionAssumption
    DEF AboveAfter, ClearAfter, Saturate, EngineState, ProtectionAssumption
  <2>6. [p \in Prot |-> IF zone[p] = "inhibited" THEN e.lastValue[p] ELSE zone[p]]
            \in [Prot -> Readings]
    BY <1>1 DEF EngineState, Zones
  <2>. QED
    BY <1>1, <2>1, <2>2, <2>3, <2>4, <2>5, <2>6 DEF Evaluate, EngineState
<1>5. f.active \subseteq f.latched
  BY <1>1, <1>3 DEF ActiveAfter, EngineConsistent, trips
<1>6. f.firstOut = NoCode <=> f.latched = {}
  BY <1>1, <1>2, <1>3, FirstOutFacts, CodesFacts DEF EngineConsistent
<1>7. f.firstFlags = IF f.firstOut = NoCode THEN {} ELSE {f.firstOut}
  <2>1. e.firstFlags = IF e.firstOut = NoCode THEN {} ELSE {e.firstOut}
    BY <1>1 DEF EngineConsistent
  <2>2. CASE e.firstOut # NoCode \/ trips = {}
    <3>1. f.firstOut = e.firstOut /\ f.firstFlags = e.firstFlags
      BY <1>3, <2>2 DEF FlagsAfter, FirstOutAfter
    <3>. QED
      BY <2>1, <3>1
  <2>3. CASE e.firstOut = NoCode /\ trips # {}
    <3>1. f.firstOut # NoCode
      BY <1>1, <1>2, <1>3, <2>3, FirstOutFacts, CodesFacts
    <3>2. f.firstFlags = {f.firstOut}
      BY <1>3, <2>1, <2>3 DEF FlagsAfter
    <3>. QED
      BY <3>1, <3>2
  <2>. QED
    BY <2>2, <2>3
<1>8. f.firstFlags \subseteq f.latched
  BY <1>1, <1>2, <1>3, <1>7, FirstOutFacts, CodesFacts DEF EngineConsistent
<1>9. KeepsEngine(e, f)
  BY <1>1, <1>2, <1>3, FirstOutFacts DEF KeepsEngine
<1>. QED
  BY <1>3, <1>4, <1>5, <1>6, <1>7, <1>8, <1>9 DEF SoundEngine, EngineConsistent, trips

LEMMA ForceTripSound ==
    ASSUME NEW e, SoundEngine(e), NEW c \in Manual
    PROVE  /\ SoundEngine(ForceTrip(e, c))
           /\ KeepsEngine(e, ForceTrip(e, c))
           /\ c \in ForceTrip(e, c).latched
<1>1. e \in EngineState /\ EngineConsistent(e) /\ c \in Codes /\ c # NoCode
  BY CodesFacts DEF SoundEngine
<1>2. CASE c \in e.latched /\ c \in e.active
  BY <1>1, <1>2 DEF ForceTrip, SoundEngine, KeepsEngine
<1>3. CASE ~ (c \in e.latched /\ c \in e.active)
  <2>. DEFINE f == ForceTrip(e, c)
  <2>1. /\ f \in EngineState
        /\ f.active = e.active \cup {c}
        /\ f.latched = e.latched \cup {c}
        /\ f.firstFlags = IF e.firstOut = NoCode THEN e.firstFlags \cup {c} ELSE e.firstFlags
        /\ f.firstOut = IF e.firstOut = NoCode THEN c ELSE e.firstOut
    BY <1>1, <1>3 DEF ForceTrip, EngineState
  <2>. QED
    BY <1>1, <2>1 DEF SoundEngine, KeepsEngine, EngineConsistent
<1>. QED
  BY <1>2, <1>3

(* A reset that is allowed leaves nothing active.                          *)
LEMMA ResetSound ==
    ASSUME NEW e, SoundEngine(e), CanReset(e)
    PROVE  SoundEngine(Reset(e)) /\ Reset(e).latched = {}
<1>1. e \in EngineState /\ EngineConsistent(e) /\ e.active = {}
  BY DEF SoundEngine, EngineConsistent, CanReset
<1>2. /\ Reset(e) \in EngineState
      /\ Reset(e).active = {}
      /\ Reset(e).latched = {}
      /\ Reset(e).firstFlags = {}
      /\ Reset(e).firstOut = NoCode
  BY <1>1 DEF Reset, EngineState
<1>. QED
  BY <1>2 DEF SoundEngine, EngineConsistent

-----------------------------------------------------------------------------
(* The state machine: only a trip enters TRIPPED, only a reset leaves it.   *)

LEMMA PhaseFacts ==
    ASSUME NEW s \in Phases, NEW moved \in BOOLEAN
    PROVE  /\ PhysicsStep(Kind, s, moved) \in Phases
           /\ PhysicsStep(Kind, s, moved) = "TRIPPED" <=> s = "TRIPPED"
           /\ s # "TRIPPED" => OnStart(Kind, s) \in Phases \ {"TRIPPED"}
           /\ s # "TRIPPED" => OnStop(Kind, s) \in Phases \ {"TRIPPED"}
<1>1. ASSUME NEW target \in Phases \ {"TRIPPED"}
      PROVE  /\ To(Kind, s, target) \in Phases
             /\ s # "TRIPPED" => To(Kind, s, target) # "TRIPPED"
  BY DEF To
<1>2. s # "TRIPPED" => OnStart(Kind, s) \in Phases \ {"TRIPPED"}
  BY <1>1 DEF OnStart, Phases, Starting
<1>3. s # "TRIPPED" => OnStop(Kind, s) \in Phases \ {"TRIPPED"}
  BY <1>1 DEF OnStop, Phases, Starting
<1>4. /\ PhysicsTarget(Kind, s) \in Phases
      /\ PhysicsTarget(Kind, s) = "TRIPPED" <=> s = "TRIPPED"
  BY DEF PhysicsTarget, Phases, Starting
<1>. QED
  BY <1>1, <1>2, <1>3, <1>4 DEF PhysicsStep, To

LEMMA InitialPhaseFacts == InitialPhase(Kind) \in Phases \ {"TRIPPED"}
BY DEF InitialPhase, Phases, Starting

-----------------------------------------------------------------------------
(* The stages of a scan.                                                   *)

Sound(d) == d \in DeviceState /\ Consistent(d)

(* r comes after d in a scan without a reset in between.                   *)
Continues(d, r) ==
    /\ Sound(r)
    /\ KeepsEngine(d.prot, r.prot)
    /\ r.reg = d.reg
    /\ r.lastSequence = d.lastSequence
    /\ Tripped(d) => Tripped(r)

LEMMA ContinuesTransitive ==
    ASSUME NEW d, NEW r, NEW s, Continues(d, r), Continues(r, s)
    PROVE  Continues(d, s)
BY DEF Continues, KeepsEngine

LEMMA ContinuesReflexive ==
    ASSUME NEW d, Sound(d)
    PROVE  Continues(d, d)
BY DEF Continues, KeepsEngine

(* A stage that leaves the engine alone and neither enters nor leaves      *)
(* TRIPPED.                                                                *)
LEMMA SameTrip ==
    ASSUME NEW d, Sound(d), NEW r \in DeviceState,
           r.prot = d.prot, r.reg = d.reg, r.lastSequence = d.lastSequence,
           Tripped(r) <=> Tripped(d)
    PROVE  Continues(d, r)
BY DEF Sound, Consistent, Continues, KeepsEngine

(* force_trip followed by _trip *)
LEMMA TripBySound ==
    ASSUME NEW d, Sound(d), NEW c \in Manual
    PROVE  Continues(d, TripBy(d, c)) /\ Tripped(TripBy(d, c))
<1>1. d \in DeviceState /\ SoundEngine(d.prot)
  BY DEF Sound, Consistent, SoundEngine, DeviceState
<1>2. /\ SoundEngine(ForceTrip(d.prot, c))
      /\ KeepsEngine(d.prot, ForceTrip(d.prot, c))
      /\ AnyLatched(ForceTrip(d.prot, c))
  BY <1>1, ForceTripSound DEF AnyLatched
<1>3. /\ TripBy(d, c) \in DeviceState
      /\ TripBy(d, c).prot = ForceTrip(d.prot, c)
      /\ TripBy(d, c).reg = d.reg
      /\ TripBy(d, c).lastSequence = d.lastSequence
      /\ TripBy(d, c).phase = "TRIPPED"
  BY <1>1, <1>2 DEF TripBy, DeviceState, SoundEngine, Phases
<1>. QED
  BY <1>2, <1>3 DEF Continues, Sound, Consistent, SoundEngine, Tripped

LEMMA HandleStartSound ==
    ASSUME NEW d, Sound(d), NEW in \in ScanInputs
    PROVE  /\ Continues(d, HandleStart(d, in))
           /\ HandleStart(d, in).prot = d.prot
<1>. DEFINE p == IF MayStart(d, in) /\ d.phase \notin Active
                 THEN OnStart(Kind, d.phase) ELSE d.phase
<1>1. d \in DeviceState /\ d.phase \in Phases
  BY DEF Sound, DeviceState
<1>2. p \in Phases /\ (p = "TRIPPED" <=> d.phase = "TRIPPED")
  BY <1>1, PhaseFacts DEF MayStart, Tripped
<1>. HIDE DEF p
<1>3. HandleStart(d, in) = [d EXCEPT !.operatorStop = FALSE, !.phase = p]
  BY DEF HandleStart, p
<1>4. /\ HandleStart(d, in) \in DeviceState
      /\ HandleStart(d, in).prot = d.prot
      /\ HandleStart(d, in).reg = d.reg
      /\ HandleStart(d, in).lastSequence = d.lastSequence
      /\ HandleStart(d, in).phase = p
  BY <1>1, <1>2, <1>3 DEF DeviceState
<1>. QED
  BY <1>2, <1>4, SameTrip DEF Tripped

LEMMA HandleStopSound ==
    ASSUME NEW d, Sound(d)
    PROVE  /\ Continues(d, HandleStop(d))
           /\ HandleStop(d).prot = d.prot
<1>. DEFINE p == IF d.phase \in {"OFF", "TRIPPED"}
                 THEN d.phase ELSE OnStop(Kind, d.phase)
<1>1. d \in DeviceState /\ d.phase \in Phases
  BY DEF Sound, DeviceState
<1>2. p \in Phases /\ (p = "TRIPPED" <=> d.phase = "TRIPPED")
  BY <1>1, PhaseFacts
<1>. HIDE DEF p
<1>3. HandleStop(d) = [d EXCEPT !.operatorStop = TRUE, !.permTimer = 0, !.phase = p]
  BY DEF HandleStop, p
<1>4. HandleStop(d) \in DeviceState
  <2>1. [d EXCEPT !.operatorStop = TRUE, !.permTimer = 0, !.phase = p] \in DeviceState
    BY <1>1, <1>2 DEF DeviceState
  <2>. QED
    BY <1>3, <2>1
<1>5. /\ HandleStop(d).prot = d.prot
      /\ HandleStop(d).reg = d.reg
      /\ HandleStop(d).lastSequence = d.lastSequence
      /\ HandleStop(d).phase = p
  BY <1>1, <1>2, <1>3 DEF DeviceState
<1>. QED
  BY <1>2, <1>4, <1>5, SameTrip DEF Tripped

LEMMA WordFacts ==
    /\ Word \subseteq WordOrNone
    /\ WordOrNone \ {NoWrite} \subseteq Word
    /\ 0 \in Word
    /\ NoWrite \in WordOrNone
    /\ NoSequence \in WordOrNone
<1>1. MaxWord \in Nat
  BY DEF MaxWord
<1>. QED
  BY <1>1 DEF Word, WordOrNone, NoWrite, NoSequence

(* An accepted reset uses up the sequence and leaves nothing latched.       *)
LEMMA HandleResetSound ==
    ASSUME NEW d, Sound(d)
    PROVE  /\ Sound(HandleReset(d))
           /\ HandleReset(d).reg = d.reg
           /\ ~ MayReset(d) => HandleReset(d) = d
           /\ MayReset(d) => HandleReset(d).lastSequence \in Word \ {d.lastSequence}
<1>1. CASE ~ MayReset(d)
  BY <1>1 DEF HandleReset
<1>2. CASE MayReset(d)
  <2>. DEFINE p == IF Tripped(d) THEN "OFF" ELSE d.phase
              seq == d.reg["COMMAND_SEQUENCE"]
              e == Reset(d.prot)
              r == HandleReset(d)
  <2>1. /\ d \in DeviceState /\ SoundEngine(d.prot) /\ CanReset(d.prot)
        /\ seq # d.lastSequence
    BY <1>2 DEF Sound, Consistent, SoundEngine, DeviceState, MayReset
  <2>2. SoundEngine(e) /\ e.latched = {}
    BY <2>1, ResetSound
  <2>3. p \in Phases \ {"TRIPPED"}
    BY <2>1 DEF DeviceState, Tripped, Phases
  <2>4. seq \in WordOrNone /\ seq \in Word
    <3>1. d.reg \in [Levels -> Word] /\ "COMMAND_SEQUENCE" \in Levels
      BY <2>1 DEF DeviceState, Levels
    <3>. QED
      BY <3>1, WordFacts
  <2>5. r = [d EXCEPT !.lastSequence = seq, !.prot = e, !.phase = p]
    BY <1>2 DEF HandleReset
  <2>. HIDE DEF p, seq, e, r
  <2>6. [d EXCEPT !.lastSequence = seq, !.prot = e, !.phase = p] \in DeviceState
    BY <2>1, <2>2, <2>3, <2>4 DEF DeviceState, SoundEngine
  <2>7. r.prot = e /\ r.phase = p /\ r.lastSequence = seq /\ r.reg = d.reg
    BY <2>1, <2>5 DEF DeviceState
  <2>8. Sound(r)
    BY <2>2, <2>3, <2>5, <2>6, <2>7 DEF Sound, Consistent, SoundEngine, Tripped, AnyLatched
  <2>. QED
    BY <1>2, <2>1, <2>4, <2>7, <2>8 DEF r
<1>. QED
  BY <1>1, <1>2

LEMMA ManualCodes == TEST \in Manual /\ ESTOP \in Manual /\ COMM \in Manual
BY DEF Manual

LEMMA HandleTripTestSound ==
    ASSUME NEW d, Sound(d)
    PROVE  Continues(d, HandleTripTest(d))
BY TripBySound, ContinuesReflexive, ManualCodes DEF HandleTripTest

LEMMA HandleEstopSound ==
    ASSUME NEW d, Sound(d)
    PROVE  /\ Continues(d, HandleEstop(d))
           /\ Estop(HandleEstop(d)) => Tripped(HandleEstop(d))
<1>1. CASE Estop(d) /\ ~ Tripped(d)
  BY <1>1, TripBySound, ManualCodes DEF HandleEstop
<1>2. CASE ~ (Estop(d) /\ ~ Tripped(d))
  BY <1>2, ContinuesReflexive DEF HandleEstop
<1>. QED
  BY <1>1, <1>2

LEMMA NoteWatchdogSound ==
    ASSUME NEW d, Sound(d)
    PROVE  Continues(d, NoteWatchdog(d))
<1>1. d \in DeviceState
  BY DEF Sound
<1>. DEFINE w == d.reg["WATCHDOG_COUNTER"]
            r == [d EXCEPT !.wdValue = w, !.wdAge = 0]
<1>2. w \in Word
  BY <1>1 DEF DeviceState, Levels
<1>. HIDE DEF w
<1>3. r \in DeviceState
  BY <1>1, <1>2 DEF DeviceState
<1>4. /\ r.prot = d.prot /\ r.reg = d.reg
      /\ r.lastSequence = d.lastSequence /\ r.phase = d.phase
  BY <1>1 DEF DeviceState
<1>5. Continues(d, r)
  BY <1>3, <1>4, SameTrip DEF Tripped
<1>. QED
  BY <1>5, ContinuesReflexive DEF NoteWatchdog, w

LEMMA UpdateCommSound ==
    ASSUME NEW d, Sound(d)
    PROVE  Continues(d, UpdateCommStatus(d))
<1>. DEFINE aged == [d EXCEPT !.wdAge = Saturate(d.wdAge, WatchdogTimeout)]
            loss == IF WatchdogOk(aged) THEN 0 ELSE Saturate(d.commLoss, CommHold)
            next == [aged EXCEPT !.commLoss = loss]
<1>1. /\ d \in DeviceState
      /\ Saturate(d.wdAge, WatchdogTimeout) \in Nat
      /\ Saturate(d.commLoss, CommHold) \in Nat
  BY DeviceAssumption DEF Sound, DeviceState, Saturate, DeviceAssumption
<1>2. aged \in DeviceState
  BY <1>1 DEF DeviceState
<1>3. /\ aged.prot = d.prot /\ aged.reg = d.reg
      /\ aged.lastSequence = d.lastSequence /\ aged.phase = d.phase
  BY <1>1 DEF DeviceState
<1>4. loss \in Nat
  BY <1>1
<1>. HIDE DEF aged, loss
<1>5. next \in DeviceState
  BY <1>2, <1>4 DEF DeviceState
<1>6. /\ next.prot = aged.prot /\ next.reg = aged.reg
      /\ next.lastSequence = aged.lastSequence /\ next.phase = aged.phase
  BY <1>2 DEF DeviceState
<1>7. Continues(d, next)
  BY <1>3, <1>5, <1>6, SameTrip DEF Tripped
<1>. HIDE DEF next
<1>8. UpdateCommStatus(d) \in {next, TripBy(next, COMM)}
  BY DEF UpdateCommStatus, next, loss, aged
<1>9. Continues(next, TripBy(next, COMM))
  BY <1>7, TripBySound, ManualCodes DEF Continues
<1>. QED
  BY <1>7, <1>8, <1>9, ContinuesTransitive

(* The part of the self hold below the locks acts only on a device that is *)
(* not TRIPPED.                                                            *)
LEMMA HoldSound ==
    ASSUME NEW d, Sound(d), NEW in \in ScanInputs, ~ Tripped(d)
    PROVE  Continues(d, HoldRunning(d, in)) /\ Continues(d, HoldStopped(d, in))
<1>1. /\ d \in DeviceState /\ d.phase \in Phases /\ d.phase # "TRIPPED"
      /\ d.stopTimer \in Nat /\ d.permTimer \in Nat
  BY DEF Sound, DeviceState, Tripped
<1>2. ASSUME NEW p \in Phases \ {"TRIPPED"}, NEW m \in Nat, NEW n \in Nat
      PROVE  Continues(d, [d EXCEPT !.permTimer = m, !.stopTimer = n, !.phase = p])
  <2>. DEFINE r == [d EXCEPT !.permTimer = m, !.stopTimer = n, !.phase = p]
  <2>1. r \in DeviceState
    BY <1>1 DEF DeviceState
  <2>2. /\ r.prot = d.prot /\ r.reg = d.reg
        /\ r.lastSequence = d.lastSequence /\ r.phase = p
    BY <1>1 DEF DeviceState
  <2>. QED
    BY <1>1, <2>1, <2>2, SameTrip DEF Tripped
<1>3. OnStop(Kind, d.phase) \in Phases \ {"TRIPPED"} /\ OnStart(Kind, d.phase) \in Phases \ {"TRIPPED"}
  BY <1>1, PhaseFacts
<1>4. Continues(d, HoldRunning(d, in))
  <2>. DEFINE quit == in.standby /\ d.stopTimer + 1 >= SelfRestartDelay
              n == IF in.standby /\ ~quit THEN d.stopTimer + 1 ELSE 0
              p == IF quit THEN OnStop(Kind, d.phase) ELSE d.phase
  <2>1. n \in Nat /\ p \in Phases \ {"TRIPPED"}
    BY <1>1, <1>3
  <2>2. HoldRunning(d, in) = [d EXCEPT !.permTimer = 0, !.stopTimer = n, !.phase = p]
    BY DEF HoldRunning
  <2>. HIDE DEF quit, n, p
  <2>3. Continues(d, [d EXCEPT !.permTimer = 0, !.stopTimer = n, !.phase = p])
    BY <1>2, <2>1
  <2>. QED
    BY <2>2, <2>3
<1>5. Continues(d, HoldStopped(d, in))
  <2>. DEFINE ready == in.permit /\ in.needed
              go == ready /\ d.permTimer + 1 >= SelfStartDelay
              m == IF ready /\ ~go THEN d.permTimer + 1 ELSE 0
              p == IF go THEN OnStart(Kind, d.phase) ELSE d.phase
  <2>1. m \in Nat /\ p \in Phases \ {"TRIPPED"}
    BY <1>1, <1>3
  <2>2. HoldStopped(d, in) = [d EXCEPT !.permTimer = m, !.stopTimer = 0, !.phase = p]
    BY DEF HoldStopped
  <2>. HIDE DEF ready, go, m, p
  <2>3. Continues(d, [d EXCEPT !.permTimer = m, !.stopTimer = 0, !.phase = p])
    BY <1>2, <2>1
  <2>. QED
    BY <2>2, <2>3
<1>. QED
  BY <1>4, <1>5

LEMMA SelfHoldSound ==
    ASSUME NEW d, Sound(d), NEW in \in ScanInputs
    PROVE  Continues(d, SelfHoldStep(d, in))
<1>2. d \in DeviceState
  BY DEF Sound
<1>5. ASSUME NEW r \in {[d EXCEPT !.permTimer = 0, !.stopTimer = 0],
                         [d EXCEPT !.permTimer = 0], [d EXCEPT !.stopTimer = 0]}
      PROVE  Continues(d, r)
  <2>1. /\ [d EXCEPT !.permTimer = 0, !.stopTimer = 0] \in DeviceState
        /\ [d EXCEPT !.permTimer = 0] \in DeviceState
        /\ [d EXCEPT !.stopTimer = 0] \in DeviceState
    BY <1>2 DEF DeviceState
  <2>2. /\ r.prot = d.prot /\ r.reg = d.reg
        /\ r.lastSequence = d.lastSequence /\ r.phase = d.phase
    BY <1>2 DEF DeviceState
  <2>. QED
    BY <2>1, <2>2, SameTrip DEF Tripped
<1>6. TripLocked(d) \/ (Continues(d, HoldRunning(d, in)) /\ Continues(d, HoldStopped(d, in)))
  BY HoldSound DEF TripLocked
<1>7. \/ SelfHoldStep(d, in) = d
      \/ SelfHoldStep(d, in) \in {[d EXCEPT !.permTimer = 0, !.stopTimer = 0],
                                  [d EXCEPT !.permTimer = 0], [d EXCEPT !.stopTimer = 0]}
      \/ /\ ~ TripLocked(d)
         /\ SelfHoldStep(d, in) \in {HoldRunning(d, in), HoldStopped(d, in)}
  BY Zenon DEF SelfHoldStep
<1>. QED
  BY <1>5, <1>6, <1>7, ContinuesReflexive

LEMMA PhysicsSound ==
    ASSUME NEW d, Sound(d), NEW in \in ScanInputs
    PROVE  Continues(d, Physics(d, in))
<1>. DEFINE p == PhysicsStep(Kind, d.phase, in.moved)
            r == [d EXCEPT !.phase = p]
<1>1. d \in DeviceState /\ d.phase \in Phases /\ in.moved \in BOOLEAN
  BY DEF Sound, DeviceState, ScanInputs
<1>2. p \in Phases /\ (p = "TRIPPED" <=> d.phase = "TRIPPED")
  BY <1>1, PhaseFacts
<1>. HIDE DEF p
<1>3. r \in DeviceState
  BY <1>1, <1>2 DEF DeviceState
<1>4. /\ r.prot = d.prot /\ r.reg = d.reg
      /\ r.lastSequence = d.lastSequence /\ r.phase = p
  BY <1>1 DEF DeviceState
<1>. QED
  BY <1>2, <1>3, <1>4, SameTrip DEF Tripped, Physics, p

LEMMA ProtectSound ==
    ASSUME NEW d, Sound(d), NEW in \in ScanInputs
    PROVE  Continues(d, Protect(d, in))
<1>. DEFINE e == Evaluate(d.prot, in.zone)
            p == IF NewTrips(d.prot, in.zone) # {} THEN "TRIPPED" ELSE d.phase
            r == [d EXCEPT !.prot = e, !.phase = p]
<1>1. /\ d \in DeviceState /\ SoundEngine(d.prot) /\ d.phase \in Phases
      /\ in.zone \in [Prot -> Zones]
      /\ Tripped(d) <=> AnyLatched(d.prot)
  BY DEF Sound, Consistent, SoundEngine, DeviceState, ScanInputs
<1>2. /\ SoundEngine(e)
      /\ KeepsEngine(d.prot, e)
      /\ e.latched = d.prot.latched \cup NewTrips(d.prot, in.zone)
  BY <1>1, EvaluateSound
<1>3. p \in Phases /\ (p = "TRIPPED" <=> AnyLatched(e))
  BY <1>1, <1>2 DEF Phases, AnyLatched, Tripped
<1>4. Tripped(d) => p = "TRIPPED"
  BY DEF Tripped
<1>. HIDE DEF e, p
<1>5. r \in DeviceState
  BY <1>1, <1>2, <1>3 DEF DeviceState, SoundEngine
<1>6. r.prot = e /\ r.phase = p /\ r.reg = d.reg /\ r.lastSequence = d.lastSequence
  BY <1>1 DEF DeviceState
<1>7. Continues(d, r)
  BY <1>2, <1>3, <1>4, <1>5, <1>6 DEF Continues, Sound, Consistent, SoundEngine, Tripped
<1>. QED
  BY <1>7 DEF Protect, e, p

LEMMA UpdateManualSound ==
    ASSUME NEW d, Sound(d)
    PROVE  Continues(d, UpdateManual(d))
<1>. DEFINE held == {c \in Manual : c \in d.prot.latched}
            on   == {c \in held : c \in d.prot.active /\ Holds(d, c)}
            act  == (d.prot.active \ held) \cup on
            res  == (d.prot.resettable \ held) \cup (held \ on)
            e    == [d.prot EXCEPT !.active = act, !.resettable = res]
            r    == [d EXCEPT !.prot = e]
<1>1. /\ d \in DeviceState /\ d.prot \in EngineState
      /\ EngineConsistent(d.prot)
      /\ Tripped(d) <=> AnyLatched(d.prot)
  BY DEF Sound, Consistent, DeviceState
<1>2. act \subseteq d.prot.active /\ act \in SUBSET Codes
  BY <1>1 DEF EngineState
<1>3. res \in SUBSET Codes
  BY <1>1, CodesFacts DEF EngineState
<1>4. UpdateManual(d) = r
  BY DEF UpdateManual
<1>. HIDE DEF act, res, held, on
<1>5. e \in EngineState
  BY <1>1, <1>2, <1>3 DEF EngineState
<1>6. /\ e.active = act /\ e.latched = d.prot.latched
      /\ e.firstFlags = d.prot.firstFlags /\ e.firstOut = d.prot.firstOut
  BY <1>1 DEF EngineState
<1>7. EngineConsistent(e) /\ KeepsEngine(d.prot, e)
  BY <1>1, <1>2, <1>6 DEF EngineConsistent, KeepsEngine
<1>. HIDE DEF e
<1>8. r \in DeviceState
  BY <1>1, <1>5 DEF DeviceState
<1>9. /\ r.prot = e /\ r.phase = d.phase
      /\ r.reg = d.reg /\ r.lastSequence = d.lastSequence
  BY <1>1 DEF DeviceState
<1>. QED
  BY <1>1, <1>4, <1>6, <1>7, <1>8, <1>9
  DEF Continues, Sound, Consistent, Tripped, AnyLatched

LEMMA DrainSound ==
    ASSUME NEW d, Sound(d), NEW q \in [Regs -> WordOrNone]
    PROVE  /\ Sound(Drain(d, q))
           /\ Drain(d, q).prot = d.prot
           /\ Drain(d, q).lastSequence = d.lastSequence
<1>. DEFINE g == [r \in Levels |-> IF q[r] = NoWrite THEN d.reg[r] ELSE q[r]]
<1>1. d \in DeviceState /\ d.reg \in [Levels -> Word] /\ Levels \subseteq Regs
  BY DEF Sound, DeviceState, Regs
<1>2. g \in [Levels -> Word]
  BY <1>1, WordFacts
<1>3. Drain(d, q) = [d EXCEPT !.reg = g]
  BY DEF Drain
<1>. HIDE DEF g
<1>4. [d EXCEPT !.reg = g] \in DeviceState
  BY <1>1, <1>2 DEF DeviceState
<1>5. /\ Drain(d, q).prot = d.prot /\ Drain(d, q).phase = d.phase
      /\ Drain(d, q).lastSequence = d.lastSequence
  BY <1>1, <1>3 DEF DeviceState
<1>. QED
  BY <1>3, <1>4, <1>5 DEF Sound, Consistent, Tripped

(* The commands of a scan: the only place where a latch can be released.   *)
LEMMA ApplyCommandsSound ==
    ASSUME NEW d, Sound(d), NEW q \in [Regs -> WordOrNone], NEW in \in ScanInputs
    PROVE  LET r == ApplyCommands(d, q, in)
           IN  /\ Sound(r)
               /\ Estop(r) => Tripped(r)
               /\ \/ KeepsEngine(d.prot, r.prot) /\ r.lastSequence = d.lastSequence
                  \/ /\ Pulsed(q, "RESET_TRIP") /\ r.lastSequence \in Word \ {d.lastSequence}
                     /\ Drain(d, q).reg["RESET_KEY"] = ResetKeyValue
                     /\ Drain(d, q).reg["EMERGENCY_STOP"] = 0
                     /\ Drain(d, q).reg["COMMAND_SEQUENCE"] # d.lastSequence
                     /\ CanReset(d.prot)
<1>. DEFINE d0 == Drain(d, q)
            d1 == IF Pulsed(q, "START")      THEN HandleStart(d0, in) ELSE d0
            d2 == IF Pulsed(q, "STOP")       THEN HandleStop(d1)      ELSE d1
            d3 == IF Pulsed(q, "RESET_TRIP") THEN HandleReset(d2)     ELSE d2
            d4 == IF Pulsed(q, "TRIP_TEST")  THEN HandleTripTest(d3)  ELSE d3
            d5 == HandleEstop(d4)
            d6 == NoteWatchdog(d5)
<1>0. d6 = ApplyCommands(d, q, in)
  BY Zenon DEF ApplyCommands
<1>1. Sound(d0) /\ d0.prot = d.prot /\ d0.lastSequence = d.lastSequence
  BY DrainSound
<1>. HIDE DEF d0
<1>2. Sound(d1) /\ d1.prot = d.prot /\ d1.lastSequence = d.lastSequence /\ d1.reg = d0.reg
  BY <1>1, HandleStartSound DEF Continues
<1>. HIDE DEF d1
<1>3. Sound(d2) /\ d2.prot = d.prot /\ d2.lastSequence = d.lastSequence /\ d2.reg = d0.reg
  BY <1>2, HandleStopSound DEF Continues
<1>. HIDE DEF d2
<1>4. /\ Sound(d3)
      /\ \/ d3.prot = d.prot /\ d3.lastSequence = d.lastSequence
         \/ Pulsed(q, "RESET_TRIP") /\ MayReset(d2) /\ d3.lastSequence \in Word \ {d.lastSequence}
  BY <1>3, HandleResetSound
<1>. HIDE DEF d3
<1>5. Continues(d3, d4)
  BY <1>4, HandleTripTestSound, ContinuesReflexive
<1>. HIDE DEF d4
<1>6. Continues(d3, d5) /\ (Estop(d5) => Tripped(d5)) /\ Sound(d5)
  BY <1>5, HandleEstopSound, ContinuesTransitive DEF Continues
<1>. HIDE DEF d5
<1>7. Continues(d5, d6)
  BY <1>6, NoteWatchdogSound
<1>. HIDE DEF d6
<1>8. Continues(d3, d6) /\ Sound(d6) /\ (Estop(d6) => Tripped(d6))
  BY <1>6, <1>7, ContinuesTransitive DEF Continues, Estop
<1>9. \/ KeepsEngine(d.prot, d6.prot) /\ d6.lastSequence = d.lastSequence
      \/ Pulsed(q, "RESET_TRIP") /\ MayReset(d2) /\ d6.lastSequence \in Word \ {d.lastSequence}
  BY <1>4, <1>8 DEF Continues
<1>10. MayReset(d2) => /\ d0.reg["RESET_KEY"] = ResetKeyValue
                       /\ d0.reg["EMERGENCY_STOP"] = 0
                       /\ d0.reg["COMMAND_SEQUENCE"] # d.lastSequence
                       /\ CanReset(d.prot)
  BY <1>3 DEF MayReset, Estop
<1>. QED
  BY <1>0, <1>8, <1>9, <1>10 DEF d0

(* What every scan does to a sound device.                                 *)
LEMMA ScanSound ==
    ASSUME Sound(dev), pending \in [Regs -> WordOrNone],
           NEW in \in Inputs, Scan(in)
    PROVE  /\ Sound(dev') /\ pending' \in [Regs -> WordOrNone]
           /\ Estop(dev') => Tripped(dev')
           /\ \/ KeepsEngine(dev.prot, dev'.prot) /\ dev'.lastSequence = dev.lastSequence
              \/ ResetAuthorised /\ dev'.lastSequence \in Word \ {dev.lastSequence}
<1>. DEFINE c == ApplyCommands(dev, pending, in)
            u == UpdateCommStatus(c)
            h == SelfHoldStep(u, in)
            y == Physics(h, in)
            p == Protect(y, in)
<1>0. in \in ScanInputs
  BY DeviceAssumption DEF DeviceAssumption
<1>1. dev' = UpdateManual(p) /\ pending' = Empty
  BY Zenon DEF Scan
<1>2. /\ Sound(c)
      /\ Estop(c) => Tripped(c)
      /\ \/ KeepsEngine(dev.prot, c.prot) /\ c.lastSequence = dev.lastSequence
         \/ ResetAuthorised /\ c.lastSequence \in Word \ {dev.lastSequence}
  BY <1>0, ApplyCommandsSound DEF ResetAuthorised, CanReset
<1>. HIDE DEF c
<1>3. Continues(c, u) /\ Sound(u)
  BY <1>2, UpdateCommSound DEF Continues
<1>. HIDE DEF u
<1>4. Continues(u, h) /\ Sound(h)
  BY <1>0, <1>3, SelfHoldSound DEF Continues
<1>. HIDE DEF h
<1>5. Continues(h, y) /\ Sound(y)
  BY <1>0, <1>4, PhysicsSound DEF Continues
<1>. HIDE DEF y
<1>6. Continues(y, p) /\ Sound(p)
  BY <1>0, <1>5, ProtectSound DEF Continues
<1>. HIDE DEF p
<1>7. Continues(p, dev')
  BY <1>1, <1>6, UpdateManualSound
<1>8. Continues(c, dev')
  BY <1>3, <1>4, <1>5, <1>6, <1>7, ContinuesTransitive
<1>9. pending' \in [Regs -> WordOrNone]
  BY <1>1, WordFacts DEF Empty
<1>10. Estop(dev') => Tripped(dev')
  BY <1>2, <1>8 DEF Continues, Estop
<1>11. \/ KeepsEngine(dev.prot, dev'.prot) /\ dev'.lastSequence = dev.lastSequence
       \/ ResetAuthorised /\ dev'.lastSequence \in Word \ {dev.lastSequence}
  BY <1>2, <1>8 DEF Continues, KeepsEngine
<1>. QED
  BY <1>8, <1>9, <1>10, <1>11 DEF Continues

LEMMA WriteSound ==
    ASSUME pending \in [Regs -> WordOrNone], NEW w \in Writes, Write(w)
    PROVE  dev' = dev /\ pending' \in [Regs -> WordOrNone]
<1>1. w.reg \in Regs /\ w.val \in WordOrNone
  BY DeviceAssumption, WordFacts DEF DeviceAssumption
<1>. QED
  BY <1>1 DEF Write

-----------------------------------------------------------------------------
(* The theorems.                                                           *)

(* The device as it is constructed.                                        *)
LEMMA NewDeviceSound == Sound(NewDevice) /\ ~ Estop(NewDevice)
<1>1. NewEngine \in EngineState
  BY NumProtNat DEF NewEngine, EngineState, Readings
<1>2. EngineConsistent(NewEngine) /\ ~ AnyLatched(NewEngine)
  BY DEF NewEngine, EngineConsistent, AnyLatched
<1>3. RemoteAuto \in Word
  BY DEF RemoteAuto, Word, MaxWord
<1>4. NewDevice \in DeviceState
  BY <1>1, <1>3, WordFacts, InitialPhaseFacts DEF NewDevice, DeviceState
<1>5. ~ Estop(NewDevice) /\ NewDevice.phase # "TRIPPED" /\ NewDevice.prot = NewEngine
  BY InitialPhaseFacts DEF NewDevice, Estop, Levels
<1>. QED
  BY <1>2, <1>4, <1>5 DEF Sound, Consistent, Tripped

(* The inductive invariant.                                                *)
IInv == TypeOK /\ LatchConsistent /\ EstopHoldsTrip

LEMMA IInvSound == IInv <=> /\ Sound(dev) /\ pending \in [Regs -> WordOrNone]
                            /\ Estop(dev) => Tripped(dev)
BY DEF IInv, TypeOK, LatchConsistent, EstopHoldsTrip, Sound

(* What a step may do to a device that satisfies it.                       *)
LEMMA StepFacts ==
    ASSUME IInv, [Next]_vars
    PROVE  /\ IInv'
           /\ \/ KeepsEngine(dev.prot, dev'.prot) /\ dev'.lastSequence = dev.lastSequence
              \/ ResetAuthorised /\ dev'.lastSequence \in Word \ {dev.lastSequence}
<1>. USE IInvSound
<1>1. IInv' <=> /\ Sound(dev') /\ pending' \in [Regs -> WordOrNone]
                /\ Estop(dev') => Tripped(dev')
  BY DEF IInv, TypeOK, LatchConsistent, EstopHoldsTrip, Sound
<1>2. ASSUME NEW w \in Writes, Write(w)
      PROVE  IInv' /\ KeepsEngine(dev.prot, dev'.prot) /\ dev'.lastSequence = dev.lastSequence
  BY <1>1, <1>2, WriteSound DEF KeepsEngine
<1>3. ASSUME NEW in \in Inputs, Scan(in)
      PROVE  /\ IInv'
             /\ \/ KeepsEngine(dev.prot, dev'.prot) /\ dev'.lastSequence = dev.lastSequence
                \/ ResetAuthorised /\ dev'.lastSequence \in Word \ {dev.lastSequence}
  BY <1>1, <1>3, ScanSound
<1>4. CASE UNCHANGED vars
  BY <1>1, <1>4 DEF vars, KeepsEngine
<1>. QED
  BY <1>2, <1>3, <1>4 DEF Next

THEOREM Invariance == Spec => []IInv
<1>1. Init => IInv
  BY NewDeviceSound, IInvSound, WordFacts DEF Init, Empty
<1>2. IInv /\ [Next]_vars => IInv'
  BY StepFacts
<1>. QED
  BY <1>1, <1>2, PTL DEF Spec

(* Every reachable state is of the declared type: in particular no phase   *)
(* outside the transition tables, no code outside the protection list.     *)
THEOREM TypeCorrect == Spec => []TypeOK
BY Invariance, PTL DEF IInv

(* The latch, the first-out and the state machine agree at every scan      *)
(* boundary, for every set of protections and every device program.        *)
THEOREM LatchesAgree == Spec => []LatchConsistent
BY Invariance, PTL DEF IInv

(* While the emergency-stop coil is on the device is TRIPPED.               *)
THEOREM EstopTrips == Spec => []EstopHoldsTrip
BY Invariance, PTL DEF IInv

(* No latch is released and no first-out replaced but by an authorised     *)
(* RESET_TRIP.                                                             *)
THEOREM OnlyResetReleases == Spec => ReleasedOnlyByReset
<1>1. IInv /\ [Next]_vars =>
        [ \/ dev.prot.latched \ dev'.prot.latched # {}
          \/ dev.prot.firstOut \notin {NoCode, dev'.prot.firstOut}
          => ResetAuthorised ]_vars
  BY StepFacts DEF KeepsEngine
<1>. QED
  BY <1>1, Invariance, PTL DEF Spec, ReleasedOnlyByReset

-----------------------------------------------------------------------------
(* The loss of communication.                                              *)

LossTrips(d) ==
    CommPolicy = "TRIP" /\ ~WatchdogOk(d) /\ d.commLoss >= CommHold => Tripped(d)

SameWatch(d, r) ==
    r.wdAge = d.wdAge /\ r.wdValue = d.wdValue /\ r.commLoss = d.commLoss

LEMMA LossStays ==
    ASSUME NEW d, NEW r, LossTrips(d), SameWatch(d, r), Tripped(d) => Tripped(r)
    PROVE  LossTrips(r)
BY DEF LossTrips, SameWatch, WatchdogOk

LEMMA UpdateCommTrips ==
    ASSUME NEW d \in DeviceState
    PROVE  LossTrips(UpdateCommStatus(d))
<1> DEFINE aged == [d EXCEPT !.wdAge = Saturate(d.wdAge, WatchdogTimeout)]
           loss == IF WatchdogOk(aged) THEN 0 ELSE Saturate(d.commLoss, CommHold)
           next == [aged EXCEPT !.commLoss = loss]
           lost == /\ ~WatchdogOk(next) /\ next.commLoss >= CommHold /\ CommPolicy = "TRIP"
                   /\ ~Tripped(next)
<1>1. UpdateCommStatus(d) = IF lost THEN TripBy(next, COMM) ELSE next
  BY DEF UpdateCommStatus
<1>2. DOMAIN next = DOMAIN d /\ "phase" \in DOMAIN d
  BY DEF DeviceState
<1> HIDE DEF next
<1>3. CASE lost
  <2>1. TripBy(next, COMM).phase = "TRIPPED"
    BY <1>2 DEF TripBy
  <2> QED
    BY <1>1, <1>3, <2>1 DEF LossTrips, Tripped
<1>4. CASE ~lost
  BY <1>1, <1>4 DEF LossTrips
<1> QED
  BY <1>3, <1>4

LEMMA LaterStagesWatch ==
    ASSUME NEW d \in DeviceState, NEW in \in ScanInputs
    PROVE  /\ SameWatch(d, SelfHoldStep(d, in))
           /\ SameWatch(d, Physics(d, in))
           /\ SameWatch(d, Protect(d, in))
           /\ SameWatch(d, UpdateManual(d))
<1>1. ASSUME NEW e \in DeviceState
      PROVE  /\ SameWatch(e, HoldRunning(e, in)) /\ SameWatch(e, HoldStopped(e, in))
             /\ SameWatch(e, [e EXCEPT !.permTimer = 0, !.stopTimer = 0])
             /\ SameWatch(e, [e EXCEPT !.permTimer = 0])
             /\ SameWatch(e, [e EXCEPT !.stopTimer = 0])
             /\ SameWatch(e, e)
  BY DEF SameWatch, HoldRunning, HoldStopped, DeviceState
<1>2. SameWatch(d, SelfHoldStep(d, in))
  <2>1. SelfHoldStep(d, in) \in
          {d, HoldRunning(d, in), HoldStopped(d, in), [d EXCEPT !.permTimer = 0, !.stopTimer = 0],
           [d EXCEPT !.permTimer = 0], [d EXCEPT !.stopTimer = 0]}
    BY DEF SelfHoldStep
  <2> QED
    BY <1>1, <2>1
<1>3. SameWatch(d, Physics(d, in)) /\ SameWatch(d, Protect(d, in)) /\ SameWatch(d, UpdateManual(d))
  BY DEF SameWatch, Physics, Protect, UpdateManual, DeviceState
<1> QED
  BY <1>2, <1>3

LEMMA ScanTripsLost ==
    ASSUME Sound(dev), pending \in [Regs -> WordOrNone], NEW in \in Inputs, Scan(in)
    PROVE  LossTrips(dev')
<1> DEFINE c == ApplyCommands(dev, pending, in)
           u == UpdateCommStatus(c)
           h == SelfHoldStep(u, in)
           y == Physics(h, in)
           p == Protect(y, in)
<1>0. in \in ScanInputs
  BY DeviceAssumption DEF DeviceAssumption
<1>1. dev' = UpdateManual(p)
  BY Zenon DEF Scan
<1>2. Sound(c)
  BY <1>0, ApplyCommandsSound
<1> HIDE DEF c
<1>3. Sound(u) /\ LossTrips(u)
  BY <1>2, UpdateCommSound, UpdateCommTrips DEF Continues, Sound
<1> HIDE DEF u
<1>4. Sound(h) /\ LossTrips(h)
  BY <1>0, <1>3, SelfHoldSound, LaterStagesWatch, LossStays DEF Continues, Sound
<1> HIDE DEF h
<1>5. Sound(y) /\ LossTrips(y)
  BY <1>0, <1>4, PhysicsSound, LaterStagesWatch, LossStays DEF Continues, Sound
<1> HIDE DEF y
<1>6. Sound(p) /\ LossTrips(p)
  BY <1>0, <1>5, ProtectSound, LaterStagesWatch, LossStays DEF Continues, Sound
<1> HIDE DEF p
<1> QED
  BY <1>0, <1>1, <1>6, UpdateManualSound, LaterStagesWatch, LossStays DEF Continues, Sound

(* Under the TRIP policy no device is out of TRIPPED while its watchdog    *)
(* has been lost for CommHold scans, if that is at least one: not even     *)
(* after a reset that _handle_reset accepts in the same scan.              *)
THEOREM CommLossTrips ==
    ASSUME CommHold > 0
    PROVE  Spec => []CommLossHoldsTrip
<1>1. Init => LossTrips(dev)
  BY DeviceAssumption DEF Init, NewDevice, LossTrips, DeviceAssumption
<1>2. IInv /\ LossTrips(dev) /\ [Next]_vars => LossTrips(dev)'
  <2> SUFFICES ASSUME IInv, LossTrips(dev), [Next]_vars PROVE LossTrips(dev')
    BY DEF LossTrips, WatchdogOk, Tripped
  <2>1. ASSUME NEW w \in Writes, Write(w) PROVE dev' = dev
    BY <2>1 DEF Write
  <2>2. ASSUME NEW in \in Inputs, Scan(in) PROVE LossTrips(dev')
    BY <2>2, ScanTripsLost, IInvSound
  <2>3. UNCHANGED vars => dev' = dev
    BY DEF vars
  <2> QED
    BY <2>1, <2>2, <2>3 DEF Next
<1>3. LossTrips(dev) => CommLossHoldsTrip
  BY DEF LossTrips, CommLossHoldsTrip
<1> QED
  BY <1>1, <1>2, <1>3, Invariance, PTL DEF Spec
===============================================================================
