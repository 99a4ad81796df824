-------------------------------- MODULE Device --------------------------------
(***************************************************************************)
(* common/device/base_device.py: one plant device as its scan cycle sees   *)
(* it.  The program is one asyncio thread and scan() never awaits, so a    *)
(* scan is one step; it is written as the composition of the stages that   *)
(* scan() calls, in their order, each an operator on the device record.    *)
(*                                                                         *)
(* Modbus writes are queued and drained whole at the start of the next     *)
(* scan, in order, so the queue is modelled by what draining it does: per  *)
(* register, the value of the last queued write.                           *)
(*                                                                         *)
(* The process is the environment: at each scan it decides whether the     *)
(* start permissives hold, whether the device is needed, where every       *)
(* protected value lies and whether the next phase has been reached.       *)
(* Alarms, totalizers, the register image and the outputs are left out.    *)
(***************************************************************************)
EXTENDS Lifecycle, ProtectionEngine, FiniteSets

CONSTANTS
    Kind,              \* the device program, a member of DeviceKinds
    SelfHold,          \* control.self_hold
    LabMode,           \* LAB_MODE
    CommPolicy,        \* comm.failure_policy
    SelfStartDelay,    \* scans the permissives must hold before a self start
    SelfRestartDelay,  \* scans without demand before a self stop
    WatchdogTimeout,   \* scans without a new watchdog value before it is lost
    CommHold,          \* scans of lost watchdog before the failure policy acts
    Writes,            \* the register writes clients may issue
    Inputs,            \* what the process may answer to one scan
    MaxPending         \* bound: registers with a queued write at once

Pulses == {"START", "STOP", "RESET_TRIP", "TRIP_TEST"}
Levels == {"EMERGENCY_STOP", "FORCE_SAFE", "RESET_KEY", "COMMAND_SEQUENCE",
           "CONTROL_MODE", "WATCHDOG_COUNTER"}
Regs   == Pulses \cup Levels

MaxWord         == 65535
Word            == 0 .. MaxWord
ResetKeyValue   == 42330          \* 0xA55A
RemoteAuto      == 3
MaintenanceMode == 4
NoWrite         == MaxWord + 1
NoSequence      == MaxWord + 1    \* _last_command_sequence = -1
WordOrNone      == 0 .. MaxWord + 1

(***************************************************************************)
(* What one scan reads of the process.  The permissives are read twice,    *)
(* when START is handled and in the self hold.                             *)
(***************************************************************************)
ScanInputs ==
    [startPermit : BOOLEAN,        \* start_permissives() when START is handled
     permit      : BOOLEAN,        \* start_permissives() in _self_hold_step
     needed      : BOOLEAN,        \* self_start_ready()
     standby     : BOOLEAN,        \* self_stop_request()
     moved       : BOOLEAN,        \* the process reached the next phase
     zone        : [Prot -> Zones]]

ASSUME DeviceAssumption ==
    /\ Kind \in DeviceKinds
    /\ SelfHold \in BOOLEAN
    /\ LabMode \in BOOLEAN
    /\ CommPolicy \in {"LOCAL_AUTO", "HOLD_LAST", "FAIL_LOW", "FAIL_HIGH",
                      "FAIL_CLOSE", "FAIL_OPEN", "LOCAL_FALLBACK", "TRIP"}
    /\ SelfStartDelay \in Nat
    /\ SelfRestartDelay \in Nat
    /\ WatchdogTimeout \in Nat
    /\ CommHold \in Nat
    /\ Writes \subseteq [reg : Regs, val : Word]
    /\ Inputs \subseteq ScanInputs
    /\ MaxPending \in Nat

VARIABLES
    dev,       \* the memory of the device process
    pending    \* _cmd_queue, as the writes it will apply

vars == <<dev, pending>>

DeviceState ==
    [phase        : Phases,               \* self.sm
     prot         : EngineState,          \* self.protection
     operatorStop : BOOLEAN,
     permTimer    : Nat,                  \* permissive_timer
     stopTimer    : Nat,                  \* self_stop_timer
     lastSequence : WordOrNone,
     reg          : [Levels -> Word],     \* self.hold and self.coil
     wdValue      : Word,
     wdAge        : Nat,
     commLoss     : Nat]

Empty == [r \in Regs |-> NoWrite]

NewDevice ==
    [phase |-> InitialPhase(Kind), prot |-> NewEngine, operatorStop |-> FALSE,
     permTimer |-> 0, stopTimer |-> 0, lastSequence |-> NoSequence,
     reg |-> [r \in Levels |-> IF r = "CONTROL_MODE" THEN RemoteAuto ELSE 0],
     wdValue |-> 0, wdAge |-> 0, commLoss |-> 0]

Estop(d)       == d.reg["EMERGENCY_STOP"] # 0
ForceSafe(d)   == d.reg["FORCE_SAFE"] # 0
Maintenance(d) == d.reg["CONTROL_MODE"] = MaintenanceMode
Tripped(d)     == d.phase = "TRIPPED"
SelfHolding    == SelfHold /\ HasStartStop(Kind)
WatchdogOk(d)  == d.wdAge < WatchdogTimeout /\ d.wdValue # 0

-----------------------------------------------------------------------------
(***************************************************************************)
(* _apply_commands: drain the queue, then the pulses in their fixed order. *)
(***************************************************************************)
Drain(d, q) ==
    [d EXCEPT !.reg = [r \in Levels |-> IF q[r] = NoWrite THEN d.reg[r] ELSE q[r]]]

Pulsed(q, p) == q[p] \notin {0, NoWrite}

MayStart(d, in) ==
    /\ ~Tripped(d)
    /\ ~AnyLatched(d.prot)
    /\ ~Estop(d)
    /\ ~Maintenance(d)
    /\ in.startPermit

\* Mutant: START does not look at the interlocks of the device.
StartUnconditionally(d, in) ==
    [d EXCEPT !.operatorStop = FALSE,
              !.phase = IF d.phase \in Active THEN d.phase ELSE OnStart(Kind, d.phase)]

(* A START that is refused has already released the operator's stop. *)
HandleStart(d, in) ==
    [d EXCEPT !.operatorStop = FALSE,
              !.phase = IF MayStart(d, in) /\ d.phase \notin Active
                        THEN OnStart(Kind, d.phase) ELSE d.phase]

HandleStop(d) ==
    [d EXCEPT !.operatorStop = TRUE,
              !.permTimer = 0,
              !.phase = IF d.phase \in {"OFF", "TRIPPED"}
                        THEN d.phase ELSE OnStop(Kind, d.phase)]

\* Mutant: the emergency stop does not block a reset.
MayResetUnderEstop(d) ==
    /\ d.reg["RESET_KEY"] = ResetKeyValue
    /\ d.reg["COMMAND_SEQUENCE"] # d.lastSequence
    /\ CanReset(d.prot)

MayReset(d) ==
    /\ d.reg["RESET_KEY"] = ResetKeyValue
    /\ ~Estop(d)
    /\ d.reg["COMMAND_SEQUENCE"] # d.lastSequence
    /\ CanReset(d.prot)

HandleReset(d) ==
    IF ~MayReset(d) THEN d
    ELSE [d EXCEPT !.lastSequence = d.reg["COMMAND_SEQUENCE"],
                   !.prot = Reset(d.prot),
                   !.phase = IF Tripped(d) THEN "OFF" ELSE d.phase]

\* Mutant: the trip is latched but the state machine is not forced.
LatchOnly(d, c) == [d EXCEPT !.prot = ForceTrip(d.prot, c)]

(* force_trip followed by _trip *)
TripBy(d, c) == [d EXCEPT !.prot = ForceTrip(d.prot, c), !.phase = "TRIPPED"]

HandleTripTest(d) == IF LabMode THEN TripBy(d, TEST) ELSE d

\* Mutant: the emergency stop does not trip a device at rest.
EstopOnlyRunning(d) == IF Estop(d) /\ d.phase \in Active THEN TripBy(d, ESTOP) ELSE d

HandleEstop(d) == IF Estop(d) /\ ~Tripped(d) THEN TripBy(d, ESTOP) ELSE d

NoteWatchdog(d) ==
    IF d.reg["WATCHDOG_COUNTER"] = d.wdValue THEN d
    ELSE [d EXCEPT !.wdValue = d.reg["WATCHDOG_COUNTER"], !.wdAge = 0]

ApplyCommands(d, q, in) ==
    LET d0 == Drain(d, q)
        d1 == IF Pulsed(q, "START")      THEN HandleStart(d0, in) ELSE d0
        d2 == IF Pulsed(q, "STOP")       THEN HandleStop(d1)      ELSE d1
        d3 == IF Pulsed(q, "RESET_TRIP") THEN HandleReset(d2)     ELSE d2
        d4 == IF Pulsed(q, "TRIP_TEST")  THEN HandleTripTest(d3)  ELSE d3
    IN  NoteWatchdog(HandleEstop(d4))

(***************************************************************************)
(* _update_comm_status.  Every policy but TRIP only changes the outputs.   *)
(***************************************************************************)
\* Mutant: a device at rest does not trip when its watchdog is lost.
CommTripsOnlyRunning(d) ==
    LET aged == [d EXCEPT !.wdAge = Saturate(d.wdAge, WatchdogTimeout)]
        next == [aged EXCEPT !.commLoss = IF WatchdogOk(aged) THEN 0
                                          ELSE Saturate(d.commLoss, CommHold)]
    IN  IF /\ ~WatchdogOk(next)
           /\ next.commLoss >= CommHold
           /\ CommPolicy = "TRIP"
           /\ d.phase \in Active
        THEN TripBy(next, COMM) ELSE next

\* Mutant: a watchdog that was never written does not age.
CommIgnoresSilence(d) ==
    LET aged == [d EXCEPT !.wdAge = Saturate(d.wdAge, WatchdogTimeout)]
        next == [aged EXCEPT !.commLoss = IF d.wdValue = 0 \/ WatchdogOk(aged) THEN 0
                                          ELSE Saturate(d.commLoss, CommHold)]
    IN  IF /\ ~WatchdogOk(next)
           /\ next.commLoss >= CommHold
           /\ CommPolicy = "TRIP"
           /\ ~Tripped(next)
        THEN TripBy(next, COMM) ELSE next

UpdateCommStatus(d) ==
    LET aged == [d EXCEPT !.wdAge = Saturate(d.wdAge, WatchdogTimeout)]
        next == [aged EXCEPT !.commLoss = IF WatchdogOk(aged) THEN 0
                                          ELSE Saturate(d.commLoss, CommHold)]
    IN  IF /\ ~WatchdogOk(next)
           /\ next.commLoss >= CommHold
           /\ CommPolicy = "TRIP"
           /\ ~Tripped(next)
        THEN TripBy(next, COMM) ELSE next

(***************************************************************************)
(* _self_hold_step: the device starts itself when its permissives and its  *)
(* demand have held for SelfStartDelay, and stops itself when the demand   *)
(* has been gone for SelfRestartDelay.                                     *)
(***************************************************************************)
TripLocked(d) == Tripped(d) \/ AnyLatched(d.prot) \/ Estop(d) \/ ForceSafe(d)

HoldRunning(d, in) ==
    LET quit == in.standby /\ d.stopTimer + 1 >= SelfRestartDelay
    IN  [d EXCEPT !.permTimer = 0,
                  !.stopTimer = IF in.standby /\ ~quit THEN d.stopTimer + 1 ELSE 0,
                  !.phase = IF quit THEN OnStop(Kind, d.phase) ELSE d.phase]

\* Mutant: the permissive timer is cleared whenever it has not expired.
HoldStoppedForgetting(d, in) ==
    LET go == in.permit /\ in.needed /\ d.permTimer + 1 >= SelfStartDelay
    IN  [d EXCEPT !.stopTimer = 0,
                  !.permTimer = 0,
                  !.phase = IF go THEN OnStart(Kind, d.phase) ELSE d.phase]

HoldStopped(d, in) ==
    LET ready == in.permit /\ in.needed
        go    == ready /\ d.permTimer + 1 >= SelfStartDelay
    IN  [d EXCEPT !.stopTimer = 0,
                  !.permTimer = IF ready /\ ~go THEN d.permTimer + 1 ELSE 0,
                  !.phase = IF go THEN OnStart(Kind, d.phase) ELSE d.phase]

\* Mutant: the self hold does not look at the operator's stop.
SelfHoldIgnoresStop(d, in) ==
    IF ~SelfHolding \/ Maintenance(d)  THEN d
    ELSE IF TripLocked(d)              THEN [d EXCEPT !.permTimer = 0, !.stopTimer = 0]
    ELSE IF d.phase \in Active         THEN HoldRunning(d, in)
    ELSE HoldStopped(d, in)

SelfHoldStep(d, in) ==
    IF ~SelfHolding \/ Maintenance(d)  THEN d
    ELSE IF TripLocked(d)              THEN [d EXCEPT !.permTimer = 0, !.stopTimer = 0]
    ELSE IF d.operatorStop             THEN [d EXCEPT !.permTimer = 0]
    ELSE IF d.phase \in Active         THEN HoldRunning(d, in)
    ELSE IF d.phase = "STOPPING"       THEN [d EXCEPT !.stopTimer = 0]
    ELSE HoldStopped(d, in)

(***************************************************************************)
(* step, then the protections on the values it produced.                   *)
(***************************************************************************)
Physics(d, in) == [d EXCEPT !.phase = PhysicsStep(Kind, d.phase, in.moved)]

Protect(d, in) ==
    [d EXCEPT !.prot = Evaluate(d.prot, in.zone),
              !.phase = IF NewTrips(d.prot, in.zone) # {} THEN "TRIPPED" ELSE d.phase]

(***************************************************************************)
(* _update_manual_protections: the program-triggered trips stay active     *)
(* while their condition lasts, and are resettable when it does not.       *)
(***************************************************************************)
Holds(d, c) ==
    \/ c = ESTOP /\ Estop(d)
    \/ c = COMM  /\ ~WatchdogOk(d) /\ CommPolicy = "TRIP"

UpdateManual(d) ==
    LET held == {c \in Manual : c \in d.prot.latched}
        on   == {c \in held : c \in d.prot.active /\ Holds(d, c)}
    IN  [d EXCEPT !.prot = [d.prot EXCEPT
            !.active     = (d.prot.active \ held) \cup on,
            !.resettable = (d.prot.resettable \ held) \cup (held \ on)]]

-----------------------------------------------------------------------------
Init ==
    /\ dev = NewDevice
    /\ pending = Empty

(* _on_write: a write request joins the queue. *)
Write(w) ==
    /\ Cardinality({r \in Regs : pending[r] # NoWrite} \cup {w.reg}) <= MaxPending
    /\ pending' = [pending EXCEPT ![w.reg] = w.val]
    /\ UNCHANGED dev

(* One scan: the stages in order, each bound to a name.                    *)
Scan(in) ==
    /\ \E commanded \in {ApplyCommands(dev, pending, in)} :
       \E held \in {SelfHoldStep(UpdateCommStatus(commanded), in)} :
       \E protected \in {Protect(Physics(held, in), in)} :
            dev' = UpdateManual(protected)
    /\ pending' = Empty

Next ==
    \/ \E w \in Writes : Write(w)
    \/ \E in \in Inputs : Scan(in)

Spec == Init /\ [][Next]_vars

(* The bus ticks the device; when it does not, the device scans on its own  *)
(* (_handle_no_message).  So scans never stop coming.                       *)
LiveSpec == Spec /\ WF_vars(\E in \in Inputs : Scan(in))

-----------------------------------------------------------------------------
TypeOK ==
    /\ dev \in DeviceState
    /\ pending \in [Regs -> WordOrNone]

(***************************************************************************)
(* The trip latch and the state machine tell one story at every scan       *)
(* boundary: the device is TRIPPED exactly while something is latched,     *)
(* whatever mixture of operator commands, emergency stop, trip test,       *)
(* protections and physics led there; an active trip is latched; and there *)
(* is one first-out exactly while there is a latch, itself a latched trip. *)
(* _trip, _handle_reset and evaluate each keep a part of this.             *)
(***************************************************************************)
Consistent(d) == EngineConsistent(d.prot) /\ (Tripped(d) <=> AnyLatched(d.prot))

LatchConsistent == Consistent(dev)

(***************************************************************************)
(* As long as the emergency-stop coil is on, the device is TRIPPED: no     *)
(* start, reset, self start or order of commands within a scan gets it     *)
(* out.                                                                    *)
(***************************************************************************)
EstopHoldsTrip == Estop(dev) => Tripped(dev)

(***************************************************************************)
(* A latch is released, or a captured first-out replaced, only in a scan   *)
(* that applies RESET_TRIP with the reset key, the emergency stop off, a   *)
(* command sequence other than that of the reset before, and every latched *)
(* protection already inactive and resettable.  No recovery of the process *)
(* value, START, STOP or later trip does it.                               *)
(***************************************************************************)
ResetAuthorised ==
    LET d == Drain(dev, pending)
    IN  /\ Pulsed(pending, "RESET_TRIP")
        /\ d.reg["RESET_KEY"] = ResetKeyValue
        /\ d.reg["EMERGENCY_STOP"] = 0
        /\ d.reg["COMMAND_SEQUENCE"] # dev.lastSequence
        /\ \A c \in dev.prot.latched : c \notin dev.prot.active /\ c \in dev.prot.resettable

ReleasedOnlyByReset ==
    [][ \/ dev.prot.latched \ dev'.prot.latched # {}
        \/ dev.prot.firstOut \notin {NoCode, dev'.prot.firstOut}
        => ResetAuthorised ]_vars

(***************************************************************************)
(* After an operator's STOP the device stays stopped: the self hold does   *)
(* not start it again until a START is applied.                            *)
(***************************************************************************)
StopHoldsUntilStart ==
    [][ /\ dev.operatorStop
        /\ dev.phase \notin Active
        /\ dev'.phase \in Active
        => Pulsed(pending, "START") ]_vars

(***************************************************************************)
(* Nothing puts a stopped device in motion in a scan that ends in          *)
(* maintenance mode, under emergency stop or with a latched trip, or in    *)
(* which the permissives fail whoever asks for them: a START must find     *)
(* them fulfilled when it is handled, and the self hold must find them     *)
(* fulfilled, and the device needed, when its turn comes.  However the     *)
(* commands of the scan are combined, no other way leads into motion.      *)
(***************************************************************************)
StartsOnlyWhenAllowed ==
    [][ \A in \in Inputs :
          /\ dev.phase \notin Active
          /\ dev'.phase \in Active
          /\ Scan(in)
          => /\ ~Maintenance(dev')
             /\ ~Estop(dev')
             /\ dev'.prot.latched = {}
             /\ \/ Pulsed(pending, "START") /\ in.startPermit
                \/ in.permit /\ in.needed ]_vars

(***************************************************************************)
(* A protection is released only from beyond its reset threshold: what the *)
(* operating procedure asks of every reset ("all safety conditions, with   *)
(* hysteresis and reset_delay, must hold").                                *)
(***************************************************************************)
ResetNeedsRecovery ==
    [][ \A p \in Prot : p \in dev.prot.latched \ dev'.prot.latched
                        => dev.prot.lastValue[p] = "cleared" ]_vars

(***************************************************************************)
(* Under the TRIP policy no device is out of TRIPPED while its watchdog    *)
(* has been lost for CommHold scans, not even after an accepted reset.     *)
(***************************************************************************)
CommLossHoldsTrip ==
    /\ CommPolicy = "TRIP"
    /\ ~WatchdogOk(dev)
    /\ dev.commLoss >= CommHold
    => Tripped(dev)

(***************************************************************************)
(* Under the TRIP policy a controller that stays silent trips the device:  *)
(* the watchdog comes back or the device ends TRIPPED.                     *)
(***************************************************************************)
LostWatchdogTrips ==
    CommPolicy = "TRIP" /\ ~WatchdogOk(dev) ~> Tripped(dev) \/ WatchdogOk(dev)

(***************************************************************************)
(* A device at rest that nothing locks starts by itself, or something      *)
(* locks it (asked of a process that always permits and needs it).         *)
(***************************************************************************)
SelfStarts ==
    dev.phase = "OFF" ~> \/ dev.phase \in Active
                         \/ TripLocked(dev) \/ dev.operatorStop \/ Maintenance(dev)
===============================================================================
