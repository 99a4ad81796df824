------------------------------- MODULE Generator -------------------------------
(***************************************************************************)
(* devices/generator/main.py: the breaker, what opens it and what closes   *)
(* it.  Whether speed, frequency, voltage and phase are in their bands and *)
(* whether the turbine is tripped are inputs of the scan.  Load, power and *)
(* current are left out.                                                   *)
(***************************************************************************)
EXTENDS ScanFrame

CONSTANTS
    AutoSync,          \* control.auto_sync
    LongLoss           \* the failure policy opens the breaker after a long loss

ASSUME GeneratorAssumption == {AutoSync, LongLoss} \subseteq BOOLEAN

VARIABLE gen

GeneratorState ==
    [phase    : Phases,
     closed   : BOOLEAN,      \* breaker_closed
     blocked  : BOOLEAN,      \* auto_sync_blocked
     failed   : BOOLEAN,      \* alarm BREAKER_FAIL
     heldOpen : BOOLEAN,      \* history: opened by hand or for safety, not started since
     byHand   : BOOLEAN,      \* history: BREAKER_CLOSE came in the last scan
     danger   : BOOLEAN,      \* history: the last scan saw a reason to stay open
     stuck    : BOOLEAN]      \* history: breaker_fail_to_open in the last scan

GeneratorInputs ==
    [command  : ScanCommands,
     close    : BOOLEAN,      \* BREAKER_CLOSE
     open     : BOOLEAN,      \* BREAKER_OPEN
     auto     : BOOLEAN,      \* auto_mode
     safe     : BOOLEAN,      \* FORCE_SAFE
     turbine  : BOOLEAN,      \* turbine.tripped
     before   : BOOLEAN,      \* the electrical permissives, by the values of the last scan
     now      : BOOLEAN,      \* the same by the values of this one
     stuck    : BOOLEAN,      \* fault breaker_fail_to_open
     jammed   : BOOLEAN,      \* fault breaker_fail_to_close
     loss     : BOOLEAN,      \* comm_loss_seconds is past its limit
     trips    : BOOLEAN]      \* a protection trips after step()

NewGenerator ==
    [phase |-> "OFF", closed |-> FALSE, blocked |-> FALSE, failed |-> FALSE,
     heldOpen |-> FALSE, byHand |-> FALSE, danger |-> FALSE, stuck |-> FALSE]

Deliberate == {"MANUAL", "STOP", "FORCE_SAFE", "COMM_TIMEOUT"}

\* Mutant: only the operator's coil keeps the automatic synchronisation off.
OpenUnblocked(g, why, stuck) ==
    IF ~g.closed THEN g
    ELSE IF stuck THEN [g EXCEPT !.failed = TRUE]
    ELSE [g EXCEPT !.closed = FALSE,
                   !.blocked = @ \/ why = "MANUAL",
                   !.heldOpen = @ \/ why \in Deliberate]

(* _open_breaker: nothing to do, and nothing to remember, when it is open. *)
OpenBreaker(g, why, stuck) ==
    IF ~g.closed THEN g
    ELSE IF stuck THEN [g EXCEPT !.failed = TRUE]
    ELSE [g EXCEPT !.closed = FALSE,
                   !.blocked = @ \/ why \in Deliberate,
                   !.heldOpen = @ \/ why \in Deliberate]

(* sync_permissives; electrical stands for speed, frequency, voltage and   *)
(* phase.                                                                  *)
SyncPermitted(g, in, electrical) ==
    electrical /\ ~in.turbine /\ g.phase # "TRIPPED"

(* _close_breaker; the operating state of the generator is not asked for.  *)
CloseBreaker(g, in, permitted) ==
    IF ~permitted THEN g
    ELSE IF in.jammed THEN [g EXCEPT !.failed = TRUE]
    ELSE [g EXCEPT !.closed = TRUE]

GeneratorOnStart(g) ==
    [g EXCEPT !.blocked = FALSE, !.heldOpen = FALSE, !.phase = OnStart("generator", @)]

GeneratorOnStop(g, stuck) ==
    [OpenBreaker(g, "STOP", stuck) EXCEPT !.phase = OnStop("generator", @)]

\* The two pulses at the head of step(), on the values of the last scan.
BreakerPulses(g, in) ==
    LET g1 == IF in.close THEN CloseBreaker(g, in, SyncPermitted(g, in, in.before)) ELSE g
    IN  IF in.open THEN OpenBreaker(g1, "MANUAL", in.stuck) ELSE g1

\* Mutant: a forced safe state opens the breaker only of a generator that is tripped.
SafetyIgnoringForce(g, in) ==
    IF in.turbine \/ g.phase = "TRIPPED" THEN OpenBreaker(g, "TRIP", in.stuck) ELSE g

Safety(g, in) ==
    IF in.turbine \/ g.phase = "TRIPPED" \/ in.safe
    THEN OpenBreaker(g, IF in.turbine THEN "TURBINE_TRIP"
                        ELSE IF in.safe THEN "FORCE_SAFE" ELSE "TRIP", in.stuck)
    ELSE g

Synchronise(g, in) ==
    IF /\ AutoSync /\ in.auto
       /\ g.phase = "RUNNING"
       /\ ~g.closed /\ ~g.blocked
       /\ ~in.safe
    THEN CloseBreaker(g, in, SyncPermitted(g, in, in.now)) ELSE g

(* step(): the pulses, the reasons to open, the automatic synchronisation, *)
(* in this order.                                                          *)
GeneratorStep(g, in) == Synchronise(Safety(BreakerPulses(g, in), in), in)

(* _apply_commands and _self_hold_step: what they call of the program; a   *)
(* trip forces the state first.                                            *)
GeneratorTripped(g, stuck) ==
    OpenBreaker([g EXCEPT !.phase = "TRIPPED"], "PROTECTION", stuck)

GeneratorCommanded(g, command, stuck) ==
    CASE Starts(g.phase, command) -> GeneratorOnStart(g)
      [] Stops(g.phase, command)  -> GeneratorOnStop(g, stuck)
      [] Resets(g.phase, command) -> [g EXCEPT !.phase = "OFF"]
      [] command = "TRIP"         -> GeneratorTripped(g, stuck)
      [] OTHER                    -> g

(* The protections come last, on what step() has computed.                 *)
GeneratorScan(in) ==
    LET g1 == GeneratorCommanded(gen, in.command, in.stuck)
        g2 == IF LongLoss /\ in.loss THEN OpenBreaker(g1, "COMM_TIMEOUT", in.stuck) ELSE g1
        g3 == GeneratorStep(g2, in)
        g4 == IF in.trips THEN GeneratorTripped(g3, in.stuck) ELSE g3
    IN  gen' = [g4 EXCEPT !.byHand = in.close, !.danger = in.turbine \/ in.safe, !.stuck = in.stuck]

GeneratorInit == gen = NewGenerator
GeneratorNext == \E in \in GeneratorInputs : GeneratorScan(in)
GeneratorSpec == GeneratorInit /\ [][GeneratorNext]_gen

-----------------------------------------------------------------------------
GeneratorTypeOK == gen \in GeneratorState

(***************************************************************************)
(* At the end of a scan the breaker is open whenever the generator or the  *)
(* turbine is tripped or the safe state is forced, whichever of the close  *)
(* coil, the automatic synchronisation and the trip came in that scan;     *)
(* only a breaker that refuses to open is closed then.                     *)
(***************************************************************************)
SafeMeansOpen ==
    gen.closed /\ (gen.phase = "TRIPPED" \/ gen.danger) => gen.stuck

(***************************************************************************)
(* What an operator, a stop, a forced safe state or a lost PLC has opened  *)
(* is not closed by the automatic synchronisation: until the generator is  *)
(* started again only BREAKER_CLOSE closes it, however often it opened and *)
(* closed since.                                                           *)
(***************************************************************************)
NoAutomaticReclose ==
    [][ gen.heldOpen /\ ~gen.closed /\ gen'.closed => gen'.byHand \/ ~gen'.heldOpen ]_gen
===============================================================================
