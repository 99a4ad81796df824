--------------------------------- MODULE Signals ---------------------------------
(***************************************************************************)
(* How old a process value is, and what its readers are told of it: the    *)
(* signal table of plant_bus/app/bus.py between the device that computes a *)
(* value and a device, or the observers, that read it (base_device.py,     *)
(* common/simbus/protocol.py).                                             *)
(*                                                                         *)
(* The bus counts ticks; a restore sets the count back.  round counts them *)
(* without going back, and is there to say how old a value is in truth.    *)
(* A tick that waits for its answers no longer than tick_timeout may begin *)
(* with any number of them on their way.  Values are left out.             *)
(***************************************************************************)
EXTENDS Integers, Sequences

CONSTANTS
    BadAge,            \* bad_seconds, in ticks
    MaxRound,          \* bound on the ticks of the bus
    MaxLate            \* bound on the answers on their way

ASSUME SignalsAssumption == {BadAge, MaxRound, MaxLate} \subseteq Nat

VARIABLES
    clock,             \* tick, and round
    table,             \* the signal, in signals
    answers,           \* the producer's TICK_DONE messages on their way
    copy,              \* the signal in the snapshot that may be restored
    sight              \* history: what a reader was last told

signalVars == <<clock, table, answers, copy, sight>>

Quality == {"GOOD", "STALE", "BAD"}

(* lost: computed before a restore, told to the bus after it.              *)
Signal == [tick : -1 .. MaxRound, round : -1 .. MaxRound, forced : BOOLEAN, lost : BOOLEAN]

NoSignal == [tick |-> -1, round |-> -1, forced |-> FALSE, lost |-> FALSE]

SignalsInit ==
    /\ clock = [tick |-> 0, round |-> 0]
    /\ table = NoSignal
    /\ answers = <<>>
    /\ copy = [tick |-> 0, age |-> 0, signal |-> NoSignal]
    /\ sight = [quality |-> "BAD", lag |-> 0, excused |-> FALSE]

-----------------------------------------------------------------------------
(* _quality_for, for a tick and a signal.                                  *)
QualityFor(tick, s) ==
    IF s.forced                      THEN "GOOD"
    ELSE IF s.tick < 0               THEN "BAD"
    ELSE IF tick - s.tick <= 1       THEN "GOOD"       \* 1.5 * dt
    ELSE IF tick - s.tick <= BadAge  THEN "STALE"
    ELSE "BAD"

View(c, s) == [quality |-> QualityFor(c.tick, s), lag |-> c.round - s.round,
               excused |-> s.forced \/ s.lost]

(* _do_tick: the producer and the reader get the TICK; connected: there is *)
(* a producer to answer it.                                                *)
BeginTick(connected) ==
    /\ clock.round < MaxRound /\ (connected => Len(answers) < MaxLate)
    /\ clock' = [tick |-> clock.tick + 1, round |-> clock.round + 1]
    /\ sight' = View(clock', table)
    /\ answers' = IF connected
                  THEN Append(answers, [tick |-> clock'.tick, round |-> clock'.round, lost |-> FALSE])
                  ELSE answers
    /\ UNCHANGED <<table, copy>>

(* The process image for the observers at the end of a tick.               *)
Broadcast ==
    /\ clock.round > 0
    /\ sight' = View(clock, table)
    /\ UNCHANGED <<clock, table, answers, copy>>

\* Mutant: a value counts from the tick in which it arrives.
TickDoneOnArrival ==
    /\ answers # <<>>
    /\ answers' = Tail(answers)
    /\ table' = IF table.forced THEN table
                ELSE [tick |-> clock.tick, round |-> Head(answers).round,
                      forced |-> FALSE, lost |-> Head(answers).lost]
    /\ UNCHANGED <<clock, copy, sight>>

(* _on_tick_done: the value is of the tick it was computed in, however     *)
(* late it comes; a forced signal stays as it is.                          *)
TickDone ==
    /\ answers # <<>>
    /\ answers' = Tail(answers)
    /\ table' = IF table.forced THEN table
                ELSE [tick |-> Head(answers).tick, round |-> Head(answers).round,
                      forced |-> FALSE, lost |-> Head(answers).lost]
    /\ UNCHANGED <<clock, copy, sight>>

(* The producer's connection breaks with what is on its way.               *)
Disconnect ==
    /\ answers # <<>>
    /\ answers' = <<>>
    /\ UNCHANGED <<clock, table, copy, sight>>

(* The reader hears nothing of the bus and scans alone with the inputs it  *)
(* has (_handle_no_message); the quality depends on how long it waited.    *)
ScanAlone(quality) ==
    /\ clock.round > 0
    /\ sight' = [sight EXCEPT !.quality = quality]
    /\ UNCHANGED <<clock, table, answers, copy>>

-----------------------------------------------------------------------------
(* force_signal; released, the value stays and grows old.                  *)
ForceSignal ==
    /\ table' = [tick |-> clock.tick, round |-> clock.round, forced |-> TRUE, lost |-> FALSE]
    /\ UNCHANGED <<clock, answers, copy, sight>>

UnforceSignal ==
    /\ table.forced
    /\ table' = [table EXCEPT !.forced = FALSE]
    /\ UNCHANGED <<clock, answers, copy, sight>>

(* The tick and the table of a snapshot; what is on its way belongs to the *)
(* time before.                                                            *)
TakeCopy ==
    /\ copy' = [tick |-> clock.tick, age |-> clock.round - table.round, signal |-> table]
    /\ UNCHANGED <<clock, table, answers, sight>>

RestoreCopy ==
    /\ clock' = [clock EXCEPT !.tick = copy.tick]
    /\ table' = [copy.signal EXCEPT !.round = clock.round - copy.age]
    /\ answers' = [n \in DOMAIN answers |-> [answers[n] EXCEPT !.lost = TRUE]]
    /\ UNCHANGED <<copy, sight>>

SignalsNext ==
    \/ \E connected \in BOOLEAN : BeginTick(connected)
    \/ Broadcast \/ TickDone \/ Disconnect
    \/ \E quality \in {"STALE", "BAD"} : ScanAlone(quality)
    \/ ForceSignal \/ UnforceSignal
    \/ TakeCopy \/ RestoreCopy

SignalsSpec == SignalsInit /\ [][SignalsNext]_signalVars

-----------------------------------------------------------------------------
SignalsTypeOK ==
    /\ clock \in [tick : 0 .. MaxRound, round : 0 .. MaxRound]
    /\ table \in Signal /\ copy.signal \in Signal
    /\ sight \in [quality : Quality, lag : 0 .. MaxRound + 1, excused : BOOLEAN]

(***************************************************************************)
(* A value that a device or an observer is told to be GOOD was computed in *)
(* this tick or the one before, however its answers are lost or late, the  *)
(* devices scan on without the bus, or the tick is set back by a restore.  *)
(* The exceptions are a forced value, which is GOOD however old, and the   *)
(* answer of a device to a tick before a restore that arrives after it:    *)
(* its tick is compared with a count that has gone back.                   *)
(***************************************************************************)
GoodIsFresh ==
    sight.quality = "GOOD" /\ ~sight.excused => sight.lag <= 1
===============================================================================
