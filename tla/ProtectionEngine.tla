--------------------------- MODULE ProtectionEngine ---------------------------
(***************************************************************************)
(* common/device/protection.py: the trip engine of one device, as          *)
(* operators on the record of its state.                                   *)
(*                                                                         *)
(* A protection is a number, in the order in which evaluate() visits it:   *)
(* 1..NumProt are the threshold protections of the device and the three    *)
(* that follow are the program-triggered ones that every device appends    *)
(* (base_device.common_protection_defs), in that order.  One unit of time  *)
(* is one scan.  The two accumulators stop at the delay they are compared  *)
(* with, which is all that the comparisons can see.                        *)
(*                                                                         *)
(* What a protection measures is abstracted to its position relative to    *)
(* the trip threshold and the reset threshold.  The trend buffers of the   *)
(* first-out record, the counters and the emitted events are left out.     *)
(***************************************************************************)
EXTENDS Naturals

CONSTANTS
    NumProt,     \* number of enabled protections that have a trip threshold
    TripDelay,   \* scans beyond the trip threshold before the trip
    ResetDelay   \* scans beyond the reset threshold before a reset

Prot   == 1 .. NumProt
COMM   == NumProt + 1     \* COMM_TIMEOUT_TRIP
TEST   == NumProt + 2     \* TRIP_TEST
ESTOP  == NumProt + 3     \* EMERGENCY_STOP
Manual == {COMM, TEST, ESTOP}
Codes  == 1 .. NumProt + 3
NoCode == 0               \* first_out_code() when there is no first-out

ASSUME ProtectionAssumption ==
    /\ NumProt \in Nat
    /\ TripDelay \in [Prot -> Nat]
    /\ ResetDelay \in [Prot -> Nat]

(***************************************************************************)
(* "exceeded": beyond the trip threshold.  "band": back on the safe side   *)
(* of it but not of the reset threshold (hysteresis).  "cleared": beyond   *)
(* the reset threshold.  "inhibited": the device's predicate suppresses    *)
(* the evaluation.                                                         *)
(***************************************************************************)
Readings == {"exceeded", "band", "cleared"}
Zones    == Readings \cup {"inhibited"}

EngineState ==
    [active     : SUBSET Codes,
     latched    : SUBSET Codes,
     firstFlags : SUBSET Codes,     \* ProtectionState.first_out
     resettable : SUBSET Codes,
     above      : [Prot -> Nat],
     clear      : [Prot -> Nat],
     lastValue  : [Prot -> Readings],
     firstOut   : Codes \cup {NoCode}]

NewEngine ==
    [active |-> {}, latched |-> {}, firstFlags |-> {}, resettable |-> {},
     above |-> [p \in Prot |-> 0], clear |-> [p \in Prot |-> 0],
     lastValue |-> [p \in Prot |-> "cleared"], firstOut |-> NoCode]

AnyLatched(e) == e.latched # {}

Saturate(n, bound) == IF n >= bound THEN bound ELSE n + 1

-----------------------------------------------------------------------------
(***************************************************************************)
(* evaluate(): one pass over the threshold protections.                    *)
(***************************************************************************)
AboveAfter(e, zone) ==
    [p \in Prot |-> IF zone[p] = "exceeded"
                    THEN Saturate(e.above[p], TripDelay[p]) ELSE 0]

ClearAfter(e, zone) ==
    [p \in Prot |-> IF zone[p] \in {"cleared", "inhibited"}
                    THEN Saturate(e.clear[p], ResetDelay[p]) ELSE 0]

NewTrips(e, zone) ==
    {p \in Prot : /\ zone[p] = "exceeded"
                  /\ AboveAfter(e, zone)[p] >= TripDelay[p]
                  /\ p \notin e.active}

ActiveAfter(e, zone) ==
    {c \in Codes : \/ c \in NewTrips(e, zone)
                   \/ c \in e.active /\ (c \in Prot => zone[c] = "exceeded")}

LatchedAfter(e, zone) == e.latched \cup NewTrips(e, zone)

(* The first trip of the pass, when no first-out has been captured yet. *)
FirstOutAfter(e, trips) ==
    IF e.firstOut # NoCode \/ trips = {} THEN e.firstOut
    ELSE CHOOSE c \in trips : \A d \in trips : c <= d

FlagsAfter(e, trips) ==
    IF e.firstOut # NoCode \/ trips = {} THEN e.firstFlags
    ELSE e.firstFlags \cup {FirstOutAfter(e, trips)}

(* While the value is beyond the trip threshold, resettable is not touched. *)
ResettableAfter(e, zone) ==
    {c \in Codes : IF c \in Prot /\ zone[c] # "exceeded"
                   THEN ClearAfter(e, zone)[c] >= ResetDelay[c]
                   ELSE c \in e.resettable}

Evaluate(e, zone) ==
    [e EXCEPT
        !.active     = ActiveAfter(e, zone),
        !.latched    = LatchedAfter(e, zone),
        !.firstFlags = FlagsAfter(e, NewTrips(e, zone)),
        !.firstOut   = FirstOutAfter(e, NewTrips(e, zone)),
        !.resettable = ResettableAfter(e, zone),
        !.above      = AboveAfter(e, zone),
        !.clear      = ClearAfter(e, zone),
        !.lastValue  = [p \in Prot |-> IF zone[p] = "inhibited"
                                       THEN e.lastValue[p] ELSE zone[p]]]

-----------------------------------------------------------------------------
(***************************************************************************)
(* force_trip(): a program-triggered trip, ignored while it is already     *)
(* latched and active.                                                     *)
(***************************************************************************)
ForceTrip(e, c) ==
    IF c \in e.latched /\ c \in e.active THEN e
    ELSE [e EXCEPT
            !.active     = e.active \cup {c},
            !.latched    = e.latched \cup {c},
            !.firstFlags = IF e.firstOut = NoCode
                           THEN e.firstFlags \cup {c} ELSE e.firstFlags,
            !.firstOut   = IF e.firstOut = NoCode THEN c ELSE e.firstOut]

(***************************************************************************)
(* can_reset() and reset(): all latches or none.  reset() leaves the       *)
(* active flags as they are.                                               *)
(***************************************************************************)
CanReset(e) ==
    /\ e.latched \cap e.active = {}
    /\ e.latched \subseteq e.resettable

Reset(e) ==
    [e EXCEPT !.latched = {}, !.firstFlags = {}, !.resettable = {},
              !.above = [p \in Prot |-> 0], !.clear = [p \in Prot |-> 0],
              !.firstOut = NoCode]

(* clear_all_latches(): only for a clean snapshot restore. *)
ClearAllLatches(e) ==
    [e EXCEPT !.active = {}, !.latched = {}, !.firstFlags = {}, !.resettable = {},
              !.above = [p \in Prot |-> 0], !.clear = [p \in Prot |-> 0],
              !.firstOut = NoCode]

-----------------------------------------------------------------------------
(* What always holds of an engine between two scans. *)
EngineConsistent(e) ==
    /\ e.active \subseteq e.latched
    /\ e.firstFlags = IF e.firstOut = NoCode THEN {} ELSE {e.firstOut}
    /\ e.firstOut = NoCode <=> e.latched = {}
    /\ e.firstFlags \subseteq e.latched
===============================================================================
