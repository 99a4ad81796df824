------------------------------- MODULE Regulator -------------------------------
(***************************************************************************)
(* common/device/regulator.py: the PI regulator the devices use for their  *)
(* local control, over integers.  The derivative and the feed-forward are  *)
(* summands that no part of the regulator remembers, so they are one       *)
(* input, `bias'; the deadband makes the error of a scan 0 and is left to  *)
(* who gives the error.                                                    *)
(***************************************************************************)
EXTENDS ScanFrame

CONSTANTS
    Kp, Ki,             \* kp, ki
    OutMin, OutMax,     \* out_min, out_max
    RateUp, RateDown,   \* rate_up, rate_down, per scan
    IntegralLimit,      \* integral_limit
    Errors, Biases, Limits   \* the inputs of update() that are considered

ASSUME RegulatorAssumption ==
    /\ {Kp, Ki, RateUp, RateDown, IntegralLimit} \subseteq Nat
    /\ OutMin \in Int /\ OutMax \in Int /\ OutMin =< OutMax
    /\ Errors \subseteq Int /\ Biases \subseteq Int /\ Limits \subseteq OutMin .. OutMax

VARIABLES
    regulator,
    recorded             \* what a snapshot holds of it

regulatorVars == <<regulator, recorded>>

RegulatorState ==
    [output   : OutMin .. OutMax,
     integral : -IntegralLimit .. IntegralLimit,
     pending  : BOOLEAN,                          \* _track_pending
     last     : {"none", "track", "update", "from_dict"},   \* history: what was called last
     free     : BOOLEAN,   \* history: no limit stood in the way of the last update
     drift    : Nat]       \* history: what integration could add in it, Ki * |error|

NewRegulator ==
    [output |-> Clamp(0, OutMin, OutMax), integral |-> 0, pending |-> FALSE,
     last |-> "none", free |-> FALSE, drift |-> 0]

Integral(value) == Clamp(value, -IntegralLimit, IntegralLimit)

(* track, and hold, which is the same.                                     *)
Track(r, value) ==
    LET output == Clamp(value, OutMin, OutMax)
    IN  [r EXCEPT !.output = output, !.integral = Integral(output),
                  !.pending = TRUE, !.last = "track"]

\* Mutant: the integral goes on from what track() left there.
CarriedOn(r, error, bias) == r.integral

(* The integral this scan starts from: the first one after a track() works *)
(* it out backwards from the output.                                       *)
Carried(r, error, bias) ==
    IF r.pending THEN Integral(r.output - Kp * error - bias) ELSE r.integral

\* Mutant: the integral grows without a limit.
IntegratedWithoutLimit(carried, error, bias, low, high) == carried + Ki * error

(* It moves unless the output is at a limit and the error points beyond.   *)
Integrated(carried, error, bias, low, high) ==
    LET candidate == Kp * error + carried + bias
    IN  IF (candidate >= high /\ error > 0) \/ (candidate =< low /\ error < 0)
        THEN carried ELSE Integral(carried + Ki * error)

(* update, with the limits of this scan.                                   *)
Update(r, error, bias, outMin, outMax) ==
    LET low      == IF outMin > OutMin THEN outMin ELSE OutMin
        cap      == IF outMax < OutMax THEN outMax ELSE OutMax
        high     == IF cap < low THEN low ELSE cap
        integral == Integrated(Carried(r, error, bias), error, bias, low, high)
        target   == Clamp(Kp * error + integral + bias, low, high)
    IN  [output   |-> Clamp(Toward(r.output, target, RateUp, RateDown), low, high),
         integral |-> integral,
         pending  |-> FALSE,
         last     |-> "update",
         free     |-> r.output \in low .. high
                      /\ r.output - Kp * error - bias \in -IntegralLimit .. IntegralLimit,
         drift    |-> Ki * IF error < 0 THEN -error ELSE error]

(* from_dict: output and integral come back, _track_pending does not.      *)
Recall(r, saved) ==
    [r EXCEPT !.output = saved.output, !.integral = saved.integral,
              !.pending = FALSE, !.last = "from_dict"]

(* Where the output can be after a scan from `output' under the upper      *)
(* limit `high': what a device program relies on.                          *)
Reach(output, high) ==
    {Clamp(Toward(output, target, RateUp, RateDown), OutMin, high) : target \in OutMin .. high}

RegulatorInit ==
    /\ regulator = NewRegulator
    /\ recorded = [output |-> regulator.output, integral |-> regulator.integral]

UpdateRegulator(error, bias, outMax) ==
    /\ regulator' = Update(regulator, error, bias, OutMin, outMax)
    /\ UNCHANGED recorded

TrackRegulator(value) ==
    /\ regulator' = Track(regulator, value)
    /\ UNCHANGED recorded

StoreRegulator ==
    /\ recorded' = [output |-> regulator.output, integral |-> regulator.integral]
    /\ UNCHANGED regulator

RecallRegulator ==
    /\ regulator' = Recall(regulator, recorded)
    /\ UNCHANGED recorded

RegulatorNext ==
    \/ \E error \in Errors, bias \in Biases, outMax \in Limits : UpdateRegulator(error, bias, outMax)
    \/ \E value \in OutMin .. OutMax : TrackRegulator(value)
    \/ StoreRegulator \/ RecallRegulator

RegulatorSpec == RegulatorInit /\ [][RegulatorNext]_regulatorVars

-----------------------------------------------------------------------------
RegulatorTypeOK ==
    /\ regulator \in RegulatorState
    /\ recorded \in [output : OutMin .. OutMax, integral : -IntegralLimit .. IntegralLimit]

(***************************************************************************)
(* The hand-over from a hand or a safety action to the regulator is        *)
(* smooth: the first update after a track() moves the output by no more    *)
(* than what it integrates, whatever the error, the feed-forward and the   *)
(* tuning, unless it is a limit that moves it.  (After from_dict it is     *)
(* not: the mark that track() left is not part of a snapshot.)             *)
(***************************************************************************)
Bumpless ==
    [][ regulator.last = "track" /\ regulator'.last = "update" /\ regulator'.free
            => regulator'.output - regulator.output \in -regulator'.drift .. regulator'.drift
      ]_regulatorVars
===============================================================================
