------------------------------- MODULE ScanFrame -------------------------------
(***************************************************************************)
(* The part of base_device.scan() around the program of a device, as that  *)
(* program sees it: one command before step() and perhaps a trip after it. *)
(* Device models this part in full and shows that a device is TRIPPED      *)
(* exactly while a trip is latched; so one phase stands for both here, and *)
(* the emergency stop is a trip that comes before step().                  *)
(*                                                                         *)
(* START is an accepted START or a self start, STOP an operator's stop or  *)
(* a self stop; which of them, and why, is the business of Device.         *)
(***************************************************************************)
EXTENDS Integers, Lifecycle

ScanCommands == {"none", "START", "STOP", "RESET", "TRIP"}

(* When _handle_start, _handle_stop and _handle_reset call the program.    *)
Starts(phase, command) == command = "START" /\ phase \notin Active \cup {"TRIPPED"}
Stops(phase, command)  == command = "STOP"  /\ phase \notin {"OFF", "TRIPPED"}
Resets(phase, command) == command = "RESET" /\ phase = "TRIPPED"

(* clamp; the lower limit wins over the upper one.                         *)
Clamp(value, low, high) ==
    IF value < low THEN low ELSE IF value > high THEN high ELSE value

(* rate_limit: a value on its way to its target.                           *)
Toward(value, target, up, down) ==
    IF target >= value THEN IF target - value > up THEN value + up ELSE target
    ELSE IF value - target > down THEN value - down ELSE target
===============================================================================
