------------------------------- MODULE Supervision -------------------------------
(***************************************************************************)
(* How a PLC program that tools/generate_openplc_v3_gateway.py or          *)
(* tools/generate_openplc_gateway.py generates notices that a device no    *)
(* longer answers: it counts up the WATCHDOG_COUNTER of the device and     *)
(* watches the WATCHDOG_ECHO that comes back.  Both programs are the same  *)
(* here.  The runtime that carries the registers to and fro is external:   *)
(* what it brings back is a value of some ticks ago.                       *)
(***************************************************************************)
EXTENDS Integers

CONSTANTS
    Turn,              \* the last value of the counter, 65535
    StaleTicks,        \* ECHO_STALE_TICKS
    Lag                \* how many ticks old an echo may be while the link is up

ASSUME SupervisionAssumption ==
    /\ StaleTicks \in Nat \ {0} /\ Lag \in 0 .. StaleTicks - 1
    /\ Turn \in Nat /\ Turn > StaleTicks + Lag

VARIABLE watch

WatchState ==
    [counter : 1 .. Turn,    \* WATCHDOG_COUNTER
     echo    : 0 .. Turn,    \* WATCHDOG_ECHO as last read
     last    : 0 .. Turn,    \* i_..._last_echo
     stale   : 0 .. Turn,    \* i_..._echo_stale_ticks
     lost    : BOOLEAN,      \* i_..._comm_lost
     age     : 0 .. Turn,    \* history: ticks since the counter had the value of the echo
     silent  : 0 .. Turn]    \* history: what age was at the last tick

\* The first scan arms the watchdog; nothing has been read yet.
SupervisionInit ==
    watch = [counter |-> 1, echo |-> 0, last |-> 0, stale |-> 0, lost |-> FALSE,
             age |-> 0, silent |-> 0]

After(n)  == IF n >= Turn THEN 1 ELSE n + 1
UpTo(n)   == IF n < Turn THEN n + 1 ELSE n

Before(n, ticks) == IF n > ticks THEN n - ticks ELSE n - ticks + Turn

(* The link brings an echo at most Lag ticks old, not older than the last. *)
Exchange(age) ==
    /\ age <= watch.age /\ age <= Lag
    /\ watch' = [watch EXCEPT !.echo = Before(watch.counter, age), !.age = age]

(* A device that has restarted, which takes more than the lag, answers 0   *)
(* until the counter reaches it.                                           *)
DeviceRestarts ==
    /\ watch.age > Lag /\ watch.echo # 0
    /\ watch' = [watch EXCEPT !.echo = 0, !.age = Lag]

\* Mutant: only an echo that has caught up with the counter counts.
ProvenByEquality(counter) == watch.echo = counter

(* Progress or equality proves the link.                                   *)
Proven(counter) == watch.echo = counter \/ watch.echo # watch.last

(* The part of a scan that is due at a watchdog tick.                      *)
Tick ==
    LET counter == After(watch.counter)
        stale   == IF Proven(counter) THEN 0 ELSE UpTo(watch.stale)
    IN  watch' = [counter |-> counter,
                  echo    |-> watch.echo,
                  last    |-> IF Proven(counter) THEN watch.echo ELSE watch.last,
                  stale   |-> stale,
                  lost    |-> stale >= StaleTicks,
                  age     |-> UpTo(watch.age),
                  silent  |-> UpTo(watch.age)]

SupervisionNext == Tick \/ DeviceRestarts \/ \E age \in 0 .. Lag : Exchange(age)
SupervisionSpec == SupervisionInit /\ [][SupervisionNext]_watch

-----------------------------------------------------------------------------
SupervisionTypeOK == watch \in WatchState

(***************************************************************************)
(* comm_lost tells silence from lag: a device whose echo is late but moves *)
(* is never reported lost, and one that has been silent for StaleTicks and *)
(* the lag is, until the counter comes round to the value that the silence *)
(* left in the echo.  (There the report lapses for StaleTicks.)            *)
(***************************************************************************)
LostTellsSilence ==
    /\ watch.lost => watch.silent >= StaleTicks
    /\ watch.silent > StaleTicks + Lag /\ watch.silent < Turn => watch.lost
===============================================================================
