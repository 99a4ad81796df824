--------------------------------- MODULE Gateway ---------------------------------
(***************************************************************************)
(* The PLC program that tools/generate_openplc_gateway.py generates        *)
(* (make_main_st), between an HMI and one device, for one command coil     *)
(* with the reset key and sequence it needs.  Time advances in the slots   *)
(* of the cyclic task.  The runtime that executes it is external: it       *)
(* writes the coils (FC15) and the command registers (FC16) to the device, *)
(* each at its own place in the write cycle.  The device drains and scans  *)
(* when the bus ticks, or never while the plant is paused: in any slot, at *)
(* any moment between the writes.                                          *)
(***************************************************************************)
EXTENDS Integers

CONSTANTS
    PulseScans,        \* PULSE_SCANS
    Period,            \* WRITE_CYCLE_MS in slots
    MaxPulses          \* bound on the command sequence

ASSUME GatewayAssumption ==
    /\ Period \in Nat \ {0} /\ MaxPulses \in Nat
    /\ PulseScans \in Nat /\ PulseScans > Period    \* validate_generated checks it

VARIABLE gw

Groups == {"coils", "registers"}

GatewayState ==
    [slot     : 0 .. Period - 1,
     at       : [Groups -> 0 .. Period - 1], \* the slot of each group
     coil     : BOOLEAN,                    \* the coil in the image of the PLC
     active   : BOOLEAN,                    \* i_..._active
     scans    : 0 .. PulseScans,            \* i_..._scans
     key      : BOOLEAN,                    \* RESET_KEY in the image is the key, not 0
     sequence : 0 .. MaxPulses,             \* COMMAND_SEQUENCE in the image
     tripPrev : BOOLEAN,                    \* i_..._trip_prev of a source
     devCoil  : BOOLEAN,                    \* what the device has received
     devKey   : BOOLEAN,
     devSequence : 0 .. MaxPulses,
     used     : 0 .. MaxPulses,             \* _last_command_sequence
     seen     : BOOLEAN,                    \* history: the device has seen this pulse
     idle     : 0 .. Period,                \* history: slots since its last scan
     late     : BOOLEAN]                    \* history: it has let a write cycle pass

NewGateway(at) ==
    [slot |-> 0, at |-> at, coil |-> FALSE, active |-> FALSE,
     scans |-> 0, key |-> FALSE, sequence |-> 0, tripPrev |-> FALSE,
     devCoil |-> FALSE, devKey |-> FALSE, devSequence |-> 0, used |-> 0,
     seen |-> TRUE, idle |-> 0, late |-> FALSE]

GatewayInit == \E at \in [Groups -> 0 .. Period - 1] : gw = NewGateway(at)

(* A command coil that is on starts a pulse, with a new sequence and key.  *)
Began(g) ==
    IF g.coil /\ ~g.active
    THEN [g EXCEPT !.active = TRUE, !.scans = 0, !.key = TRUE, !.sequence = @ + 1,
                   !.seen = FALSE, !.late = FALSE]
    ELSE g

\* Mutant: the pulse is as long as the write cycle is taken to need.
EndedShort(g) ==
    IF ~g.active THEN g
    ELSE IF g.scans + 1 >= Period - 1
         THEN [g EXCEPT !.coil = FALSE, !.active = FALSE, !.scans = 0, !.key = FALSE]
         ELSE [g EXCEPT !.scans = @ + 1]

(* The coil and the key are taken back when the pulse has lasted.          *)
Ended(g) ==
    IF ~g.active THEN g
    ELSE IF g.scans + 1 >= PulseScans
         THEN [g EXCEPT !.coil = FALSE, !.active = FALSE, !.scans = 0, !.key = FALSE]
         ELSE [g EXCEPT !.scans = @ + 1]

(* The trip matrix comes last: its commands are pulses of the next scan.   *)
TripEdge(g, tripped) ==
    [g EXCEPT !.coil = @ \/ (tripped /\ ~g.tripPrev /\ g.sequence < MaxPulses), !.tripPrev = tripped]

(* One scan of the program; the HMI may have set the coil before it.       *)
MainScan(g, raised, tripped) ==
    TripEdge(Ended(Began([g EXCEPT !.coil = @ \/ raised])), tripped)

(* The writes take the values of their moment; the device keeps the last   *)
(* coil written before it scans.                                           *)
Written(g, groups) ==
    LET now == {group \in groups : g.at[group] = g.slot}
    IN  [g EXCEPT !.devCoil     = IF "coils" \in now THEN g.coil ELSE @,
                  !.devKey      = IF "registers" \in now THEN g.key ELSE @,
                  !.devSequence = IF "registers" \in now THEN g.sequence ELSE @]

(* The device: the reset it has been asked for, with what it has received. *)
DeviceScan(g) ==
    [g EXCEPT !.devCoil = FALSE, !.seen = @ \/ g.devCoil, !.idle = 0,
              !.used = IF g.devCoil /\ g.devKey /\ g.devSequence # @ THEN g.devSequence ELSE @]

\* The slot is over.
Passed(g) ==
    [g EXCEPT !.slot = (@ + 1) % Period,
              !.idle = IF @ = Period THEN @ ELSE @ + 1,
              !.late = @ \/ g.idle + 1 >= Period]

GatewayNext ==
    \E raised, tripped, scanned \in BOOLEAN, before \in SUBSET Groups :
        /\ raised => gw.sequence < MaxPulses
        /\ LET m == Written(MainScan(gw, raised, tripped), before)
           IN  gw' = Passed(Written(IF scanned THEN DeviceScan(m) ELSE m, Groups \ before))

GatewaySpec == GatewayInit /\ [][GatewayNext]_gw

-----------------------------------------------------------------------------
GatewayTypeOK == gw \in GatewayState

(***************************************************************************)
(* A pulse reaches a scan of the device, wherever the write cycles lie and *)
(* whenever the device scans, if no two of its scans lie a write cycle or  *)
(* more apart meanwhile.  The pulse outlasts one write cycle, so it is     *)
(* written; and a write cycle passes until the write that takes it back.   *)
(* The pulse is looked at when it is over and nothing is left to drain.    *)
(* This is about the coil: the key of a reset is written apart from it,    *)
(* and may come too late for the scan that drains the coil.                *)
(***************************************************************************)
PulseReaches ==
    ~gw.coil /\ ~gw.active /\ ~gw.devCoil => gw.seen \/ gw.late
===============================================================================
