------------------------------- MODULE MCDevice -------------------------------
(***************************************************************************)
(* Instances of Device for TLC.                                            *)
(***************************************************************************)
EXTENDS Device

\* The odd protections trip in their second scan, the even ones at once.
MCTripDelay  == [p \in Prot |-> 1 + (p % 2)]
MCResetDelay == [p \in Prot |-> 2]

MCOneScan    == [p \in Prot |-> 1]

W(r, v) == [reg |-> r, val |-> v]

TripWrites ==
    {W(p, 1) : p \in {"START", "RESET_TRIP", "TRIP_TEST"}} \cup
    {W("EMERGENCY_STOP", 0), W("EMERGENCY_STOP", 1),
     W("RESET_KEY", ResetKeyValue),
     W("COMMAND_SEQUENCE", 0), W("COMMAND_SEQUENCE", 1)}

HoldWrites ==
    {W(p, 1) : p \in {"START", "STOP", "RESET_TRIP"}} \cup
    {W("EMERGENCY_STOP", 0), W("EMERGENCY_STOP", 1),
     W("RESET_KEY", ResetKeyValue),
     W("CONTROL_MODE", RemoteAuto), W("CONTROL_MODE", MaintenanceMode)}

CommWrites ==
    {W(p, 1) : p \in {"START", "STOP", "RESET_TRIP"}} \cup
    {W("WATCHDOG_COUNTER", 1), W("WATCHDOG_COUNTER", 2),
     W("RESET_KEY", ResetKeyValue),
     W("COMMAND_SEQUENCE", 1)}

\* The process as the trip logic sees it: always willing to start.
TripInputs ==
    {in \in ScanInputs : /\ in.startPermit /\ in.permit /\ in.needed
                         /\ ~in.standby /\ in.moved}

\* The process as the self hold sees it: a device that is needed is not asked
\* to stand by, and a protected value is beyond the trip threshold or well
\* clear of it.
HoldInputs ==
    {in \in ScanInputs : /\ ~(in.needed /\ in.standby)
                         /\ \A p \in Prot : in.zone[p] \in {"exceeded", "cleared"}}
===============================================================================
