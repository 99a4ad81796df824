------------------------------- MODULE MCDurable -------------------------------
(***************************************************************************)
(* Instances of DurableDevice for TLC.                                     *)
(***************************************************************************)
EXTENDS DurableDevice

MCNow == [p \in Prot |-> 0]

W(r, v) == [reg |-> r, val |-> v]

MCWrites ==
    {W(p, 1) : p \in {"START", "STOP", "RESET_TRIP"}} \cup {W("RESET_KEY", ResetKeyValue)}

MCInputs ==
    {in \in ScanInputs : /\ in.startPermit /\ in.permit /\ in.needed
                         /\ ~in.standby /\ in.moved
                         /\ \A p \in Prot : in.zone[p] \in {"exceeded", "cleared"}}
===============================================================================
