---------------------------- MODULE DurableDevice ----------------------------
(***************************************************************************)
(* A device with what outlives its process: the row of its SQLite store    *)
(* (common/device/persistence.py) and the state it last sent to the        *)
(* snapshot coordinator.  Its scans are those of Device; between two scans *)
(* the process may save itself, be killed and started again, be shut down  *)
(* and started again, or be sent an old state back.  Nothing reads the     *)
(* device while it restarts, so a restart is one step.                     *)
(***************************************************************************)
EXTENDS Device

VARIABLES
    disk,      \* the payload in the store
    snaps      \* the snapshot, once there is one

durableVars == <<dev, pending, disk, snaps>>

-----------------------------------------------------------------------------
(* _persist_payload, and what an empty store amounts to.                   *)
Payload(d) ==
    [prot |-> d.prot, operatorStop |-> d.operatorStop, lastSequence |-> d.lastSequence]

PayloadState ==
    [prot : EngineState, operatorStop : BOOLEAN, lastSequence : WordOrNone]

\* Mutant: a restart comes up OFF even with a latched trip.
BootOff(p) ==
    [NewDevice EXCEPT !.prot = p.prot, !.operatorStop = p.operatorStop,
                      !.lastSequence = p.lastSequence]

\* Mutant: the trip is not read back.
BootWithoutTrips(p) ==
    [NewDevice EXCEPT !.operatorStop = p.operatorStop, !.lastSequence = p.lastSequence]

\* Mutant: the operator's stop is not read back.
BootWithoutStop(p) ==
    [NewDevice EXCEPT
        !.prot = p.prot, !.lastSequence = p.lastSequence,
        !.phase = IF AnyLatched(p.prot) THEN "TRIPPED" ELSE InitialPhase(Kind)]

(* __init__ and _restore_persisted. *)
Boot(p) ==
    [NewDevice EXCEPT
        !.prot = p.prot, !.operatorStop = p.operatorStop,
        !.lastSequence = p.lastSequence,
        !.phase = IF AnyLatched(p.prot) THEN "TRIPPED" ELSE InitialPhase(Kind)]

(* The clear_latches option of restore_state.                              *)
Cleaned(d) ==
    [d EXCEPT !.prot = ClearAllLatches(d.prot),
              !.operatorStop = FALSE,
              !.phase = IF Tripped(d) THEN "OFF" ELSE d.phase]

(* snapshot_state: the age of the watchdog is part of it but never read.   *)
SnapshotOf(d) == [d EXCEPT !.wdAge = 0]

(* restore_state: what counts here is all in the snapshot. *)
Restored(s, clean) == IF clean THEN Cleaned(s) ELSE s

-----------------------------------------------------------------------------
DurableInit ==
    /\ Init
    /\ disk = Payload(NewDevice)
    /\ snaps = {}

Operate == Next /\ UNCHANGED <<disk, snaps>>

(* _persist_loop, once a second: any number of scans may go by. *)
Persist ==
    /\ disk' = Payload(dev)
    /\ UNCHANGED <<dev, pending, snaps>>

(* The process is killed and its container started again. *)
Crash ==
    /\ dev' = Boot(disk)
    /\ pending' = Empty
    /\ UNCHANGED <<disk, snaps>>

(* shutdown(), then a new start. *)
Shutdown ==
    /\ disk' = Payload(dev)
    /\ dev' = Boot(disk')
    /\ pending' = Empty
    /\ UNCHANGED snaps

(* SNAPSHOT_SAVE *)
TakeSnapshot ==
    /\ snaps' = {SnapshotOf(dev)}
    /\ UNCHANGED <<dev, pending, disk>>

(* SNAPSHOT_RESTORE: the queued commands are dropped and the result saved. *)
Restore(s, clean) ==
    /\ dev' = Restored(s, clean)
    /\ pending' = Empty
    /\ disk' = Payload(dev')
    /\ UNCHANGED snaps

DurableNext ==
    \/ Operate
    \/ Persist
    \/ Crash
    \/ Shutdown
    \/ TakeSnapshot
    \/ \E s \in snaps, clean \in BOOLEAN : Restore(s, clean)

DurableSpec == DurableInit /\ [][DurableNext]_durableVars

-----------------------------------------------------------------------------
DurableTypeOK ==
    /\ TypeOK
    /\ disk \in PayloadState
    /\ snaps \subseteq DeviceState

(***************************************************************************)
(* Whatever sequence of saves, kills, shutdowns and restores, the latch,   *)
(* the first-out and the state machine agree in the running device and in  *)
(* the snapshot, and the latch and the first-out on disk: no restart can   *)
(* produce a device that is TRIPPED with nothing to reset, or one that has *)
(* a latched trip and runs.                                                *)
(***************************************************************************)
DurableConsistent ==
    /\ Consistent(dev)
    /\ EngineConsistent(disk.prot)
    /\ \A s \in snaps : Consistent(s)

(***************************************************************************)
(* The device implements the memory of TripMemory.                         *)
(***************************************************************************)
MemoryOf(p) == [cause |-> p.prot.firstOut, seq |-> p.lastSequence, stopped |-> p.operatorStop]

Memory ==
    INSTANCE TripMemory
        WITH Cause <- Codes, NoCause <- NoCode, Sequence <- Word,
             memory <- MemoryOf(dev), saved <- MemoryOf(disk),
             shots <- {MemoryOf(s) : s \in snaps}

ImplementsMemory == Memory!Spec

(***************************************************************************)
(* An operator's STOP that has reached the disk outlives the process:      *)
(* while memory and disk both hold it, no scan, trip, reset, kill or       *)
(* shutdown forgets it or sets the device in motion; only a START does, or *)
(* the restore of a snapshot.                                              *)
(***************************************************************************)
Forgotten == ~dev'.operatorStop \/ (dev.phase \notin Active /\ dev'.phase \in Active)

StopOutlivesProcess ==
    [][ dev.operatorStop /\ disk.operatorStop /\ Forgotten
        => \/ Pulsed(pending, "START")
           \/ \E s \in snaps, clean \in BOOLEAN : Restore(s, clean) ]_durableVars

(***************************************************************************)
(* persistence.py promises that a restart never clears a trip.             *)
(***************************************************************************)
RestartKeepsTrip ==
    [][ Crash /\ AnyLatched(dev.prot) => AnyLatched(dev'.prot) ]_durableVars
===============================================================================
