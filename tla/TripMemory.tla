------------------------------ MODULE TripMemory ------------------------------
(***************************************************************************)
(* What a device promises its operators about the memory of a trip,        *)
(* whatever happens to the process that keeps it.                          *)
(*                                                                         *)
(* A memory holds the cause (the first-out, or none), the command sequence *)
(* of the last reset and whether an operator's STOP is in force.  There is *)
(* the one in use, the one saved on disk, and those sent to a snapshot.  A *)
(* cause that is there is replaced or forgotten only by a reset that uses  *)
(* up another sequence, by a crash (which brings back the saved memory, no *)
(* more and no less) or by a restore.                                      *)
(***************************************************************************)
CONSTANTS Cause, NoCause, Sequence, NoSequence

VARIABLES
    memory,    \* in use
    saved,     \* on disk
    shots      \* in the snapshots

vars == <<memory, saved, shots>>

Blank == [cause |-> NoCause, seq |-> NoSequence, stopped |-> FALSE]

Init == memory = Blank /\ saved = Blank /\ shots = {}

(* The operator's STOP may come or go with every operation of the device.  *)
Operate ==
    /\ \E stopped \in BOOLEAN : memory' = [memory EXCEPT !.stopped = stopped]
    /\ UNCHANGED <<saved, shots>>

Latch ==
    /\ memory.cause = NoCause
    /\ \E cause \in Cause, stopped \in BOOLEAN :
          memory' = [memory EXCEPT !.cause = cause, !.stopped = stopped]
    /\ UNCHANGED <<saved, shots>>

(* A reset may be followed by a new trip in the same scan. *)
Reset ==
    /\ memory' \in [cause : Cause \cup {NoCause}, seq : Sequence, stopped : BOOLEAN]
    /\ memory'.seq # memory.seq
    /\ UNCHANGED <<saved, shots>>

Save         == saved' = memory /\ UNCHANGED <<memory, shots>>
Crash        == memory' = saved /\ UNCHANGED <<saved, shots>>
TakeSnapshot == shots' = {memory} /\ UNCHANGED <<memory, saved>>

(* A clean restore drops the cause and the STOP but never frees a sequence. *)
Restore ==
    \E shot \in shots, clean \in BOOLEAN :
        /\ memory' = IF clean THEN [shot EXCEPT !.cause = NoCause, !.stopped = FALSE]
                     ELSE shot
        /\ saved' = memory'
        /\ UNCHANGED shots

Next ==
    \/ Operate \/ Latch \/ Reset
    \/ Save \/ Crash \/ TakeSnapshot \/ Restore

Spec == Init /\ [][Next]_vars
===============================================================================
