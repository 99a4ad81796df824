----------------------------- MODULE RegisterBank -----------------------------
(***************************************************************************)
(* What the writers of a device may take its registers to be: a memory,    *)
(* and beside it the one value that waits for each register written since  *)
(* the last scan.  A batch is accepted whole or not at all, a later batch  *)
(* prevails over an earlier one, and a scan puts everything that waits     *)
(* into the memory.  Device is written against this bank.                  *)
(***************************************************************************)
CONSTANTS
    Pulses,      \* registers that a scan consumes
    NoPulse,     \* the value it leaves in them
    Batches,     \* the batches a client may have accepted, as functions
    Fallbacks,   \* what a scan may write by itself
    Snapshots,   \* the memories that may be restored
    Defaults     \* the memory of a new process

VARIABLES memory, pending

bankVars == <<memory, pending>>

Nothing == <<>>

Over(batch, m) ==
    [r \in DOMAIN batch \cup DOMAIN m |-> IF r \in DOMAIN batch THEN batch[r] ELSE m[r]]

Consumed(m) == [r \in DOMAIN m |-> IF r \in Pulses THEN NoPulse ELSE m[r]]

-----------------------------------------------------------------------------
Init ==
    /\ memory = Defaults
    /\ pending = Nothing

Accept(batch) ==
    /\ pending' = Over(batch, pending)
    /\ UNCHANGED memory

Scan(fallback) ==
    /\ memory' = Over(fallback, Consumed(Over(pending, memory)))
    /\ pending' = Nothing

(* A restored snapshot, or a new process: nothing that waited is left.      *)
Reload(m) ==
    /\ memory' = m
    /\ pending' = Nothing

Next ==
    \/ \E batch \in Batches : Accept(batch)
    \/ \E fallback \in Fallbacks : Scan(fallback)
    \/ \E m \in Snapshots \cup {Defaults} : Reload(m)

Spec == Init /\ [][Next]_bankVars
===============================================================================
