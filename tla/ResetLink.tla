-------------------------------- MODULE ResetLink --------------------------------
(***************************************************************************)
(* A reset over Modbus TCP: reset_trip() of examples/external_plc.py, a    *)
(* connection of common/modbus/server.py with the faults it can inject,    *)
(* and what the device makes of it (_handle_reset).                        *)
(*                                                                         *)
(* One write waits for the answer of the one before.  The client library   *)
(* (pymodbus, timeout=1.0, retries=1) is external: a write without an      *)
(* answer is sent again, and then fails and its connection is closed.  The *)
(* server reads a connection in order, but one that it delays is read on   *)
(* after it was closed, beside the next one.  Written registers count when *)
(* the next scan drains them, so the queue is merged into them.            *)
(***************************************************************************)
EXTENDS Integers, Sequences

CONSTANTS
    Retries,           \* retries of AsyncModbusTcpClient
    MaxConnections,    \* bound on the connections opened
    MaxResets,         \* bound on calls of reset_trip
    MaxTrips           \* bound on trips

ASSUME ResetLinkAssumption ==
    /\ {Retries, MaxResets, MaxTrips} \subseteq Nat
    /\ MaxConnections \in Nat \ {0}

VARIABLES
    master,            \* the caller of reset_trip and its client
    wires,             \* what the server has yet to read of each connection
    slave,             \* the registers and the trip of the device
    counts             \* history: trips and releases; overtaking on the way

resetVars == <<master, wires, slave, counts>>

Writes    == {"RESET_KEY", "COMMAND_SEQUENCE", "RESET_TRIP"}
Following == [RESET_KEY |-> "COMMAND_SEQUENCE", COMMAND_SEQUENCE |-> "RESET_TRIP",
              RESET_TRIP |-> "idle"]
Attempt   == [write : Writes, sequence : 1 .. MaxResets]
Outcomes  == {"dropped", "refused", "done"}

ResetLinkInit ==
    /\ master = [doing |-> "idle", sequence |-> 0, tries |-> 0, connection |-> 1, answered |-> FALSE]
    /\ wires = [c \in 1 .. MaxConnections |-> <<>>]
    /\ slave = [tripped |-> FALSE, key |-> FALSE, sequence |-> 0, pulse |-> FALSE, last |-> -1]
    /\ counts = [trips |-> 0, releases |-> 0, newest |-> 1, overtaken |-> FALSE]

Sending(write, sequence, c) ==
    wires' = [wires EXCEPT ![c] = Append(@, [write |-> write, sequence |-> sequence])]

-----------------------------------------------------------------------------
(* reset_trip(): a new sequence number, then the three writes; it goes on  *)
(* whether they succeed or not.                                            *)

ResetTrip ==
    /\ master.doing = "idle" /\ master.sequence < MaxResets
    /\ master' = [master EXCEPT !.doing = "RESET_KEY", !.sequence = @ + 1, !.tries = 1]
    /\ Sending("RESET_KEY", master.sequence + 1, master.connection)
    /\ UNCHANGED <<slave, counts>>

Retry ==
    /\ master.doing # "idle" /\ master.tries \in 1 .. Retries
    /\ master' = [master EXCEPT !.tries = @ + 1]
    /\ Sending(master.doing, master.sequence, master.connection)
    /\ UNCHANGED <<slave, counts>>

(* The next write, or the end, on connection c.                            *)
GoOn(c) ==
    LET next == Following[master.doing]
    IN  /\ master' = [master EXCEPT !.doing = next, !.connection = c, !.answered = FALSE,
                                    !.tries = IF next = "idle" THEN 0 ELSE 1]
        /\ IF next = "idle" THEN UNCHANGED wires ELSE Sending(next, master.sequence, c)
        /\ UNCHANGED <<slave, counts>>

Answered == master.doing # "idle" /\ master.answered /\ GoOn(master.connection)

(* No answer came, or the server has reset the connection.                 *)
GiveUp ==
    /\ master.doing # "idle" /\ master.connection < MaxConnections
    /\ GoOn(master.connection + 1)

-----------------------------------------------------------------------------
(* _handle_client, _process and _dispatch: a request is dropped (freeze,   *)
(* drop_request_prob, a connection reset), answered with an exception      *)
(* (busy, a rate limit, a lease, a full queue), or queued for the scan;    *)
(* the answer may be dropped too.                                          *)

Applied(attempt) ==
    CASE attempt.write = "RESET_KEY"        -> [slave EXCEPT !.key = TRUE]
      [] attempt.write = "COMMAND_SEQUENCE" -> [slave EXCEPT !.sequence = attempt.sequence]
      [] attempt.write = "RESET_TRIP"       -> [slave EXCEPT !.pulse = TRUE]

Greater(m, n) == IF m > n THEN m ELSE n

Process(c, outcome, answered) ==
    /\ wires[c] # <<>>
    /\ LET attempt == Head(wires[c])
           awaited == c = master.connection /\ attempt.write = master.doing
                      /\ attempt.sequence = master.sequence
       IN  /\ slave' = IF outcome = "done" THEN Applied(attempt) ELSE slave
           /\ master' = [master EXCEPT !.answered = @ \/ (outcome # "dropped" /\ answered /\ awaited)]
    /\ wires' = [wires EXCEPT ![c] = Tail(@)]
    /\ counts' = IF outcome = "done"
                 THEN [counts EXCEPT !.overtaken = @ \/ c < counts.newest, !.newest = Greater(@, c)]
                 ELSE counts

-----------------------------------------------------------------------------
(* The device: a trip, and the scan that finds RESET_TRIP set.             *)

TripDevice ==
    /\ ~slave.tripped /\ counts.trips < MaxTrips
    /\ slave' = [slave EXCEPT !.tripped = TRUE]
    /\ counts' = [counts EXCEPT !.trips = @ + 1]
    /\ UNCHANGED <<master, wires>>

\* Mutant: a sequence number may be used again.
ResettableAgain(safe) == slave.key /\ safe

(* _handle_reset; safe stands for estop and can_reset.                     *)
Resettable(safe) == slave.key /\ slave.sequence # slave.last /\ safe

ScanReset(safe) ==
    /\ slave.pulse
    /\ slave' = IF Resettable(safe)
                THEN [slave EXCEPT !.pulse = FALSE, !.last = slave.sequence, !.tripped = FALSE]
                ELSE [slave EXCEPT !.pulse = FALSE]
    /\ counts' = [counts EXCEPT !.releases = @ + IF slave.tripped /\ Resettable(safe) THEN 1 ELSE 0]
    /\ UNCHANGED <<master, wires>>

ResetLinkNext ==
    \/ ResetTrip \/ Retry \/ Answered \/ GiveUp
    \/ \E c \in 1 .. MaxConnections, outcome \in Outcomes, answered \in BOOLEAN :
           Process(c, outcome, answered)
    \/ TripDevice
    \/ \E safe \in BOOLEAN : ScanReset(safe)

ResetLinkSpec == ResetLinkInit /\ [][ResetLinkNext]_resetVars

-----------------------------------------------------------------------------
ResetLinkTypeOK ==
    /\ master \in [doing : Writes \cup {"idle"}, sequence : 0 .. MaxResets,
                   tries : 0 .. Retries + 1, connection : 1 .. MaxConnections,
                   answered : BOOLEAN]
    /\ \A c \in 1 .. MaxConnections : wires[c] \in Seq(Attempt)
    /\ slave \in [tripped : BOOLEAN, key : BOOLEAN, sequence : 0 .. MaxResets,
                  pulse : BOOLEAN, last : -1 .. MaxResets]
    /\ counts \in [trips : 0 .. MaxTrips, releases : 0 .. MaxTrips,
                   newest : 1 .. MaxConnections, overtaken : BOOLEAN]

(***************************************************************************)
(* However often the writes of a reset are lost, repeated or answered      *)
(* late, one call of reset_trip releases at most one trip: a repeated      *)
(* pulse finds the sequence number used, and releases no later trip.  The  *)
(* exception is a write of a closed connection that arrives after those of *)
(* a newer one: an old sequence number is then new again to the device,    *)
(* which compares it with the last one only.                               *)
(***************************************************************************)
OneReleasePerRequest == counts.overtaken \/ counts.releases <= master.sequence
===============================================================================
