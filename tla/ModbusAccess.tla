----------------------------- MODULE ModbusAccess -----------------------------
(***************************************************************************)
(* Writing to a device over Modbus (common/modbus/server.py): the checks a *)
(* write request goes through, the lease that makes one client at a time   *)
(* the controller, and the bounded queue (base_device.py) in which         *)
(* accepted requests wait for the next scan.  Requests are handled and     *)
(* scans run in one asyncio thread without a pause inside, so each is one  *)
(* step; any client may send any request at any time, which covers lost    *)
(* answers and retries.  A register holds a set of bits.                   *)
(***************************************************************************)
EXTENDS Naturals, Sequences

CONSTANTS
    Clients,           \* source addresses
    WriteAllowlist,    \* modbus.write_allowlist; {} allows every client
    SafetyAllowlist,   \* modbus.safety_allowlist
    SingleWriter,      \* modbus.single_writer
    LeaseTime,         \* modbus.lease_seconds
    Coils, Holdings,   \* the addresses of the two writable tables
    Writable,          \* those whose RegSpec is writable
    SafetyCoils,       \* SAFETY_COILS
    Pulses,            \* coils that a scan clears
    Bits,              \* the bits of a register
    Legal,             \* the values of a register between its lo and its hi
    Defaults,          \* the memory of a new process
    Fallbacks,         \* what the communication policy may set in a scan
    Snapshots,         \* the memory in the snapshots that may be restored
    Requests,          \* the write requests clients may send
    QueueLimit,        \* maxlen of _cmd_queue
    MaxTime            \* bound: the clock stops here

Addresses == Coils \cup Holdings
Word      == SUBSET Bits
Memory    == [Addresses -> Word]
Nobody    == "nobody"
Free      == [owner |-> Nobody, expiry |-> 0]

(***************************************************************************)
(* A request sets the addresses of `values' to the bits named there, save  *)
(* for the bits of `keep', which stay as they are (the AND mask of         *)
(* function 22; {} in every other function).  Function 23 also reads;      *)
(* readFits is FALSE when what it reads lies outside the table.            *)
(***************************************************************************)
ASSUME AccessAssumption ==
    /\ Nobody \notin Clients
    /\ WriteAllowlist \subseteq Clients
    /\ SafetyAllowlist \subseteq Clients
    /\ SingleWriter \in BOOLEAN
    /\ LeaseTime \in Nat
    /\ Coils \cap Holdings = {}
    /\ Writable \subseteq Addresses
    /\ SafetyCoils \subseteq Coils
    /\ Pulses \subseteq Coils
    /\ Legal \in [Addresses -> SUBSET Word]
    /\ Defaults \in Memory
    /\ Snapshots \subseteq Memory
    /\ \A f \in Fallbacks : DOMAIN f \subseteq Holdings /\ f \in [DOMAIN f -> Word]
    /\ \A r \in Requests :
        /\ DOMAIN r.values # {}
        /\ DOMAIN r.values \subseteq Coils \/ DOMAIN r.values \subseteq Holdings
        /\ r.values \in [DOMAIN r.values -> Word]
        /\ r.keep \subseteq Bits
        /\ r.readFits \in BOOLEAN
    /\ QueueLimit \in Nat
    /\ MaxTime \in Nat

VARIABLES
    now,       \* time.monotonic()
    lease,     \* active_controller_ip and lease_expiry
    queue,     \* _cmd_queue
    memory,    \* hold and coil, which the image repeats between scans
    served     \* history: when each client last passed check_write by the lease

accessVars == <<now, lease, queue, memory, served>>

-----------------------------------------------------------------------------
(* check_write *)
Allowed(c) == WriteAllowlist = {} \/ c \in WriteAllowlist

\* Mutant: a batch that merely contains a safety coil has the privilege.
SafetyWriteAny(r) == DOMAIN r.values \cap SafetyCoils # {}

IsSafetyWrite(r) == DOMAIN r.values \subseteq SafetyCoils

Exempt(c, r) == IsSafetyWrite(r) /\ c \in SafetyAllowlist

\* Mutant: a lease never expires.
LeaseForever(c) == lease.owner \in {Nobody, c}

LeaseOpen(c) == lease.owner \in {Nobody, c} \/ now >= lease.expiry

CheckWrite(c, r) ==
    IF Exempt(c, r)                        THEN "ok"
    ELSE IF ~Allowed(c)                    THEN "address"
    ELSE IF SingleWriter /\ ~LeaseOpen(c)  THEN "busy"
    ELSE "ok"

(* The value function 22 computes uses the image, not what waits.          *)
Result(r) ==
    [a \in DOMAIN r.values |-> (memory[a] \cap r.keep) \cup (r.values[a] \ r.keep)]

Addressable(r) == DOMAIN r.values \subseteq Writable
LegalBatch(b)  == \A a \in DOMAIN b : b[a] \in Legal[a]

QueueFull == Len(queue) >= QueueLimit

(* The answer to a request, from the handlers of functions 5, 6, 15, 16,   *)
(* 22 and 23, _guard_write and _on_write.                                  *)
Answer(c, r) ==
    IF ~Addressable(r)                  THEN "address"
    ELSE IF CheckWrite(c, r) # "ok"     THEN CheckWrite(c, r)
    ELSE IF ~r.readFits                 THEN "address"
    ELSE IF ~LegalBatch(Result(r))      THEN "value"
    ELSE IF QueueFull                   THEN "busy"
    ELSE "ok"

(* The requests that take or renew the lease, whatever their answer is.    *)
Serves(c, r) == Addressable(r) /\ ~Exempt(c, r) /\ CheckWrite(c, r) = "ok"

-----------------------------------------------------------------------------
Init ==
    /\ now = 0
    /\ lease = Free
    /\ queue = <<>>
    /\ memory = Defaults
    /\ served = [c \in Clients |-> {}]

\* Mutant: only the first write takes the lease, the next do not renew it.
NotRenewed(c, r) ==
    IF SingleWriter /\ Serves(c, r) /\ lease.owner # c
    THEN [owner |-> c, expiry |-> now + LeaseTime] ELSE lease

LeaseAfter(c, r) ==
    IF SingleWriter /\ Serves(c, r)
    THEN [owner |-> c, expiry |-> now + LeaseTime] ELSE lease

Write(c, r) ==
    /\ lease' = LeaseAfter(c, r)
    /\ queue' = IF Answer(c, r) = "ok"
                THEN Append(queue, [client |-> c, values |-> Result(r)]) ELSE queue
    /\ served' = [served EXCEPT ![c] = IF Serves(c, r) THEN {now} ELSE @]
    /\ UNCHANGED <<now, memory>>

Over(batch, m) ==
    [a \in DOMAIN batch \cup DOMAIN m |-> IF a \in DOMAIN batch THEN batch[a] ELSE m[a]]

(* _apply_commands: the queue in order, then the pulses are consumed.       *)
Drained(commands, m) ==
    LET done[n \in 0 .. Len(commands)] ==
            IF n = 0 THEN m ELSE Over(commands[n].values, done[n - 1])
    IN  done[Len(commands)]

\* Mutant: a scan takes one command from the queue and drops the others.
ScanOne(fallback) ==
    /\ LET first == IF queue = <<>> THEN <<>> ELSE Head(queue).values
       IN  memory' = Over(fallback, [a \in Addresses |->
                                        IF a \in Pulses THEN {} ELSE Over(first, memory)[a]])
    /\ queue' = <<>>
    /\ UNCHANGED <<now, lease, served>>

Scan(fallback) ==
    /\ memory' = Over(fallback, [a \in Addresses |->
                                    IF a \in Pulses THEN {} ELSE Drained(queue, memory)[a]])
    /\ queue' = <<>>
    /\ UNCHANGED <<now, lease, served>>

(* restore_state: the lease is not part of a snapshot.                      *)
Restore(snapshot) ==
    /\ memory' = snapshot
    /\ queue' = <<>>
    /\ UNCHANGED <<now, lease, served>>

(* The registers and the lease are not in the store of the device.          *)
Restart ==
    /\ lease' = Free
    /\ queue' = <<>>
    /\ memory' = Defaults
    /\ served' = [c \in Clients |-> {}]
    /\ UNCHANGED now

TimePasses ==
    /\ now < MaxTime
    /\ now' = now + 1
    /\ UNCHANGED <<lease, queue, memory, served>>

Next ==
    \/ \E c \in Clients, r \in Requests : Write(c, r)
    \/ \E fallback \in Fallbacks : Scan(fallback)
    \/ \E snapshot \in Snapshots : Restore(snapshot)
    \/ Restart
    \/ TimePasses

Spec == Init /\ [][Next]_accessVars

-----------------------------------------------------------------------------
Commands == UNION {[client : Clients, values : [A -> Word]] : A \in SUBSET Addresses}

TypeOK ==
    /\ now \in 0..MaxTime
    /\ lease \in [owner : Clients \cup {Nobody}, expiry : Nat]
    /\ queue \in Seq(Commands)
    /\ Len(queue) <= QueueLimit
    /\ memory \in Memory
    /\ served \in [Clients -> SUBSET (0..MaxTime)]

Recent(c) == \E t \in served[c] : now < t + LeaseTime

(***************************************************************************)
(* One writer at a time: no request of a client is let through by the      *)
(* lease while another has been let through within the lease time, whether *)
(* or not their requests then went into the queue (check_write).           *)
(***************************************************************************)
OneWriter ==
    SingleWriter =>
        \A c \in Clients, r \in Requests :
            Serves(c, r) => \A other \in Clients \ {c} : ~Recent(other)

(***************************************************************************)
(* A client is told that the device is busy only when it is: the queue is  *)
(* full, or another client wrote within the lease time.  So a controller   *)
(* that falls silent gives way after the lease time, and no lease stands   *)
(* in the way of the safety coils of a safety client.                      *)
(***************************************************************************)
BusyJustified ==
    \A c \in Clients, r \in Requests :
        Answer(c, r) = "busy" =>
            \/ QueueFull
            \/ ~Exempt(c, r) /\ \E other \in Clients \ {c} : Recent(other)

(***************************************************************************)
(* A client outside the write allowlist reaches nothing but the safety     *)
(* coils, and only if it is on the safety allowlist: what a batch mixes in *)
(* with them never waits in the queue (_is_safety_write).                  *)
(***************************************************************************)
OutsidersReachSafetyOnly ==
    \A i \in DOMAIN queue :
        ~Allowed(queue[i].client) =>
            /\ queue[i].client \in SafetyAllowlist
            /\ DOMAIN queue[i].values \subseteq SafetyCoils

(***************************************************************************)
(* The registers implement RegisterBank: what waits is the last value      *)
(* accepted for each register, of whole and legal batches only.            *)
(***************************************************************************)
LegalBatches ==
    {b \in UNION {[DOMAIN r.values -> Word] : r \in Requests} :
        DOMAIN b \subseteq Writable /\ LegalBatch(b)}

Bank ==
    INSTANCE RegisterBank
        WITH NoPulse <- {}, Batches <- LegalBatches,
             pending <- Drained(queue, <<>>)

ImplementsBank == Bank!Spec
===============================================================================
