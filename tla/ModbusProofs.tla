----------------------------- MODULE ModbusProofs -----------------------------
(***************************************************************************)
(* Theorems about ModbusAccess, for every set of clients, lists, lease     *)
(* time, register map and queue limit.                                     *)
(***************************************************************************)
EXTENDS ModbusAccess, TLAPS

LeaseType ==
    /\ now \in Nat
    /\ lease \in [owner : Clients \cup {Nobody}, expiry : Nat]
    /\ served \in [Clients -> SUBSET Nat]

(***************************************************************************)
(* What a lease means: its owner was let through at the moment from which  *)
(* it runs, and whoever was let through within the lease time is its owner *)
(* and keeps it for at least the rest of that time.                        *)
(***************************************************************************)
LeaseHeld ==
    lease.owner # Nobody =>
        \E t \in served[lease.owner] : lease.expiry = t + LeaseTime

LeaseCovers ==
    \A c \in Clients : \A t \in served[c] :
        now < t + LeaseTime => lease.owner = c /\ t + LeaseTime <= lease.expiry

LeaseInv == LeaseType /\ (SingleWriter => LeaseHeld /\ LeaseCovers)

-----------------------------------------------------------------------------
LEMMA LeaseInit == Init => LeaseInv
<1> SUFFICES ASSUME Init PROVE LeaseInv
  OBVIOUS
<1>1. LeaseType
  BY DEF Init, Free, LeaseType
<1>2. LeaseHeld /\ LeaseCovers
  BY DEF Init, Free, LeaseHeld, LeaseCovers
<1> QED
  BY <1>1, <1>2 DEF LeaseInv

(* A request that the lease does not let through leaves it alone.           *)
LEMMA WriteLease ==
    ASSUME LeaseInv, NEW c \in Clients, NEW r \in Requests, Write(c, r)
    PROVE  LeaseInv'
<1> USE AccessAssumption
<1>1. CASE ~Serves(c, r)
  <2>1. lease' = lease /\ served' = served /\ now' = now
    BY <1>1 DEF Write, LeaseAfter, LeaseInv, LeaseType
  <2> QED
    BY <2>1 DEF LeaseInv, LeaseType, LeaseHeld, LeaseCovers
<1>2. CASE Serves(c, r)
  <2>1. served' = [served EXCEPT ![c] = {now}] /\ now' = now
    BY <1>2 DEF Write
  <2>2. lease' = IF SingleWriter THEN [owner |-> c, expiry |-> now + LeaseTime] ELSE lease
    BY <1>2 DEF Write, LeaseAfter
  <2>3. LeaseType'
    BY <2>1, <2>2 DEF LeaseInv, LeaseType
  <2>4. ASSUME SingleWriter PROVE LeaseHeld'
    BY <2>1, <2>2, <2>4 DEF LeaseInv, LeaseType, LeaseHeld
  <2>5. ASSUME SingleWriter PROVE LeaseCovers'
    <3>1. LeaseOpen(c)
      BY <1>2, <2>5 DEF Serves, CheckWrite
    <3>2. SUFFICES ASSUME NEW other \in Clients, NEW t \in served'[other],
                          now < t + LeaseTime
                   PROVE  other = c /\ t + LeaseTime <= now + LeaseTime
      BY <2>1, <2>2, <2>5 DEF LeaseCovers
    <3>3. CASE other = c
      BY <2>1, <3>3 DEF LeaseInv, LeaseType
    <3>4. CASE other # c
      <4>1. t \in served[other] /\ t \in Nat
        BY <2>1, <3>4 DEF LeaseInv, LeaseType
      <4>2. lease.owner = other /\ t + LeaseTime <= lease.expiry
        BY <2>5, <3>2, <4>1 DEF LeaseInv, LeaseCovers
      <4> QED
        BY <3>1, <3>2, <3>4, <4>1, <4>2 DEF LeaseOpen, LeaseInv, LeaseType
    <3> QED
      BY <3>3, <3>4
  <2> QED
    BY <2>3, <2>4, <2>5 DEF LeaseInv
<1> QED
  BY <1>1, <1>2

LEMMA LeaseNext == LeaseInv /\ [Next]_accessVars => LeaseInv'
<1> SUFFICES ASSUME LeaseInv, [Next]_accessVars
             PROVE  LeaseInv'
  OBVIOUS
<1> USE AccessAssumption
<1>1. ASSUME NEW c \in Clients, NEW r \in Requests, Write(c, r)
      PROVE  LeaseInv'
  BY <1>1, WriteLease
<1>2. ASSUME lease' = lease, served' = served, now' = now
      PROVE  LeaseInv'
  BY <1>2 DEF LeaseInv, LeaseType, LeaseHeld, LeaseCovers
<1>3. ASSUME NEW fallback \in Fallbacks, Scan(fallback)
      PROVE  LeaseInv'
  BY <1>2, <1>3 DEF Scan
<1>4. ASSUME NEW snapshot \in Snapshots, Restore(snapshot)
      PROVE  LeaseInv'
  BY <1>2, <1>4 DEF Restore
<1>5. CASE Restart
  BY <1>5 DEF Restart, Free, LeaseInv, LeaseType, LeaseHeld, LeaseCovers
<1>6. CASE TimePasses
  <2>1. lease' = lease /\ served' = served /\ now' = now + 1
    BY <1>6 DEF TimePasses
  <2> QED
    BY <2>1 DEF LeaseInv, LeaseType, LeaseHeld, LeaseCovers
<1>7. CASE UNCHANGED accessVars
  BY <1>2, <1>7 DEF accessVars
<1> QED
  BY <1>1, <1>3, <1>4, <1>5, <1>6, <1>7 DEF Next

LEMMA LeaseAlways == Spec => []LeaseInv
<1> QED
  BY LeaseInit, LeaseNext, PTL DEF Spec

-----------------------------------------------------------------------------
(***************************************************************************)
(* No client is let through while another was within the lease time.       *)
(***************************************************************************)
THEOREM OneController == Spec => []OneWriter
<1>1. LeaseInv => OneWriter
  <2> SUFFICES ASSUME LeaseInv, SingleWriter,
                      NEW c \in Clients, NEW r \in Requests, Serves(c, r),
                      NEW other \in Clients \ {c}, NEW t \in served[other],
                      now < t + LeaseTime
               PROVE  FALSE
    BY DEF OneWriter, Recent
  <2>1. t \in Nat /\ now \in Nat /\ lease.expiry \in Nat /\ LeaseTime \in Nat
    BY AccessAssumption DEF LeaseInv, LeaseType
  <2>2. lease.owner = other /\ t + LeaseTime <= lease.expiry
    BY DEF LeaseInv, LeaseCovers
  <2>3. now < lease.expiry
    BY <2>1, <2>2
  <2>4. LeaseOpen(c)
    BY DEF Serves, CheckWrite
  <2> QED
    BY <2>1, <2>2, <2>3, <2>4, AccessAssumption DEF LeaseOpen
<1> QED
  BY <1>1, LeaseAlways, PTL

(***************************************************************************)
(* Busy means a full queue or a recent writer, and never keeps a safety    *)
(* client from the safety coils.                                           *)
(***************************************************************************)
THEOREM BusyIsJustified == Spec => []BusyJustified
<1>1. LeaseInv => BusyJustified
  <2> SUFFICES ASSUME LeaseInv, NEW c \in Clients, NEW r \in Requests,
                      Answer(c, r) = "busy", ~QueueFull
               PROVE  ~Exempt(c, r) /\ \E other \in Clients \ {c} : Recent(other)
    BY DEF BusyJustified
  <2>1. CheckWrite(c, r) = "busy"
    BY DEF Answer
  <2>2. ~Exempt(c, r) /\ SingleWriter /\ ~LeaseOpen(c)
    BY <2>1 DEF CheckWrite
  <2>3. /\ lease.owner \in Clients \ {c}
        /\ lease.owner # Nobody
        /\ now < lease.expiry
    BY <2>2, AccessAssumption DEF LeaseOpen, LeaseInv, LeaseType
  <2>4. PICK t \in served[lease.owner] : lease.expiry = t + LeaseTime
    BY <2>2, <2>3 DEF LeaseInv, LeaseHeld
  <2>5. Recent(lease.owner)
    BY <2>3, <2>4 DEF Recent
  <2> QED
    BY <2>2, <2>3, <2>5
<1> QED
  BY <1>1, LeaseAlways, PTL

-----------------------------------------------------------------------------
(* What waits is well formed, fits the queue and comes from who may send it. *)
QueueInv ==
    /\ queue \in Seq(Commands)
    /\ Len(queue) <= QueueLimit
    /\ OutsidersReachSafetyOnly

(* A request writes words to its addresses, whatever the memory holds: of   *)
(* the memory it takes only the bits of its mask.                           *)
LEMMA ResultIsBatch ==
    ASSUME NEW r \in Requests
    PROVE  /\ DOMAIN r.values \in SUBSET Addresses
           /\ Result(r) \in [DOMAIN r.values -> Word]
<1>1. /\ r.values \in [DOMAIN r.values -> Word]
      /\ r.keep \subseteq Bits
      /\ DOMAIN r.values \subseteq Coils \/ DOMAIN r.values \subseteq Holdings
  BY AccessAssumption
<1>2. DOMAIN r.values \in SUBSET Addresses
  BY <1>1 DEF Addresses
<1>3. ASSUME NEW a \in DOMAIN r.values
      PROVE  (memory[a] \cap r.keep) \cup (r.values[a] \ r.keep) \in Word
  <2>1. r.values[a] \subseteq Bits
    BY <1>1 DEF Word
  <2> QED
    BY <1>1, <2>1 DEF Word
<1> QED
  BY <1>2, <1>3 DEF Result

LEMMA WriteQueue ==
    ASSUME QueueInv, NEW c \in Clients, NEW r \in Requests, Write(c, r)
    PROVE  QueueInv'
<1> DEFINE command == [client |-> c, values |-> Result(r)]
<1>1. CASE Answer(c, r) # "ok"
  BY <1>1 DEF Write, QueueInv, OutsidersReachSafetyOnly
<1>2. CASE Answer(c, r) = "ok"
  <2>1. queue' = Append(queue, command)
    BY <1>2 DEF Write
  <2>2. command \in Commands
    BY ResultIsBatch DEF Commands
  <2>3. CheckWrite(c, r) = "ok" /\ ~QueueFull
    BY <1>2 DEF Answer
  <2>4. queue' \in Seq(Commands) /\ Len(queue') = Len(queue) + 1
    BY <2>1, <2>2 DEF QueueInv
  <2>5. Len(queue') <= QueueLimit
    BY <2>3, <2>4, AccessAssumption DEF QueueFull, QueueInv
  <2>6. ~Allowed(c) => c \in SafetyAllowlist /\ DOMAIN command.values \subseteq SafetyCoils
    <3>1. DOMAIN Result(r) = DOMAIN r.values
      BY DEF Result
    <3> QED
      BY <2>3, <3>1 DEF CheckWrite, Exempt, IsSafetyWrite
  <2>7. OutsidersReachSafetyOnly'
    <3> SUFFICES ASSUME NEW i \in DOMAIN queue', ~Allowed(queue'[i].client)
                 PROVE  /\ queue'[i].client \in SafetyAllowlist
                        /\ DOMAIN queue'[i].values \subseteq SafetyCoils
      BY DEF OutsidersReachSafetyOnly, Allowed
    <3>1. CASE i \in DOMAIN queue
      <4>1. queue'[i] = queue[i]
        BY <2>1, <3>1 DEF QueueInv
      <4> QED
        BY <3>1, <4>1 DEF QueueInv, OutsidersReachSafetyOnly
    <3>2. CASE i \notin DOMAIN queue
      <4>1. queue'[i] = command
        BY <2>1, <2>2, <2>4, <3>2 DEF QueueInv
      <4> QED
        BY <2>6, <4>1
    <3> QED
      BY <3>1, <3>2
  <2> QED
    BY <2>4, <2>5, <2>7 DEF QueueInv
<1> QED
  BY <1>1, <1>2

LEMMA QueueNext == QueueInv /\ [Next]_accessVars => QueueInv'
<1> SUFFICES ASSUME QueueInv, [Next]_accessVars
             PROVE  QueueInv'
  OBVIOUS
<1>1. ASSUME NEW c \in Clients, NEW r \in Requests, Write(c, r)
      PROVE  QueueInv'
  BY <1>1, WriteQueue
<1>2. ASSUME queue' = queue PROVE QueueInv'
  BY <1>2 DEF QueueInv, OutsidersReachSafetyOnly, Allowed
<1>3. ASSUME queue' = <<>> PROVE QueueInv'
  BY <1>3, AccessAssumption DEF QueueInv, OutsidersReachSafetyOnly
<1>4. ASSUME NEW fallback \in Fallbacks, Scan(fallback)
      PROVE  QueueInv'
  BY <1>3, <1>4 DEF Scan
<1>5. ASSUME NEW snapshot \in Snapshots, Restore(snapshot)
      PROVE  QueueInv'
  BY <1>3, <1>5 DEF Restore
<1>6. CASE Restart
  BY <1>3, <1>6 DEF Restart
<1>7. CASE TimePasses \/ UNCHANGED accessVars
  BY <1>2, <1>7 DEF TimePasses, accessVars
<1> QED
  BY <1>1, <1>4, <1>5, <1>6, <1>7 DEF Next

(***************************************************************************)
(* Nothing but safety coils of safety clients gets past the allowlist,     *)
(* and the queue never grows past its limit.                               *)
(***************************************************************************)
THEOREM OutsidersKeptOut == Spec => []OutsidersReachSafetyOnly
<1>1. Init => QueueInv
  BY AccessAssumption DEF Init, QueueInv, OutsidersReachSafetyOnly
<1>2. QueueInv => OutsidersReachSafetyOnly
  BY DEF QueueInv
<1> QED
  BY <1>1, <1>2, QueueNext, PTL DEF Spec

-----------------------------------------------------------------------------
(***************************************************************************)
(* The registers implement the bank.  Drained is recursive over the queue; *)
(* that the recursion has one result is shown along the steps of the       *)
(* system, since a queue grows by one command at a time from nothing.      *)
(***************************************************************************)
Runs(q, m, f) ==
    f = [n \in 0 .. Len(q) |-> IF n = 0 THEN m ELSE Over(q[n].values, f[n - 1])]

Ordered(q) ==
    \A m : /\ \E f : Runs(q, m, f)
           /\ \A f, g : Runs(q, m, f) /\ Runs(q, m, g) => f[Len(q)] = g[Len(q)]

LEMMA DrainedRuns ==
    ASSUME NEW q, Ordered(q), NEW m, NEW f, Runs(q, m, f)
    PROVE  Drained(q, m) = f[Len(q)]
<1> DEFINE done == CHOOSE g : Runs(q, m, g)
<1>1. Runs(q, m, done)
  OBVIOUS
<1>2. Drained(q, m) = done[Len(q)]
  BY DEF Drained, Runs
<1> HIDE DEF done
<1> QED
  BY <1>1, <1>2 DEF Ordered

LEMMA RunsEmpty == Ordered(<<>>) /\ \A m : Drained(<<>>, m) = m
<1>1. \A m, f : Runs(<<>>, m, f) => f[0] = m
  BY DEF Runs
<1>2. \A m : Runs(<<>>, m, [n \in 0 .. 0 |-> m])
  BY DEF Runs
<1>3. Ordered(<<>>)
  BY <1>1, <1>2 DEF Ordered
<1> QED
  BY <1>1, <1>2, <1>3, DrainedRuns

\* The last command prevails over what the ones before it make of a memory.
LEMMA RunsAppend ==
    ASSUME NEW q \in Seq(Commands), NEW c \in Commands, Ordered(q)
    PROVE  /\ Ordered(Append(q, c))
           /\ \A m : Drained(Append(q, c), m) = Over(c.values, Drained(q, m))
<1> DEFINE p == Append(q, c)
<1>1. /\ p \in Seq(Commands) /\ Len(q) \in Nat /\ Len(p) = Len(q) + 1
      /\ p[Len(p)] = c /\ \A n \in 1 .. Len(q) : p[n] = q[n]
  OBVIOUS
<1> HIDE DEF p
<1>2. ASSUME NEW m, NEW f, Runs(p, m, f)
      PROVE  f[Len(p)] = Over(c.values, Drained(q, m))
  <2> DEFINE g == [n \in 0 .. Len(q) |-> f[n]]
  <2>1. /\ \A n \in 0 .. Len(p) : f[n] = IF n = 0 THEN m ELSE Over(p[n].values, f[n - 1])
    BY <1>2 DEF Runs
  <2>2. Runs(q, m, g)
    BY <1>1, <2>1 DEF Runs
  <2>3. Drained(q, m) = f[Len(q)]
    BY <1>1, <2>2, DrainedRuns
  <2> QED
    BY <1>1, <2>1, <2>3
<1>3. ASSUME NEW m PROVE \E f : Runs(p, m, f)
  <2>1. PICK g : Runs(q, m, g)
    BY DEF Ordered
  <2>2. \A n \in 0 .. Len(q) : g[n] = IF n = 0 THEN m ELSE Over(q[n].values, g[n - 1])
    BY <2>1 DEF Runs
  <2> DEFINE f == [n \in 0 .. Len(p) |-> IF n = Len(p) THEN Over(c.values, g[Len(q)]) ELSE g[n]]
  <2>3. ASSUME NEW n \in 0 .. Len(p)
        PROVE  f[n] = IF n = 0 THEN m ELSE Over(p[n].values, f[n - 1])
    <3>1. CASE n = Len(p)
      BY <1>1, <3>1
    <3>2. CASE n # Len(p)
      BY <1>1, <2>2, <3>2
    <3> QED
      BY <3>1, <3>2
  <2>4. Runs(p, m, f)
    BY <2>3 DEF Runs
  <2> QED
    BY <2>4
<1>4. Ordered(p)
  BY <1>2, <1>3 DEF Ordered
<1>5. ASSUME NEW m PROVE Drained(p, m) = Over(c.values, Drained(q, m))
  BY <1>2, <1>3, <1>4, DrainedRuns
<1> QED
  BY <1>4, <1>5 DEF p

LEMMA OverNothing == \A m \in Memory : Over(<<>>, m) = m
BY DEF Over, Memory

LEMMA OverOver == \A b, p, m : Over(Over(b, p), m) = Over(b, Over(p, m))
<1> SUFFICES ASSUME NEW b, NEW p, NEW m PROVE Over(Over(b, p), m) = Over(b, Over(p, m))
  OBVIOUS
<1>1. DOMAIN Over(b, p) = DOMAIN b \cup DOMAIN p /\ DOMAIN Over(p, m) = DOMAIN p \cup DOMAIN m
  BY DEF Over
<1>2. \A a \in DOMAIN b \cup DOMAIN p \cup DOMAIN m :
          (IF a \in DOMAIN Over(b, p) THEN Over(b, p)[a] ELSE m[a])
          = (IF a \in DOMAIN b THEN b[a] ELSE Over(p, m)[a])
  BY <1>1 DEF Over
<1> QED
  BY <1>1, <1>2 DEF Over

\* To drain a queue into the memory is to put what waits into it.
LEMMA DrainedIsOver ==
    ASSUME NEW q \in Seq(Commands), Ordered(q), NEW m \in Memory
    PROVE  Drained(q, m) = Over(Drained(q, <<>>), m)
<1>1. PICK f : Runs(q, <<>>, f)
  BY DEF Ordered
<1>2. \A n \in 0 .. Len(q) : f[n] = IF n = 0 THEN <<>> ELSE Over(q[n].values, f[n - 1])
  BY <1>1 DEF Runs
<1> DEFINE g == [n \in 0 .. Len(q) |-> Over(f[n], m)]
<1>3. Len(q) \in Nat
  OBVIOUS
<1>4. ASSUME NEW n \in 0 .. Len(q)
      PROVE  g[n] = IF n = 0 THEN m ELSE Over(q[n].values, g[n - 1])
  <2>1. CASE n = 0
    <3>1. f[0] = <<>> /\ g[0] = Over(f[0], m)
      BY <1>2, <1>3
    <3> QED
      BY <2>1, <3>1, OverNothing
  <2>2. CASE n # 0
    <3>1. n - 1 \in 0 .. Len(q)
      BY <1>3, <2>2
    <3>2. f[n] = Over(q[n].values, f[n - 1]) /\ g[n] = Over(f[n], m) /\ g[n - 1] = Over(f[n - 1], m)
      BY <1>2, <2>2, <3>1
    <3> QED
      BY <2>2, <3>2, OverOver
  <2> QED
    BY <2>1, <2>2
<1>5. Runs(q, m, g)
  BY <1>4 DEF Runs
<1>6. Drained(q, m) = g[Len(q)] /\ Drained(q, <<>>) = f[Len(q)]
  BY <1>1, <1>5, DrainedRuns
<1> QED
  BY <1>3, <1>6

-----------------------------------------------------------------------------
Waiting == UNION {[A -> Word] : A \in SUBSET Addresses}

BankInv ==
    /\ QueueInv
    /\ memory \in Memory
    /\ Ordered(queue)
    /\ Drained(queue, <<>>) \in Waiting

LEMMA WaitingMaps ==
    ASSUME NEW p
    PROVE  p \in Waiting <=> /\ DOMAIN p \subseteq Addresses
                             /\ p = [a \in DOMAIN p |-> p[a]]
                             /\ \A a \in DOMAIN p : p[a] \in Word
<1>1. ASSUME p \in Waiting
      PROVE  /\ DOMAIN p \subseteq Addresses
             /\ p = [a \in DOMAIN p |-> p[a]]
             /\ \A a \in DOMAIN p : p[a] \in Word
  BY <1>1 DEF Waiting
<1>2. ASSUME DOMAIN p \subseteq Addresses, p = [a \in DOMAIN p |-> p[a]],
             \A a \in DOMAIN p : p[a] \in Word
      PROVE  p \in Waiting
  <2>1. p \in [DOMAIN p -> Word] /\ DOMAIN p \in SUBSET Addresses
    BY <1>2
  <2> QED
    BY <2>1, Zenon DEF Waiting
<1> QED
  BY <1>1, <1>2

LEMMA OverTyped ==
    /\ \A b, p : b \in Waiting /\ p \in Waiting => Over(b, p) \in Waiting
    /\ \A b, m : b \in Waiting /\ m \in Memory => Over(b, m) \in Memory
<1>1. ASSUME NEW b \in Waiting, NEW p \in Waiting PROVE Over(b, p) \in Waiting
  <2>1. /\ DOMAIN b \subseteq Addresses /\ \A a \in DOMAIN b : b[a] \in Word
        /\ DOMAIN p \subseteq Addresses /\ \A a \in DOMAIN p : p[a] \in Word
    BY WaitingMaps
  <2>2. /\ DOMAIN Over(b, p) \subseteq Addresses
        /\ Over(b, p) = [a \in DOMAIN Over(b, p) |-> Over(b, p)[a]]
        /\ \A a \in DOMAIN Over(b, p) : Over(b, p)[a] \in Word
    BY <2>1 DEF Over
  <2> QED
    BY <2>2, WaitingMaps
<1>2. ASSUME NEW b \in Waiting, NEW m \in Memory PROVE Over(b, m) \in Memory
  <2>1. DOMAIN b \subseteq Addresses /\ \A a \in DOMAIN b : b[a] \in Word
    BY WaitingMaps
  <2> QED
    BY <2>1 DEF Over, Memory
<1> QED
  BY <1>1, <1>2

\* What a client has accepted is a batch the bank knows.
LEMMA AcceptedIsLegal ==
    ASSUME NEW c \in Clients, NEW r \in Requests, Answer(c, r) = "ok"
    PROVE  Result(r) \in LegalBatches
<1>1. /\ DOMAIN r.values \subseteq Writable /\ LegalBatch(Result(r))
      /\ Result(r) \in [DOMAIN r.values -> Word]
  BY ResultIsBatch DEF Answer, Addressable
<1>2. Result(r) \in UNION {[DOMAIN x.values -> Word] : x \in Requests}
  BY <1>1, Zenon
<1>3. DOMAIN Result(r) \subseteq Writable
  BY <1>1 DEF Result
<1> QED
  BY <1>1, <1>2, <1>3, Zenon DEF LegalBatches

LEMMA CommandTyped ==
    ASSUME NEW c \in Clients, NEW r \in Requests
    PROVE  /\ [client |-> c, values |-> Result(r)] \in Commands
           /\ Result(r) \in Waiting
<1>1. DOMAIN r.values \in SUBSET Addresses /\ Result(r) \in [DOMAIN r.values -> Word]
  BY ResultIsBatch
<1>2. Result(r) \in Waiting
  BY <1>1, Zenon DEF Waiting
<1> QED
  BY <1>1, <1>2 DEF Commands

\* A scan leaves in the registers what the bank says.
LEMMA ScanOfBank ==
    ASSUME BankInv, NEW fallback \in Fallbacks, Scan(fallback)
    PROVE  Bank!Scan(fallback) /\ memory' \in Memory
<1> DEFINE consumed == [a \in Addresses |-> IF a \in Pulses THEN {} ELSE Drained(queue, memory)[a]]
           all == Over(Drained(queue, <<>>), memory)
<1>1. memory' = Over(fallback, consumed) /\ queue' = <<>>
  BY DEF Scan
<1>2. queue \in Seq(Commands) /\ Ordered(queue) /\ memory \in Memory /\ Drained(queue, <<>>) \in Waiting
  BY DEF BankInv, QueueInv
<1>3. Drained(queue, memory) = all
  BY <1>2, DrainedIsOver
<1>4. all \in Memory
  BY <1>2, OverTyped
<1> HIDE DEF all
<1>5. Bank!Consumed(all) = consumed
  BY <1>3, <1>4 DEF Bank!Consumed, Memory
<1>6. consumed \in Memory
  BY <1>3, <1>4 DEF Memory, Word
<1>7. fallback \in Waiting
  <2>1. fallback \in [DOMAIN fallback -> Word] /\ DOMAIN fallback \in SUBSET Addresses
    BY AccessAssumption DEF AccessAssumption, Addresses
  <2> QED
    BY <2>1, Zenon DEF Waiting
<1>8. memory' \in Memory
  BY <1>1, <1>6, <1>7, OverTyped
<1>9. Drained(queue, <<>>)' = <<>>
  BY <1>1, RunsEmpty
<1>10. memory' = Bank!Over(fallback, Bank!Consumed(Bank!Over(Drained(queue, <<>>), memory)))
  BY <1>1, <1>5 DEF all, Over, Bank!Over
<1> QED
  BY <1>8, <1>9, <1>10 DEF Bank!Scan, Bank!Nothing

LEMMA WriteOfBank ==
    ASSUME BankInv, NEW c \in Clients, NEW r \in Requests, Write(c, r), Answer(c, r) = "ok"
    PROVE  Bank!Accept(Result(r)) /\ Ordered(queue)' /\ Drained(queue, <<>>)' \in Waiting
<1> DEFINE command == [client |-> c, values |-> Result(r)]
<1>1. queue' = Append(queue, command) /\ memory' = memory
  BY DEF Write
<1>2. command \in Commands /\ Result(r) \in Waiting /\ command.values = Result(r)
  BY CommandTyped
<1>3. queue \in Seq(Commands) /\ Ordered(queue) /\ Drained(queue, <<>>) \in Waiting
  BY DEF BankInv, QueueInv
<1> HIDE DEF command
<1>4. Ordered(queue') /\ Drained(queue', <<>>) = Over(Result(r), Drained(queue, <<>>))
  BY <1>1, <1>2, <1>3, RunsAppend
<1>5. Drained(queue', <<>>) \in Waiting
  BY <1>2, <1>3, <1>4, OverTyped
<1>6. Drained(queue, <<>>)' = Bank!Over(Result(r), Drained(queue, <<>>))
  BY <1>4 DEF Over, Bank!Over
<1> QED
  BY <1>1, <1>4, <1>5, <1>6 DEF Bank!Accept

LEMMA NothingWaits == <<>> \in Waiting
<1>1. <<>> \in [{} -> Word] /\ {} \in SUBSET Addresses
  OBVIOUS
<1> QED
  BY <1>1, Zenon DEF Waiting

LEMMA BankInitial == Init => BankInv /\ Bank!Init
<1> SUFFICES ASSUME Init PROVE BankInv /\ Bank!Init
  OBVIOUS
<1>1. queue = <<>> /\ memory = Defaults /\ memory \in Memory
  BY AccessAssumption DEF Init, AccessAssumption
<1>2. QueueInv
  BY <1>1, AccessAssumption DEF QueueInv, OutsidersReachSafetyOnly, AccessAssumption
<1>3. Ordered(queue) /\ Drained(queue, <<>>) = <<>>
  BY <1>1, RunsEmpty
<1> QED
  BY <1>1, <1>2, <1>3, NothingWaits DEF BankInv, Bank!Init, Bank!Nothing

LEMMA BankStep ==
    BankInv /\ [Next]_accessVars => BankInv' /\ [Bank!Next]_(Bank!bankVars)
<1> SUFFICES ASSUME BankInv, [Next]_accessVars PROVE BankInv' /\ [Bank!Next]_(Bank!bankVars)
  OBVIOUS
<1>1. QueueInv'
  BY QueueNext DEF BankInv
<1>2. ASSUME UNCHANGED <<queue, memory>> PROVE BankInv' /\ UNCHANGED Bank!bankVars
  BY <1>1, <1>2 DEF BankInv, Bank!bankVars
<1>3. ASSUME queue' = <<>>, memory' \in Memory PROVE BankInv' /\ Drained(queue, <<>>)' = <<>>
  <2>1. Ordered(queue') /\ Drained(queue', <<>>) = <<>>
    BY <1>3, RunsEmpty
  <2> QED
    BY <1>1, <1>3, <2>1, NothingWaits DEF BankInv
<1>4. ASSUME NEW c \in Clients, NEW r \in Requests, Write(c, r)
      PROVE  BankInv' /\ [Bank!Next]_(Bank!bankVars)
  <2>1. CASE Answer(c, r) = "ok"
    <3>1. Bank!Next
      BY <1>4, <2>1, WriteOfBank, AcceptedIsLegal DEF Bank!Next
    <3>2. memory' = memory
      BY <1>4 DEF Write
    <3> QED
      BY <1>1, <1>4, <2>1, <3>1, <3>2, WriteOfBank DEF BankInv
  <2>2. CASE Answer(c, r) # "ok"
    BY <1>2, <1>4, <2>2 DEF Write
  <2> QED
    BY <2>1, <2>2
<1>5. ASSUME NEW fallback \in Fallbacks, Scan(fallback)
      PROVE  BankInv' /\ Bank!Next
  BY <1>3, <1>5, ScanOfBank DEF Scan, Bank!Next
<1>6. ASSUME NEW m \in Snapshots \cup {Defaults}, memory' = m, queue' = <<>>
      PROVE  BankInv' /\ Bank!Next
  <2>1. m \in Memory
    BY AccessAssumption DEF AccessAssumption
  <2>2. BankInv' /\ Bank!Reload(m)
    BY <1>3, <1>6, <2>1 DEF Bank!Reload, Bank!Nothing
  <2> QED
    BY <2>2 DEF Bank!Next
<1>7. CASE (\E snapshot \in Snapshots : Restore(snapshot)) \/ Restart
  BY <1>6, <1>7 DEF Restore, Restart
<1>8. CASE TimePasses \/ UNCHANGED accessVars
  BY <1>2, <1>8 DEF TimePasses, accessVars
<1> QED
  BY <1>4, <1>5, <1>7, <1>8 DEF Next

(***************************************************************************)
(* The checks, the lease, the queue and its scans implement the bank: what *)
(* waits for a register is the last value accepted for it, of whole and    *)
(* legal batches only, and a scan puts all of it into the registers.       *)
(***************************************************************************)
THEOREM AccessImplementsBank == Spec => ImplementsBank
<1> QED
  BY BankInitial, BankStep, PTL DEF Spec, ImplementsBank, Bank!Spec

(***************************************************************************)
(* The lease, the queue and the registers keep their types: in particular  *)
(* no sequence of requests makes the queue longer than its limit.          *)
(***************************************************************************)
THEOREM AccessTyped == Spec => []TypeOK
<1> DEFINE Clocked == now \in 0 .. MaxTime /\ served \in [Clients -> SUBSET (0 .. MaxTime)]
<1>1. Init => Clocked
  BY AccessAssumption DEF Init, AccessAssumption
<1>2. Clocked /\ [Next]_accessVars => Clocked'
  <2> SUFFICES ASSUME Clocked, [Next]_accessVars PROVE Clocked'
    OBVIOUS
  <2>1. ASSUME NEW c \in Clients, NEW r \in Requests, Write(c, r) PROVE Clocked'
    BY <2>1 DEF Write
  <2>2. CASE TimePasses
    BY <2>2, AccessAssumption DEF TimePasses, AccessAssumption
  <2>3. CASE Restart
    BY <2>3 DEF Restart
  <2>4. CASE UNCHANGED <<now, served>>
    BY <2>4
  <2> QED
    BY <2>1, <2>2, <2>3, <2>4 DEF Next, Scan, Restore, accessVars
<1>3. Clocked /\ LeaseInv /\ BankInv => TypeOK
  BY DEF LeaseInv, LeaseType, BankInv, QueueInv, TypeOK
<1> QED
  BY <1>1, <1>2, <1>3, LeaseAlways, BankInitial, BankStep, PTL DEF Spec
===============================================================================
