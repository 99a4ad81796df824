---------------------------- MODULE DurableProofs ----------------------------
(***************************************************************************)
(* Proofs about DurableDevice for every number of protections, every       *)
(* delay, every device program and policy, and any sequence of scans,      *)
(* saves, kills, shutdowns, snapshots and restores.                        *)
(*                                                                         *)
(* What a scan does is taken from DeviceProofs; here a device is carried   *)
(* through the store and through a snapshot.  The emergency stop of        *)
(* DeviceProofs is no part of the invariant: a clean restore of a snapshot *)
(* taken under emergency stop leaves the device OFF with the coil on,      *)
(* until the next scan trips it.                                           *)
(***************************************************************************)
EXTENDS DurableDevice, DeviceProofs

SoundPayload(p) == p \in PayloadState /\ EngineConsistent(p.prot)

DurableInv ==
    /\ Sound(dev)
    /\ pending \in [Regs -> WordOrNone]
    /\ SoundPayload(disk)
    /\ \A s \in snaps : Sound(s)

-----------------------------------------------------------------------------
(* What is written to the store, and what is made of it.                   *)

LEMMA PayloadSound ==
    ASSUME NEW d, Sound(d)
    PROVE  SoundPayload(Payload(d)) /\ MemoryOf(Payload(d)) = MemoryOf(d)
BY DEF Sound, Consistent, SoundPayload, PayloadState, Payload, DeviceState, MemoryOf

LEMMA BootSound ==
    ASSUME NEW p, SoundPayload(p)
    PROVE  Sound(Boot(p)) /\ MemoryOf(Boot(p)) = MemoryOf(p)
<1> DEFINE phase == IF AnyLatched(p.prot) THEN "TRIPPED" ELSE InitialPhase(Kind)
<1>1. /\ p.prot \in EngineState /\ p.operatorStop \in BOOLEAN /\ p.lastSequence \in WordOrNone
      /\ EngineConsistent(p.prot)
  BY DEF SoundPayload, PayloadState
<1>2. phase \in Phases /\ (phase = "TRIPPED" <=> AnyLatched(p.prot))
  BY InitialPhaseFacts DEF Phases
<1>3. NewDevice \in DeviceState
  BY NewDeviceSound DEF Sound
<1>4. Boot(p) = [NewDevice EXCEPT !.prot = p.prot, !.operatorStop = p.operatorStop,
                                  !.lastSequence = p.lastSequence, !.phase = phase]
  BY DEF Boot
<1> HIDE DEF phase
<1>5. /\ Boot(p) \in DeviceState /\ Boot(p).prot = p.prot /\ Boot(p).phase = phase
      /\ Boot(p).operatorStop = p.operatorStop /\ Boot(p).lastSequence = p.lastSequence
  BY <1>1, <1>2, <1>3, <1>4 DEF DeviceState
<1> QED
  BY <1>1, <1>2, <1>5 DEF Sound, Consistent, Tripped, MemoryOf

LEMMA SnapshotSound ==
    ASSUME NEW d, Sound(d)
    PROVE  Sound(SnapshotOf(d)) /\ MemoryOf(SnapshotOf(d)) = MemoryOf(d)
BY DEF Sound, Consistent, SnapshotOf, DeviceState, MemoryOf, Tripped

\* A memory with another cause, and the STOP in force or not.
With(m, cause, stopped) == [m EXCEPT !.cause = cause, !.stopped = stopped]

LEMMA WithFields ==
    ASSUME NEW a, NEW b, NEW c, NEW x, NEW z
    PROVE  With([cause |-> a, seq |-> b, stopped |-> c], x, z)
             = [cause |-> x, seq |-> b, stopped |-> z]
<1> DEFINE n == With([cause |-> a, seq |-> b, stopped |-> c], x, z)
<1>1. n \in [cause : {x}, seq : {b}, stopped : {z}]
  BY DEF With
<1>2. n = [cause |-> n.cause, seq |-> n.seq, stopped |-> n.stopped] /\ n.cause = x /\ n.seq = b /\ n.stopped = z
  <2> HIDE DEF n
  <2> QED
    BY <1>1
<1> QED
  BY <1>2

(* A clean restore leaves nothing latched and keeps the sequence used up.  *)
LEMMA CleanedSound ==
    ASSUME NEW d, Sound(d)
    PROVE  /\ Sound(Cleaned(d))
           /\ MemoryOf(Cleaned(d)) = With(MemoryOf(d), NoCode, FALSE)
<1> DEFINE e     == ClearAllLatches(d.prot)
           phase == IF Tripped(d) THEN "OFF" ELSE d.phase
<1>1. d \in DeviceState /\ d.prot \in EngineState
  BY DEF Sound, DeviceState
<1>2. /\ e \in EngineState /\ e.active = {} /\ e.latched = {} /\ e.firstFlags = {}
      /\ e.firstOut = NoCode
  BY <1>1 DEF ClearAllLatches, EngineState
<1>3. phase \in Phases \ {"TRIPPED"}
  BY <1>1 DEF Tripped, DeviceState, Phases
<1>4. Cleaned(d) = [d EXCEPT !.prot = e, !.operatorStop = FALSE, !.phase = phase]
  BY DEF Cleaned
<1> HIDE DEF e, phase
<1>5. /\ Cleaned(d) \in DeviceState /\ Cleaned(d).prot = e /\ Cleaned(d).phase = phase
      /\ Cleaned(d).operatorStop = FALSE /\ Cleaned(d).lastSequence = d.lastSequence
  BY <1>1, <1>2, <1>3, <1>4 DEF DeviceState
<1>6. EngineConsistent(e)
  BY <1>2 DEF EngineConsistent
<1>7. Sound(Cleaned(d))
  BY <1>2, <1>3, <1>5, <1>6 DEF Sound, Consistent, Tripped, AnyLatched
<1>8. MemoryOf(Cleaned(d)) = [cause |-> NoCode, seq |-> d.lastSequence, stopped |-> FALSE]
  BY <1>2, <1>5 DEF MemoryOf
<1>9. With(MemoryOf(d), NoCode, FALSE) =
        [cause |-> NoCode, seq |-> d.lastSequence, stopped |-> FALSE]
  <2>1. MemoryOf(d) = [cause |-> d.prot.firstOut, seq |-> d.lastSequence, stopped |-> d.operatorStop]
    BY DEF MemoryOf
  <2>2. \A z : With(MemoryOf(d), NoCode, z) =
                 [cause |-> NoCode, seq |-> d.lastSequence, stopped |-> z]
    BY <2>1, WithFields
  <2> QED
    BY <2>2, Zenon
<1> QED
  BY <1>7, <1>8, <1>9

LEMMA RestoredSound ==
    ASSUME NEW s, Sound(s), NEW clean \in BOOLEAN
    PROVE  /\ Sound(Restored(s, clean))
           /\ MemoryOf(Restored(s, clean)) =
                IF clean THEN With(MemoryOf(s), NoCode, FALSE)
                ELSE MemoryOf(s)
BY CleanedSound DEF Restored

-----------------------------------------------------------------------------
(* A step, seen by the device and by the memory it promises to keep.       *)

LEMMA OperateFacts ==
    ASSUME DurableInv, Next
    PROVE  /\ Sound(dev') /\ pending' \in [Regs -> WordOrNone]
           /\ \/ KeepsEngine(dev.prot, dev'.prot) /\ dev'.lastSequence = dev.lastSequence
              \/ dev'.lastSequence \in Word \ {dev.lastSequence}
<1>1. ASSUME NEW w \in Writes, Write(w)
      PROVE  dev' = dev /\ pending' \in [Regs -> WordOrNone]
  BY <1>1, WriteSound DEF DurableInv
<1>2. ASSUME NEW in \in Inputs, Scan(in)
      PROVE  /\ Sound(dev') /\ pending' \in [Regs -> WordOrNone]
             /\ \/ KeepsEngine(dev.prot, dev'.prot) /\ dev'.lastSequence = dev.lastSequence
                \/ dev'.lastSequence \in Word \ {dev.lastSequence}
  BY <1>2, ScanSound DEF DurableInv
<1> QED
  BY <1>1, <1>2 DEF Next, DurableInv, KeepsEngine

LEMMA EmptyPending == Empty \in [Regs -> WordOrNone]
BY WordFacts DEF Empty

LEMMA DurableStart == DurableInit => DurableInv
BY NewDeviceSound, PayloadSound, EmptyPending DEF DurableInit, Init, DurableInv

LEMMA DurableInductive == DurableInv /\ [DurableNext]_durableVars => DurableInv'
<1> SUFFICES ASSUME DurableInv, [DurableNext]_durableVars PROVE DurableInv'
  OBVIOUS
<1>1. /\ Sound(dev) /\ pending \in [Regs -> WordOrNone] /\ SoundPayload(disk)
      /\ \A s \in snaps : Sound(s)
  BY DEF DurableInv
<1>2. CASE Operate
  BY <1>1, <1>2, OperateFacts DEF Operate, DurableInv
<1>3. CASE Persist
  BY <1>1, <1>3, PayloadSound DEF Persist, DurableInv
<1>4. CASE Crash
  BY <1>1, <1>4, BootSound, EmptyPending DEF Crash, DurableInv
<1>5. CASE Shutdown
  <2>1. SoundPayload(disk') /\ dev' = Boot(disk') /\ pending' = Empty /\ snaps' = snaps
    BY <1>1, <1>5, PayloadSound DEF Shutdown
  <2> QED
    BY <1>1, <2>1, BootSound, EmptyPending DEF DurableInv
<1>6. CASE TakeSnapshot
  BY <1>1, <1>6, SnapshotSound DEF TakeSnapshot, DurableInv
<1>7. ASSUME NEW s \in snaps, NEW clean \in BOOLEAN, Restore(s, clean) PROVE DurableInv'
  <2>1. Sound(dev')
    BY <1>1, <1>7, RestoredSound DEF Restore
  <2>2. pending' = Empty /\ disk' = Payload(dev') /\ snaps' = snaps
    BY <1>7 DEF Restore
  <2> QED
    BY <1>1, <2>1, <2>2, PayloadSound, EmptyPending DEF DurableInv
<1>8. CASE UNCHANGED durableVars
  BY <1>1, <1>8 DEF durableVars, DurableInv
<1> QED
  BY <1>2, <1>3, <1>4, <1>5, <1>6, <1>7, <1>8 DEF DurableNext

(***************************************************************************)
(* The store and the snapshots hold only states that a device can be in,   *)
(* and the device that is made of one is again such a device.              *)
(***************************************************************************)
THEOREM DurableInvariance == DurableSpec => []DurableInv
BY DurableStart, DurableInductive, PTL DEF DurableSpec

(***************************************************************************)
(* Whatever saves, kills, shutdowns and restores come, the latch, the      *)
(* first-out and the state machine agree (_restore_persisted,              *)
(* restore_state).                                                         *)
(***************************************************************************)
THEOREM ConsistentAcrossRestarts == DurableSpec => []DurableConsistent
<1>1. DurableInv => DurableConsistent
  BY DEF DurableInv, DurableConsistent, Sound, SoundPayload
<1> QED
  BY <1>1, DurableInvariance, PTL

(***************************************************************************)
(* The store and the snapshots hold payloads and states of the declared    *)
(* types (save and load of common/device/persistence.py).                  *)
(***************************************************************************)
THEOREM DurableTyped == DurableSpec => []DurableTypeOK
<1>1. DurableInv => DurableTypeOK
  BY DEF DurableInv, DurableTypeOK, TypeOK, Sound, SoundPayload
<1> QED
  BY <1>1, DurableInvariance, PTL

LEMMA MemoryTypes ==
    ASSUME NEW d, Sound(d)
    PROVE  /\ MemoryOf(d).cause \in Codes \cup {NoCode}
           /\ MemoryOf(d).stopped \in BOOLEAN
           /\ MemoryOf(d) = [cause   |-> d.prot.firstOut, seq |-> d.lastSequence,
                             stopped |-> d.operatorStop]
BY DEF MemoryOf, Sound, DeviceState, EngineState

LEMMA OperateRemembers ==
    ASSUME DurableInv, Operate
    PROVE  Memory!Operate \/ Memory!Latch \/ Memory!Reset
<1> DEFINE old == MemoryOf(dev)
           new == MemoryOf(dev')
<1>1. /\ Sound(dev) /\ Sound(dev')
      /\ \/ KeepsEngine(dev.prot, dev'.prot) /\ dev'.lastSequence = dev.lastSequence
         \/ dev'.lastSequence \in Word \ {dev.lastSequence}
  BY OperateFacts DEF Operate, DurableInv
<1>2. UNCHANGED <<MemoryOf(disk), {MemoryOf(s) : s \in snaps}>>
  BY DEF Operate
<1>3. /\ old = [cause |-> dev.prot.firstOut, seq |-> dev.lastSequence, stopped |-> dev.operatorStop]
      /\ new = [cause |-> dev'.prot.firstOut, seq |-> dev'.lastSequence, stopped |-> dev'.operatorStop]
      /\ dev'.prot.firstOut \in Codes \cup {NoCode} /\ dev'.operatorStop \in BOOLEAN
  BY <1>1, MemoryTypes DEF MemoryOf
<1> HIDE DEF old, new
<1>4. CASE dev'.lastSequence \in Word \ {dev.lastSequence}
  <2>1. new \in [cause : Codes \cup {NoCode}, seq : Word, stopped : BOOLEAN] /\ new.seq # old.seq
    BY <1>3, <1>4
  <2> QED
    BY <1>2, <2>1 DEF Memory!Reset, old, new
<1>5. CASE /\ dev'.lastSequence = dev.lastSequence
           /\ dev'.prot.firstOut = dev.prot.firstOut
  <2>1. new = [old EXCEPT !.stopped = dev'.operatorStop]
    BY <1>3, <1>5
  <2> QED
    BY <1>2, <1>3, <2>1 DEF Memory!Operate, old, new
<1>6. CASE /\ dev'.lastSequence = dev.lastSequence
           /\ dev.prot.firstOut = NoCode /\ dev'.prot.firstOut # NoCode
  <2>1. /\ new = [old EXCEPT !.cause = dev'.prot.firstOut, !.stopped = dev'.operatorStop]
        /\ old.cause = NoCode /\ dev'.prot.firstOut \in Codes
    <3>1. old = [cause |-> NoCode, seq |-> dev.lastSequence, stopped |-> dev.operatorStop]
      BY <1>3, <1>6
    <3>2. With(old, dev'.prot.firstOut, dev'.operatorStop) =
            [cause |-> dev'.prot.firstOut, seq |-> dev.lastSequence, stopped |-> dev'.operatorStop]
      BY <3>1, WithFields
    <3>3. new = [cause |-> dev'.prot.firstOut, seq |-> dev.lastSequence, stopped |-> dev'.operatorStop]
      BY <1>3, <1>6
    <3>4. dev'.prot.firstOut \in Codes
      BY <1>3, <1>6
    <3>5. old.cause = NoCode
      BY <3>1
    <3> QED
      BY <3>2, <3>3, <3>4, <3>5 DEF With
  <2> QED
    BY <1>2, <1>3, <2>1 DEF Memory!Latch, old, new
<1> QED
  BY <1>1, <1>4, <1>5, <1>6 DEF KeepsEngine

LEMMA RememberStep == DurableInv /\ [DurableNext]_durableVars => [Memory!Next]_(Memory!vars)
<1> SUFFICES ASSUME DurableInv, [DurableNext]_durableVars PROVE [Memory!Next]_(Memory!vars)
  OBVIOUS
<1>1. /\ Sound(dev) /\ SoundPayload(disk) /\ \A s \in snaps : Sound(s)
  BY DEF DurableInv
<1>2. CASE Operate
  BY <1>2, OperateRemembers DEF Memory!Next
<1>3. CASE Persist
  <2>1. MemoryOf(disk') = MemoryOf(dev) /\ UNCHANGED <<dev, snaps>>
    BY <1>1, <1>3, PayloadSound DEF Persist
  <2>2. Memory!Save
    BY <2>1 DEF Memory!Save
  <2> QED
    BY <2>2 DEF Memory!Next
<1>4. CASE Crash
  <2>1. MemoryOf(dev') = MemoryOf(disk) /\ UNCHANGED <<disk, snaps>>
    BY <1>1, <1>4, BootSound DEF Crash
  <2>2. Memory!Crash
    BY <2>1 DEF Memory!Crash
  <2> QED
    BY <2>2 DEF Memory!Next
<1>5. CASE Shutdown
  <2>1. MemoryOf(disk') = MemoryOf(dev) /\ SoundPayload(disk') /\ dev' = Boot(disk') /\ snaps' = snaps
    BY <1>1, <1>5, PayloadSound DEF Shutdown
  <2>2. MemoryOf(dev') = MemoryOf(dev)
    BY <2>1, BootSound
  <2>3. Memory!Save
    BY <2>1, <2>2 DEF Memory!Save
  <2> QED
    BY <2>3 DEF Memory!Next
<1>6. CASE TakeSnapshot
  <2>1. snaps' = {SnapshotOf(dev)} /\ MemoryOf(SnapshotOf(dev)) = MemoryOf(dev) /\ UNCHANGED <<dev, disk>>
    BY <1>1, <1>6, SnapshotSound DEF TakeSnapshot
  <2>2. Memory!TakeSnapshot
    BY <2>1 DEF Memory!TakeSnapshot
  <2> QED
    BY <2>2 DEF Memory!Next
<1>7. ASSUME NEW s \in snaps, NEW clean \in BOOLEAN, Restore(s, clean)
      PROVE  Memory!Next
  <2>1. /\ MemoryOf(dev') = IF clean THEN With(MemoryOf(s), NoCode, FALSE)
                            ELSE MemoryOf(s)
        /\ Sound(dev')
    <3>1. dev' = Restored(s, clean)
      BY <1>7 DEF Restore
    <3>2. Sound(s)
      BY <1>1
    <3>3. /\ Sound(Restored(s, clean))
          /\ MemoryOf(Restored(s, clean)) =
                IF clean THEN With(MemoryOf(s), NoCode, FALSE)
                ELSE MemoryOf(s)
      BY <1>1, <1>7, <3>2, RestoredSound
    <3> QED
      BY <3>1, <3>3, Zenon
  <2>2. MemoryOf(disk') = MemoryOf(dev') /\ snaps' = snaps
    BY <1>7, <2>1, PayloadSound DEF Restore
  <2>3. MemoryOf(s) \in {MemoryOf(x) : x \in snaps}
    OBVIOUS
  <2>4. Memory!Restore
    BY <2>1, <2>2, <2>3 DEF Memory!Restore, With
  <2> QED
    BY <2>4 DEF Memory!Next
<1>8. CASE UNCHANGED durableVars
  BY <1>8 DEF durableVars, Memory!vars
<1> QED
  BY <1>2, <1>3, <1>4, <1>5, <1>6, <1>7, <1>8 DEF DurableNext

(***************************************************************************)
(* The device with its store and its snapshots implements the memory of a  *)
(* trip that TripMemory promises, whatever its protections, its program    *)
(* and its history.                                                        *)
(***************************************************************************)
THEOREM MemoryImplemented == DurableSpec => ImplementsMemory
<1>1. DurableInit => Memory!Init
  <2> SUFFICES ASSUME DurableInit PROVE Memory!Init
    OBVIOUS
  <2>1. dev = NewDevice /\ disk = Payload(NewDevice) /\ snaps = {}
    BY DEF DurableInit, Init
  <2>2. MemoryOf(NewDevice) = [cause |-> NoCode, seq |-> NoSequence, stopped |-> FALSE]
    BY DEF MemoryOf, NewDevice, NewEngine
  <2>3. MemoryOf(disk) = MemoryOf(NewDevice)
    BY <2>1, NewDeviceSound, PayloadSound
  <2> QED
    BY <2>1, <2>2, <2>3 DEF Memory!Init, Memory!Blank
<1> QED
  BY <1>1, RememberStep, DurableInvariance, PTL DEF DurableSpec, ImplementsMemory, Memory!Spec
===============================================================================
