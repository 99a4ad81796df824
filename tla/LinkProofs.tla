------------------------------- MODULE LinkProofs -------------------------------
(***************************************************************************)
(* Theorems about what travels between the devices and those who watch and *)
(* command them: alarms, readings and faults, the quality of a signal, the *)
(* watchdog and the pulses of a gateway, the writes of a reset.  They hold *)
(* for every set of devices and every bound.                               *)
(***************************************************************************)
EXTENDS Alarms, Faults, Signals, Supervision, ResetLink, Gateway, FiniteSetTheorems, TLAPS

(* The alarms: the history of the copy goes with the copy.                 *)
AlarmsInv ==
    /\ AlarmsTypeOK
    /\ unseen.now => Unacked(alarm)
    /\ unseen.stored => Unacked(stored)

LEMMA AlarmsStart == AlarmsInit => AlarmsInv
  BY DEF AlarmsInit, AlarmsInv, AlarmsTypeOK, AlarmState, Unacked

LEMMA AlarmsInductive == AlarmsInv /\ [AlarmsNext]_alarmVars => AlarmsInv'
<1> SUFFICES ASSUME AlarmsInv, [AlarmsNext]_alarmVars PROVE AlarmsInv'
  OBVIOUS
<1> USE DEF AlarmsInv, AlarmsTypeOK, AlarmState, Unacked
<1>1. ASSUME NEW condition \in BOOLEAN, SetAlarm(condition) PROVE AlarmsInv'
  BY <1>1 DEF SetAlarm, Set
<1>2. CASE AckAll
  BY <1>2 DEF AckAll
<1>3. CASE StoreAlarms
  BY <1>3 DEF StoreAlarms
<1>4. CASE RecallAlarms
  BY <1>4 DEF RecallAlarms
<1>5. CASE UNCHANGED alarmVars
  BY <1>5 DEF alarmVars
<1> QED
  BY <1>1, <1>2, <1>3, <1>4, <1>5 DEF AlarmsNext

(***************************************************************************)
(* No occurrence of an alarm is lost before somebody acknowledges it.      *)
(***************************************************************************)
THEOREM OccurrencesKept == AlarmsSpec => []OccurrencesStay
<1>1. AlarmsInv => OccurrencesStay
  BY DEF AlarmsInv, OccurrencesStay, Shown, Unacked
<1> QED
  BY <1>1, AlarmsStart, AlarmsInductive, PTL DEF AlarmsSpec

-----------------------------------------------------------------------------
(* Readings and faults: the first to sample in a scan fills the cache, and *)
(* whoever samples after that, in the scan or when the image is built      *)
(* again, is answered from it.                                             *)
Agree(d, u, readers) ==
    \A r \in readers : d \in Sampling[r] => u.seen[r] \in {u.cache, Unread}

OneReading(d, u) == Agree(d, u, Readers)

FaultsInv == FaultsTypeOK /\ (\A d \in Devices : OneReading(d, device[d])) /\ FaultsNeedLabMode

LEMMA ReadingsRead ==
    ASSUME NEW faults, NEW value \in Values
    PROVE  Readings(faults, value) \subseteq Reading \ {Unread}
  BY DEF Readings, Values, Reading, Wrong, Unread

(* Whoever looks sees what those saw who have looked before.               *)
LEMMA ReadAgrees ==
    ASSUME NEW d, NEW u \in DeviceState, NEW readers \in SUBSET Readers, Agree(d, u, readers),
           NEW reader \in Readers, NEW v \in Read(d, u, reader)
    PROVE  v \in DeviceState /\ v.faults = u.faults /\ Agree(d, v, readers \cup {reader})
<1>0. /\ u.cache \in Reading /\ u.value \in Values /\ u.value \in Reading
      /\ u.seen \in [Readers -> Reading]
  BY DEF DeviceState, Reading
<1>1. CASE d \in Sampling[reader]
  <2>1. PICK reading \in Sample(u) : v = [Given(u, reader, reading) EXCEPT !.cache = reading]
    BY <1>1 DEF Read
  <2>2. reading \in Reading \ {Unread} /\ (u.cache # Unread => reading = u.cache)
    BY <1>0, <2>1, ReadingsRead DEF Sample
  <2> DEFINE s == [u.seen EXCEPT ![reader] = reading]
  <2>3. /\ s \in [Readers -> Reading] /\ s[reader] = reading
        /\ \A r \in Readers \ {reader} : s[r] = u.seen[r]
    BY <1>0, <2>2
  <2>4. v = [[u EXCEPT !.seen = s] EXCEPT !.cache = reading]
    BY <2>1 DEF Given
  <2> HIDE DEF s
  <2>5. v \in DeviceState /\ v.faults = u.faults /\ v.seen = s /\ v.cache = reading
    BY <2>2, <2>3, <2>4 DEF DeviceState
  <2>6. ASSUME NEW r \in readers \cup {reader}, d \in Sampling[r]
        PROVE  s[r] \in {reading, Unread}
    BY <2>2, <2>3, <2>6 DEF Agree
  <2> QED
    BY <2>5, <2>6 DEF Agree
<1>2. CASE d \notin Sampling[reader]
  <2> DEFINE s == [u.seen EXCEPT ![reader] = u.value]
  <2>1. /\ s \in [Readers -> Reading]
        /\ \A r \in Readers \ {reader} : s[r] = u.seen[r]
    BY <1>0
  <2>2. v = [u EXCEPT !.seen = s]
    BY <1>2 DEF Read, Given
  <2> HIDE DEF s
  <2>3. v \in DeviceState /\ v.faults = u.faults /\ v.seen = s /\ v.cache = u.cache
    BY <2>1, <2>2 DEF DeviceState
  <2> QED
    BY <1>2, <2>1, <2>3 DEF Agree
<1> QED
  BY <1>1, <1>2

(* So the image may be built as often as the device likes.                 *)
LEMMA ImageAgrees ==
    ASSUME NEW d, NEW u \in DeviceState, OneReading(d, u), NEW v \in Read(d, u, "registers")
    PROVE  v \in DeviceState /\ v.faults = u.faults /\ OneReading(d, v)
<1>1. "registers" \in Readers
  BY DEF Readers
<1>2. Readers \cup {"registers"} = Readers /\ Readers \in SUBSET Readers
  BY <1>1
<1>3. Agree(d, u, Readers)
  BY DEF OneReading
<1>4. v \in DeviceState /\ v.faults = u.faults /\ Agree(d, v, Readers \cup {"registers"})
  BY <1>1, <1>2, <1>3, ReadAgrees
<1> QED
  BY <1>2, <1>4 DEF OneReading

(* A scan without a tick publishes nothing.                                *)
LEMMA SilentAgrees ==
    ASSUME NEW d, NEW u \in DeviceState, NEW readers \in SUBSET Readers, Agree(d, u, readers),
           NEW v, v = Given(u, "published", Unread)
    PROVE  v \in DeviceState /\ v.faults = u.faults /\ Agree(d, v, readers \cup {"published"})
<1> DEFINE s == [u.seen EXCEPT !["published"] = Unread]
<1>1. /\ s \in [Readers -> Reading] /\ s["published"] = Unread
      /\ \A r \in Readers \ {"published"} : s[r] = u.seen[r]
  BY DEF DeviceState, Readers, Reading
<1>2. v = [u EXCEPT !.seen = s]
  BY DEF Given
<1> HIDE DEF s
<1>3. v \in DeviceState /\ v.faults = u.faults /\ v.seen = s /\ v.cache = u.cache
  BY <1>1, <1>2 DEF DeviceState
<1> QED
  BY <1>1, <1>3 DEF Agree, Readers

(* Replacing one device by one that is well-typed, reads once and has no   *)
(* fault without LAB_MODE.                                                 *)
LEMMA OneDevice ==
    ASSUME FaultsInv, NEW d \in Devices, NEW u \in DeviceState, OneReading(d, u),
           d \notin LabDevices => u.faults = {},
           device' = [device EXCEPT ![d] = u]
    PROVE  FaultsInv'
<1>1. /\ device' \in [Devices -> DeviceState]
      /\ \A e \in Devices : device'[e] = IF e = d THEN u ELSE device[e]
  BY DEF FaultsInv, FaultsTypeOK
<1>2. \A e \in Devices : OneReading(e, device'[e])
  BY <1>1 DEF FaultsInv
<1>3. \A e \in Devices \ LabDevices : device'[e].faults = {}
  BY <1>1 DEF FaultsInv, FaultsNeedLabMode
<1>4. \A e \in Devices : OneReading(e, device[e])'
  BY <1>2 DEF OneReading, Agree
<1> QED
  BY <1>1, <1>3, <1>4 DEF FaultsInv, FaultsTypeOK, FaultsNeedLabMode

LEMMA FaultsStart == FaultsInit => FaultsInv
<1> SUFFICES ASSUME FaultsInit PROVE FaultsInv
  OBVIOUS
<1> DEFINE s == [r \in Readers |-> Unread]
           u == [faults |-> {}, value |-> 0, cache |-> Unread, seen |-> s, restored |-> FALSE]
<1>1. Unread \in Reading /\ 0 \in Values
  BY DEF Values, Reading
<1>2. s \in [Readers -> Reading] /\ \A r \in Readers : s[r] = Unread
  BY <1>1
<1>3. device = [d \in Devices |-> u]
  BY DEF FaultsInit
<1> HIDE DEF s
<1>4. u \in DeviceState /\ u.faults = {} /\ \A d \in Devices : OneReading(d, u)
  BY <1>1, <1>2 DEF DeviceState, OneReading, Agree
<1> HIDE DEF u
<1> QED
  BY <1>3, <1>4 DEF FaultsInv, FaultsTypeOK, FaultsNeedLabMode

LEMMA FaultsInductive == FaultsInv /\ [FaultsNext]_device => FaultsInv'
<1> SUFFICES ASSUME FaultsInv, [FaultsNext]_device PROVE FaultsInv'
  OBVIOUS
<1>0. ASSUME NEW d \in Devices
      PROVE  device[d] \in DeviceState /\ OneReading(d, device[d])
             /\ (d \notin LabDevices => device[d].faults = {})
  BY <1>0 DEF FaultsInv, FaultsTypeOK, FaultsNeedLabMode
<1>1. ASSUME NEW target, NEW payload \in Payload, NEW reached,
             InjectFault(target, payload, reached)
      PROVE  FaultsInv'
  <2>1. ASSUME NEW d \in Devices
        PROVE  /\ device'[d] \in DeviceState /\ OneReading(d, device'[d])
               /\ d \notin LabDevices => device'[d].faults = {}
    <3>1. Injected(d, device[d].faults, payload) \in SUBSET Categories
      <4>1. device[d].faults \in SUBSET Categories
        BY <1>0 DEF DeviceState
      <4>2. payload.action = "set" /\ payload.category # "unknown" => payload.category \in Categories
        BY DEF Payload
      <4> QED
        BY <4>1, <4>2 DEF Injected
    <3>2. d \notin LabDevices => Injected(d, device[d].faults, payload) = device[d].faults
      BY DEF Injected
    <3>3. device'[d] = device[d]
          \/ device'[d] = [device[d] EXCEPT !.faults = Injected(d, device[d].faults, payload)]
      BY <1>1 DEF InjectFault
    <3> QED
      BY <1>0, <3>1, <3>2, <3>3 DEF DeviceState, OneReading, Agree
  <2>2. device' = [d \in Devices |-> device'[d]]
    BY <1>1 DEF InjectFault
  <2>3. \A d \in Devices : OneReading(d, device[d])'
    BY <2>1 DEF OneReading, Agree
  <2> QED
    BY <2>1, <2>2, <2>3 DEF FaultsInv, FaultsTypeOK, FaultsNeedLabMode
<1>2. ASSUME NEW d \in Devices, NEW keepFaults \in BOOLEAN, RestoreDevice(d, keepFaults)
      PROVE  FaultsInv'
  <2> DEFINE faults == RestoredFaults(d, device[d].faults, keepFaults)
             u == [device[d] EXCEPT !.faults = faults, !.value = SavedValue, !.restored = ~@]
  <2>1. faults \in SUBSET Categories /\ (d \notin LabDevices => faults = {})
    BY <1>0, FaultsAssumption DEF RestoredFaults, DeviceState, FaultsAssumption
  <2>2. SavedValue \in Values
    BY FaultsAssumption DEF Values, FaultsAssumption
  <2>3. PICK v \in Read(d, u, "registers") : device' = [device EXCEPT ![d] = v]
    BY <1>2 DEF RestoreDevice
  <2> HIDE DEF faults
  <2>4. /\ u \in DeviceState /\ u.faults = faults
        /\ u.cache = device[d].cache /\ u.seen = device[d].seen
    BY <1>0, <2>1, <2>2 DEF DeviceState
  <2>5. OneReading(d, u)
    BY <1>0, <2>4 DEF OneReading, Agree
  <2> HIDE DEF u
  <2>6. v \in DeviceState /\ v.faults = faults /\ OneReading(d, v)
    BY <2>3, <2>4, <2>5, ImageAgrees
  <2> QED
    BY <2>1, <2>3, <2>6, OneDevice
<1>3. ASSUME NEW d \in Devices, RebuildImage(d) PROVE FaultsInv'
  <2>1. PICK v \in Read(d, device[d], "registers") : device' = [device EXCEPT ![d] = v]
    BY <1>3 DEF RebuildImage
  <2>2. v \in DeviceState /\ v.faults = device[d].faults /\ OneReading(d, v)
    BY <1>0, <2>1, ImageAgrees
  <2> QED
    BY <1>0, <2>1, <2>2, OneDevice
<1>4. ASSUME NEW d \in Devices, NEW value \in Values, NEW ticked \in BOOLEAN,
             ScanSensor(d, value, ticked)
      PROVE  FaultsInv'
  <2> DEFINE z == [device[d] EXCEPT !.value = value, !.cache = Unread]
  <2> DEFINE Last(v) == IF ticked THEN Read(d, v, "published") ELSE {Given(v, "published", Unread)}
  <2>a. PICK u \in Read(d, z, "protections") :
             \E v \in Read(d, u, "registers") : \E w \in Last(v) : device' = [device EXCEPT ![d] = w]
    BY <1>4 DEF ScanSensor
  <2>b. PICK v \in Read(d, u, "registers") : \E w \in Last(v) : device' = [device EXCEPT ![d] = w]
    BY <2>a
  <2>c. PICK w \in Last(v) : device' = [device EXCEPT ![d] = w]
    BY <2>b
  <2>1. /\ u \in Read(d, z, "protections") /\ v \in Read(d, u, "registers") /\ w \in Last(v)
        /\ device' = [device EXCEPT ![d] = w]
    BY <2>a, <2>b, <2>c
  <2>2. z \in DeviceState /\ z.faults = device[d].faults
    BY <1>0 DEF DeviceState, Reading
  <2> HIDE DEF z
  <2>3. Agree(d, z, {})
    BY DEF Agree
  <2>4. u \in DeviceState /\ u.faults = z.faults /\ Agree(d, u, {"protections"})
    <3>1. "protections" \in Readers /\ {} \cup {"protections"} = {"protections"}
      BY DEF Readers
    <3> QED
      BY <2>1, <2>2, <2>3, <3>1, ReadAgrees
  <2>5. v \in DeviceState /\ v.faults = z.faults /\ Agree(d, v, {"protections", "registers"})
    <3>1. /\ "registers" \in Readers /\ {"protections"} \in SUBSET Readers
          /\ {"protections"} \cup {"registers"} = {"protections", "registers"}
      BY DEF Readers
    <3> QED
      BY <2>1, <2>4, <3>1, ReadAgrees
  <2>6. w \in DeviceState /\ w.faults = z.faults /\ OneReading(d, w)
    <3>1. /\ "published" \in Readers /\ {"protections", "registers"} \in SUBSET Readers
          /\ {"protections", "registers"} \cup {"published"} = Readers
      BY DEF Readers
    <3>2. CASE ticked
      BY <2>1, <2>5, <3>1, <3>2, ReadAgrees DEF OneReading
    <3>3. CASE ~ticked
      BY <2>1, <2>5, <3>1, <3>3, SilentAgrees DEF OneReading
    <3> QED
      BY <3>2, <3>3
  <2> QED
    BY <1>0, <2>1, <2>2, <2>6, OneDevice
<1>5. CASE UNCHANGED device
  BY <1>5 DEF FaultsInv, FaultsTypeOK, FaultsNeedLabMode, OneReading, Agree
<1> QED
  BY <1>1, <1>2, <1>3, <1>4, <1>5 DEF FaultsNext

(***************************************************************************)
(* Whoever of protections, published value and register image goes by      *)
(* sensor_sample shows the same reading, whichever of them a device        *)
(* program lets go by it.                                                  *)
(***************************************************************************)
THEOREM ReadsOnce == FaultsSpec => []OneReadingPerScan
<1>1. FaultsInv => OneReadingPerScan
  BY DEF FaultsInv, OneReading, Agree, OneReadingPerScan
<1> QED
  BY <1>1, FaultsStart, FaultsInductive, PTL DEF FaultsSpec

(***************************************************************************)
(* No request and no restore gives a fault to a device without LAB_MODE.   *)
(***************************************************************************)
THEOREM OnlyLabDevicesFail == FaultsSpec => []FaultsNeedLabMode
<1>1. FaultsInv => FaultsNeedLabMode
  BY DEF FaultsInv
<1> QED
  BY <1>1, FaultsStart, FaultsInductive, PTL DEF FaultsSpec

-----------------------------------------------------------------------------
(* The age of a signal: unless it was lost in a restore, the tick it       *)
(* carries is as far behind the clock as its round is.                     *)
Even(tick, round, s) == s.tick >= 0 /\ ~s.lost => tick - s.tick = round - s.round

Answer == [tick : 0 .. MaxRound, round : 0 .. MaxRound, lost : BOOLEAN]

SignalsType ==
    /\ clock \in [tick : 0 .. MaxRound, round : 0 .. MaxRound] /\ clock.tick <= clock.round
    /\ table \in Signal /\ table.round <= clock.round
    /\ answers \in Seq(Answer)
    /\ \A n \in DOMAIN answers : answers[n].round <= clock.round
    /\ copy \in [tick : 0 .. MaxRound, age : 0 .. MaxRound + 1, signal : Signal]
    /\ copy.tick <= clock.round /\ copy.age <= clock.round + 1
    /\ sight \in [quality : Quality, lag : 0 .. MaxRound + 1, excused : BOOLEAN]

SignalsInv ==
    /\ SignalsType
    /\ Even(clock.tick, clock.round, table)
    /\ \A n \in DOMAIN answers : Even(clock.tick, clock.round, answers[n])
    /\ copy.signal.tick >= 0 /\ ~copy.signal.lost => copy.tick - copy.signal.tick = copy.age
    /\ GoodIsFresh

(* What a reader sees of an even signal is GOOD only when it is fresh.     *)
LEMMA ViewFresh ==
    ASSUME NEW c \in [tick : 0 .. MaxRound, round : 0 .. MaxRound], NEW s \in Signal,
           s.round <= c.round, Even(c.tick, c.round, s)
    PROVE  /\ View(c, s) \in [quality : Quality, lag : 0 .. MaxRound + 1, excused : BOOLEAN]
           /\ View(c, s).quality = "GOOD" /\ ~View(c, s).excused => View(c, s).lag <= 1
<1>1. /\ MaxRound \in Nat /\ c.tick \in 0 .. MaxRound /\ c.round \in 0 .. MaxRound
      /\ s.tick \in -1 .. MaxRound /\ s.round \in -1 .. MaxRound
      /\ s.forced \in BOOLEAN /\ s.lost \in BOOLEAN
  BY SignalsAssumption DEF Signal
<1>2. c.round - s.round \in 0 .. MaxRound + 1
  BY <1>1
<1>3. QualityFor(c.tick, s) \in Quality
  BY DEF QualityFor, Quality
<1>4. ASSUME QualityFor(c.tick, s) = "GOOD", ~s.forced, ~s.lost
      PROVE  c.round - s.round <= 1
  <2>1. s.tick >= 0 /\ c.tick - s.tick <= 1
    BY <1>1, <1>4 DEF QualityFor
  <2> QED
    BY <1>1, <1>4, <2>1 DEF Even
<1>5. (s.forced \/ s.lost) \in BOOLEAN
  OBVIOUS
<1>6. View(c, s) \in [quality : Quality, lag : 0 .. MaxRound + 1, excused : BOOLEAN]
  BY <1>2, <1>3, <1>5 DEF View
<1> QED
  BY <1>4, <1>6 DEF View

LEMMA SignalsStart == SignalsInit => SignalsInv
<1> SUFFICES ASSUME SignalsInit PROVE SignalsInv
  OBVIOUS
<1>1. MaxRound \in Nat
  BY SignalsAssumption
<1>2. NoSignal \in Signal /\ NoSignal.tick = -1 /\ NoSignal.round = -1
  BY <1>1 DEF NoSignal, Signal
<1>3. answers = <<>> /\ answers \in Seq(Answer) /\ DOMAIN answers = {}
  BY DEF SignalsInit
<1>4. SignalsType
  BY <1>1, <1>2, <1>3 DEF SignalsInit, SignalsType, Quality
<1> QED
  BY <1>2, <1>3, <1>4 DEF SignalsInit, SignalsInv, Even, GoodIsFresh

LEMMA BeginTickFresh ==
    ASSUME SignalsInv, NEW connected \in BOOLEAN, BeginTick(connected)
    PROVE  SignalsInv'
<1> DEFINE answer == [tick |-> clock'.tick, round |-> clock'.round, lost |-> FALSE]
<1>1. /\ MaxRound \in Nat /\ clock.tick \in 0 .. MaxRound /\ clock.round \in 0 .. MaxRound
      /\ clock.round < MaxRound /\ clock.tick <= clock.round
      /\ clock' = [tick |-> clock.tick + 1, round |-> clock.round + 1]
      /\ table' = table /\ copy' = copy /\ sight' = View(clock', table)
  BY SignalsAssumption DEF BeginTick, SignalsInv, SignalsType
<1>2. /\ clock' \in [tick : 0 .. MaxRound, round : 0 .. MaxRound] /\ clock'.tick <= clock'.round
      /\ clock'.round = clock.round + 1 /\ clock'.tick = clock.tick + 1
      /\ clock'.round \in 0 .. MaxRound /\ clock'.tick \in 0 .. MaxRound
  BY <1>1
<1>3. /\ table \in Signal /\ table.round \in -1 .. MaxRound /\ table.tick \in -1 .. MaxRound
      /\ table.round <= clock'.round
      /\ Even(clock'.tick, clock'.round, table)
  <2>1. table \in Signal /\ table.round <= clock.round /\ Even(clock.tick, clock.round, table)
    BY DEF SignalsInv, SignalsType, SignalsTypeOK
  <2>2. table.round \in -1 .. MaxRound /\ table.tick \in -1 .. MaxRound
    BY <2>1 DEF Signal
  <2>3. table.round <= clock'.round
    BY <1>1, <1>2, <2>1, <2>2
  <2>4. Even(clock'.tick, clock'.round, table)
    BY <1>1, <1>2, <2>1, <2>2 DEF Even
  <2> QED
    BY <2>1, <2>2, <2>3, <2>4
<1>4. ASSUME NEW a \in Answer, a.round <= clock.round, Even(clock.tick, clock.round, a)
      PROVE  a.round <= clock'.round /\ Even(clock'.tick, clock'.round, a)
  BY <1>1, <1>2, <1>4 DEF Answer, Even
<1>5. answer \in Answer /\ answer.round <= clock'.round /\ Even(clock'.tick, clock'.round, answer)
  BY <1>2 DEF Answer, Even
<1>6. answers \in Seq(Answer) /\ answers' \in {answers, Append(answers, answer)}
  BY DEF BeginTick, SignalsInv, SignalsType
<1> HIDE DEF answer
<1>7. /\ answers' \in Seq(Answer)
      /\ \A n \in DOMAIN answers' : answers'[n] = answer \/ (n \in DOMAIN answers /\ answers'[n] = answers[n])
  BY <1>5, <1>6
<1>8. \A n \in DOMAIN answers' : answers'[n].round <= clock'.round
                                 /\ Even(clock'.tick, clock'.round, answers'[n])
  <2> SUFFICES ASSUME NEW n \in DOMAIN answers'
               PROVE  answers'[n].round <= clock'.round /\ Even(clock'.tick, clock'.round, answers'[n])
    OBVIOUS
  <2>1. CASE answers'[n] = answer
    BY <1>5, <2>1
  <2>2. CASE n \in DOMAIN answers /\ answers'[n] = answers[n]
    <3>1. /\ answers[n] \in Answer /\ answers[n].round <= clock.round
          /\ Even(clock.tick, clock.round, answers[n])
      BY <1>6, <2>2 DEF SignalsInv, SignalsType
    <3> QED
      BY <1>4, <2>2, <3>1
  <2> QED
    BY <1>7, <2>1, <2>2
<1>9. copy'.tick <= clock'.round /\ copy'.age <= clock'.round + 1
  BY <1>1, <1>2 DEF SignalsInv, SignalsType
<1>10. /\ sight' \in [quality : Quality, lag : 0 .. MaxRound + 1, excused : BOOLEAN]
       /\ GoodIsFresh'
  BY <1>1, <1>2, <1>3, ViewFresh DEF GoodIsFresh
<1>11. SignalsType'
  BY <1>1, <1>2, <1>3, <1>7, <1>8, <1>9, <1>10 DEF SignalsType, SignalsInv
<1> QED
  BY <1>1, <1>3, <1>8, <1>10, <1>11 DEF SignalsInv

(* The actions that leave the clock alone keep what is on its way.         *)
LEMMA ClockStill ==
    ASSUME SignalsInv, clock' = clock, table' \in Signal, table'.round <= clock.round,
           Even(clock.tick, clock.round, table'),
           \/ answers' = answers
           \/ answers # <<>> /\ answers' = Tail(answers)
           \/ answers' = <<>>,
           copy' = copy, sight' = sight
    PROVE  SignalsInv'
<1>1. answers \in Seq(Answer)
  BY DEF SignalsInv, SignalsType
<1>2. /\ answers' \in Seq(Answer)
      /\ \A n \in DOMAIN answers' : \E m \in DOMAIN answers : answers'[n] = answers[m]
  <2>1. CASE answers' = answers
    BY <1>1, <2>1
  <2>2. CASE answers # <<>> /\ answers' = Tail(answers)
    <3>1. \A n \in DOMAIN Tail(answers) : n + 1 \in DOMAIN answers /\ Tail(answers)[n] = answers[n + 1]
      BY <1>1, <2>2
    <3> QED
      BY <1>1, <2>2, <3>1
  <2>3. CASE answers' = <<>>
    BY <2>3
  <2> QED
    BY <2>1, <2>2, <2>3
<1>3. SignalsType'
  BY <1>2 DEF SignalsInv, SignalsType
<1>4. \A n \in DOMAIN answers' : Even(clock'.tick, clock'.round, answers'[n])
  BY <1>2 DEF SignalsInv
<1>5. Even(clock'.tick, clock'.round, table')
  OBVIOUS
<1>6. GoodIsFresh'
  BY DEF SignalsInv, GoodIsFresh
<1>7. copy'.signal.tick >= 0 /\ ~copy'.signal.lost => copy'.tick - copy'.signal.tick = copy'.age
  BY DEF SignalsInv
<1> QED
  BY <1>3, <1>4, <1>5, <1>6, <1>7 DEF SignalsInv

LEMMA TickDoneFresh == SignalsInv /\ TickDone => SignalsInv'
<1> SUFFICES ASSUME SignalsInv, TickDone PROVE SignalsInv'
  OBVIOUS
<1> DEFINE a == Head(answers)
           s == [tick |-> a.tick, round |-> a.round, forced |-> FALSE, lost |-> a.lost]
<1>1. /\ answers # <<>> /\ answers \in Seq(Answer) /\ a = answers[1] /\ 1 \in DOMAIN answers
      /\ MaxRound \in Nat
  BY SignalsAssumption DEF TickDone, SignalsInv, SignalsType
<1>2. a \in Answer /\ a.round <= clock.round /\ Even(clock.tick, clock.round, a)
  BY <1>1 DEF SignalsInv, SignalsType
<1> HIDE DEF a
<1>3. s \in Signal /\ s.round <= clock.round /\ Even(clock.tick, clock.round, s)
  BY <1>1, <1>2 DEF Answer, Signal, Even
<1>4. /\ table' \in {table, s} /\ answers' = Tail(answers)
      /\ clock' = clock /\ copy' = copy /\ sight' = sight
  BY DEF TickDone, a
<1> HIDE DEF s
<1>5. /\ table \in Signal /\ table.round <= clock.round /\ Even(clock.tick, clock.round, table)
  BY DEF SignalsInv, SignalsType
<1> QED
  BY <1>1, <1>3, <1>4, <1>5, ClockStill

LEMMA ForcedFresh == SignalsInv /\ (ForceSignal \/ UnforceSignal \/ Disconnect) => SignalsInv'
<1> SUFFICES ASSUME SignalsInv, ForceSignal \/ UnforceSignal \/ Disconnect PROVE SignalsInv'
  OBVIOUS
<1>1. /\ MaxRound \in Nat /\ clock.tick \in 0 .. MaxRound /\ clock.round \in 0 .. MaxRound
      /\ table \in Signal /\ table.round <= clock.round /\ Even(clock.tick, clock.round, table)
  BY SignalsAssumption DEF SignalsInv, SignalsType
<1>2. CASE ForceSignal
  <2> DEFINE s == [tick |-> clock.tick, round |-> clock.round, forced |-> TRUE, lost |-> FALSE]
  <2>1. s \in Signal /\ s.round <= clock.round /\ Even(clock.tick, clock.round, s)
    BY <1>1 DEF Signal, Even
  <2>2. table' = s /\ answers' = answers /\ clock' = clock /\ copy' = copy /\ sight' = sight
    BY <1>2 DEF ForceSignal
  <2> HIDE DEF s
  <2> QED
    BY <2>1, <2>2, ClockStill
<1>3. CASE UnforceSignal
  <2> DEFINE s == [table EXCEPT !.forced = FALSE]
  <2>1. s \in Signal /\ s.round <= clock.round /\ Even(clock.tick, clock.round, s)
    BY <1>1 DEF Signal, Even
  <2>2. table' = s /\ answers' = answers /\ clock' = clock /\ copy' = copy /\ sight' = sight
    BY <1>3 DEF UnforceSignal
  <2> HIDE DEF s
  <2> QED
    BY <2>1, <2>2, ClockStill
<1>4. CASE Disconnect
  BY <1>1, <1>4, ClockStill DEF Disconnect
<1> QED
  BY <1>2, <1>3, <1>4

LEMMA ViewsFresh ==
    SignalsInv /\ (Broadcast \/ \E quality \in {"STALE", "BAD"} : ScanAlone(quality)) => SignalsInv'
<1>1. ASSUME SignalsInv, UNCHANGED <<clock, table, answers, copy>>,
             sight' \in [quality : Quality, lag : 0 .. MaxRound + 1, excused : BOOLEAN],
             GoodIsFresh'
      PROVE  SignalsInv'
  BY <1>1 DEF SignalsInv, SignalsType
<1>2. ASSUME SignalsInv, Broadcast PROVE SignalsInv'
  <2>1. /\ clock \in [tick : 0 .. MaxRound, round : 0 .. MaxRound] /\ table \in Signal
        /\ table.round <= clock.round /\ Even(clock.tick, clock.round, table)
    BY <1>2 DEF SignalsInv, SignalsType
  <2>2. sight' = View(clock, table) /\ UNCHANGED <<clock, table, answers, copy>>
    BY <1>2 DEF Broadcast
  <2>3. /\ sight' \in [quality : Quality, lag : 0 .. MaxRound + 1, excused : BOOLEAN]
        /\ GoodIsFresh'
    BY <2>1, <2>2, ViewFresh DEF GoodIsFresh
  <2> QED
    BY <1>1, <1>2, <2>2, <2>3
<1>3. ASSUME SignalsInv, NEW quality \in {"STALE", "BAD"}, ScanAlone(quality) PROVE SignalsInv'
  <2>1. sight' = [sight EXCEPT !.quality = quality] /\ UNCHANGED <<clock, table, answers, copy>>
    BY <1>3 DEF ScanAlone
  <2>2. /\ sight' \in [quality : Quality, lag : 0 .. MaxRound + 1, excused : BOOLEAN]
        /\ sight'.quality # "GOOD"
    BY <1>3, <2>1 DEF SignalsInv, SignalsType, Quality
  <2> QED
    BY <1>1, <1>3, <2>1, <2>2 DEF GoodIsFresh
<1> QED
  BY <1>2, <1>3

LEMMA TakeCopyFresh == SignalsInv /\ TakeCopy => SignalsInv'
<1> SUFFICES ASSUME SignalsInv, TakeCopy PROVE SignalsInv'
  OBVIOUS
<1>1. /\ MaxRound \in Nat /\ clock.tick \in 0 .. MaxRound /\ clock.round \in 0 .. MaxRound
      /\ clock.tick <= clock.round
      /\ table \in Signal /\ table.round \in -1 .. MaxRound /\ table.tick \in -1 .. MaxRound
      /\ table.round <= clock.round /\ Even(clock.tick, clock.round, table)
  BY SignalsAssumption DEF SignalsInv, SignalsType, Signal
<1>2. /\ copy' = [tick |-> clock.tick, age |-> clock.round - table.round, signal |-> table]
      /\ UNCHANGED <<clock, table, answers, sight>>
  BY DEF TakeCopy
<1>3. clock.round - table.round \in 0 .. MaxRound + 1 /\ clock.round - table.round <= clock.round + 1
  BY <1>1
<1>4. /\ copy' \in [tick : 0 .. MaxRound, age : 0 .. MaxRound + 1, signal : Signal]
      /\ copy'.tick <= clock'.round /\ copy'.age <= clock'.round + 1
  BY <1>1, <1>2, <1>3
<1>5. copy'.signal.tick >= 0 /\ ~copy'.signal.lost => copy'.tick - copy'.signal.tick = copy'.age
  BY <1>1, <1>2 DEF Even
<1> QED
  BY <1>2, <1>4, <1>5 DEF SignalsInv, SignalsType, GoodIsFresh

(* The answers under way count ticks of a time that is gone.               *)
LEMMA RestoreCopyFresh == SignalsInv /\ RestoreCopy => SignalsInv'
<1> SUFFICES ASSUME SignalsInv, RestoreCopy PROVE SignalsInv'
  OBVIOUS
<1> DEFINE s == [copy.signal EXCEPT !.round = clock.round - copy.age]
<1>1. /\ MaxRound \in Nat /\ clock \in [tick : 0 .. MaxRound, round : 0 .. MaxRound]
      /\ clock.round \in 0 .. MaxRound
      /\ copy.tick \in 0 .. MaxRound /\ copy.age \in 0 .. MaxRound + 1 /\ copy.signal \in Signal
      /\ copy.tick <= clock.round /\ copy.age <= clock.round + 1
      /\ copy.signal.tick \in -1 .. MaxRound
      /\ answers \in Seq(Answer)
  BY SignalsAssumption DEF SignalsInv, SignalsType, Signal
<1>2. /\ clock' = [clock EXCEPT !.tick = copy.tick] /\ table' = s
      /\ answers' = [n \in DOMAIN answers |-> [answers[n] EXCEPT !.lost = TRUE]]
      /\ copy' = copy /\ sight' = sight
  BY DEF RestoreCopy
<1>3. clock.round - copy.age \in -1 .. MaxRound /\ clock.round - copy.age <= clock.round
  BY <1>1
<1>4. /\ s \in Signal /\ s.round = clock.round - copy.age
      /\ s.tick = copy.signal.tick /\ s.lost = copy.signal.lost
  BY <1>1, <1>3 DEF Signal
<1>5. Even(copy.tick, clock.round, s)
  <2>1. ASSUME s.tick >= 0, ~s.lost PROVE copy.tick - s.tick = clock.round - s.round
    <3>1. copy.tick - copy.signal.tick = copy.age
      BY <1>4, <2>1 DEF SignalsInv
    <3> QED
      BY <1>1, <1>4, <3>1
  <2> QED
    BY <2>1 DEF Even
<1> HIDE DEF s
<1>6. /\ clock' \in [tick : 0 .. MaxRound, round : 0 .. MaxRound]
      /\ clock'.tick = copy.tick /\ clock'.round = clock.round
  BY <1>1, <1>2
<1>7. /\ answers' \in Seq(Answer)
      /\ \A n \in DOMAIN answers' : answers'[n].lost /\ answers'[n].round <= clock.round
  <2>1. \A n \in DOMAIN answers : /\ answers[n] \in Answer /\ answers[n].round <= clock.round
    BY <1>1 DEF SignalsInv, SignalsType
  <2>2. \A n \in DOMAIN answers : /\ [answers[n] EXCEPT !.lost = TRUE] \in Answer
                                  /\ [answers[n] EXCEPT !.lost = TRUE].lost
                                  /\ [answers[n] EXCEPT !.lost = TRUE].round = answers[n].round
    BY <2>1 DEF Answer
  <2>3. DOMAIN answers = 1 .. Len(answers) /\ Len(answers) \in Nat
    BY <1>1
  <2> DEFINE late(n) == [answers[n] EXCEPT !.lost = TRUE]
  <2>4. answers' = [n \in 1 .. Len(answers) |-> late(n)]
    BY <1>2, <2>3
  <2>5. \A n \in 1 .. Len(answers) :
          late(n) \in Answer /\ late(n).lost /\ late(n).round <= clock.round
    BY <2>1, <2>2, <2>3
  <2> HIDE DEF late
  <2>6. answers' \in [1 .. Len(answers) -> Answer] /\ DOMAIN answers' = 1 .. Len(answers)
    BY <2>4, <2>5
  <2>7. answers' \in Seq(Answer)
    BY <2>3, <2>6
  <2>8. \A n \in 1 .. Len(answers) : answers'[n] = late(n)
    BY <2>4
  <2> QED
    BY <2>5, <2>6, <2>7, <2>8
<1>8. SignalsType'
  BY <1>1, <1>2, <1>3, <1>4, <1>6, <1>7 DEF SignalsInv, SignalsType
<1>9. Even(clock'.tick, clock'.round, table')
  BY <1>2, <1>5, <1>6
<1>10. \A n \in DOMAIN answers' : Even(clock'.tick, clock'.round, answers'[n])
  BY <1>7 DEF Even
<1>11. copy'.signal.tick >= 0 /\ ~copy'.signal.lost => copy'.tick - copy'.signal.tick = copy'.age
  BY <1>2 DEF SignalsInv
<1>12. GoodIsFresh'
  BY <1>2 DEF SignalsInv, GoodIsFresh
<1> QED
  BY <1>8, <1>9, <1>10, <1>11, <1>12 DEF SignalsInv

LEMMA SignalsInductive == SignalsInv /\ [SignalsNext]_signalVars => SignalsInv'
<1> SUFFICES ASSUME SignalsInv, [SignalsNext]_signalVars PROVE SignalsInv'
  OBVIOUS
<1>1. CASE UNCHANGED signalVars
  BY <1>1 DEF signalVars, SignalsInv, SignalsType, GoodIsFresh
<1> QED
  BY <1>1, BeginTickFresh, TickDoneFresh, ForcedFresh, ViewsFresh, TakeCopyFresh, RestoreCopyFresh
  DEF SignalsNext

(***************************************************************************)
(* A value told to be GOOD is fresh, for every limit of age, however many  *)
(* answers are on their way and however often the plant is restored.       *)
(***************************************************************************)
THEOREM GoodValuesFresh == SignalsSpec => []GoodIsFresh
<1>1. SignalsInv => GoodIsFresh
  BY DEF SignalsInv
<1> QED
  BY <1>1, SignalsStart, SignalsInductive, PTL DEF SignalsSpec

-----------------------------------------------------------------------------
(***************************************************************************)
(* The watchdog of a gateway: how many counts of the counter, which comes  *)
(* round after Turn, lie between a value and the counter.                  *)
(***************************************************************************)
Since(n) == IF watch.counter >= n THEN watch.counter - n ELSE watch.counter - n + Turn

\* The echo is the counter of age ticks ago, as long as that is known.
EchoDated == watch.echo # 0 /\ watch.age < Turn => watch.echo = Before(watch.counter, watch.age)

\* The report is no older than the echo it is of ...
StaleSince ==
    /\ watch.last # 0 => watch.stale <= Since(watch.last)
    /\ watch.echo = 0 /\ watch.last = 0 => watch.stale <= watch.age

\* ... and begins at most one tick after the lag.
StaleSoon ==
    watch.age > Lag =>
        /\ watch.echo = watch.last
        /\ watch.age < Turn => watch.stale >= watch.age - Lag - 1

SupervisionInv ==
    SupervisionTypeOK /\ EchoDated /\ StaleSince /\ StaleSoon /\ LostTellsSilence

LEMMA TurnFacts ==
    /\ Turn \in Nat /\ StaleTicks \in Nat \ {0} /\ Lag \in Nat
    /\ Lag < StaleTicks /\ StaleTicks + Lag < Turn
BY SupervisionAssumption DEF SupervisionAssumption

LEMMA WatchFacts ==
    ASSUME SupervisionTypeOK
    PROVE  /\ watch.counter \in 1 .. Turn /\ watch.echo \in 0 .. Turn /\ watch.last \in 0 .. Turn
           /\ watch.stale \in 0 .. Turn /\ watch.lost \in BOOLEAN
           /\ watch.age \in 0 .. Turn /\ watch.silent \in 0 .. Turn
BY DEF SupervisionTypeOK, WatchState

LEMMA SupervisionStart == SupervisionInit => SupervisionInv
<1> SUFFICES ASSUME SupervisionInit PROVE SupervisionInv
  OBVIOUS
<1>1. SupervisionTypeOK
  BY TurnFacts DEF SupervisionInit, SupervisionTypeOK, WatchState
<1> QED
  BY <1>1, TurnFacts
     DEF SupervisionInit, SupervisionInv, EchoDated, StaleSince, StaleSoon, LostTellsSilence

LEMMA ExchangeWatched ==
    ASSUME SupervisionInv, NEW age \in 0 .. Lag, Exchange(age)
    PROVE  SupervisionInv'
<1>0. watch \in WatchState /\ SupervisionTypeOK
  BY DEF SupervisionInv, SupervisionTypeOK
<1> DEFINE echo == Before(watch.counter, age)
<1>1. echo \in 0 .. Turn /\ echo # 0 /\ age <= watch.age /\ age \in 0 .. Turn /\ age <= Lag
  BY <1>0, TurnFacts, WatchFacts DEF Before, Exchange
<1> HIDE DEF echo
<1>2. watch' = [watch EXCEPT !.echo = echo, !.age = age]
  BY DEF Exchange, echo
<1>3. /\ watch'.echo = echo /\ watch'.age = age /\ watch'.counter = watch.counter
      /\ watch'.last = watch.last /\ watch'.stale = watch.stale /\ watch'.lost = watch.lost
      /\ watch'.silent = watch.silent /\ watch' \in WatchState
  BY <1>0, <1>1, <1>2 DEF WatchState
<1>4. SupervisionTypeOK' /\ LostTellsSilence'
  BY <1>3 DEF SupervisionTypeOK, SupervisionInv, LostTellsSilence
<1>5. EchoDated'
  BY <1>3 DEF EchoDated, echo
<1>6. StaleSince' /\ StaleSoon'
  BY <1>1, <1>3, TurnFacts DEF SupervisionInv, StaleSince, StaleSoon, Since
<1> QED
  BY <1>4, <1>5, <1>6 DEF SupervisionInv

LEMMA RestartWatched == SupervisionInv /\ DeviceRestarts => SupervisionInv'
<1> SUFFICES ASSUME SupervisionInv, DeviceRestarts PROVE SupervisionInv'
  OBVIOUS
<1> USE TurnFacts
<1>0. watch \in WatchState /\ SupervisionTypeOK
  BY DEF SupervisionInv, SupervisionTypeOK
<1>1. watch.age > Lag /\ watch.echo # 0 /\ watch' = [watch EXCEPT !.echo = 0, !.age = Lag]
  BY DEF DeviceRestarts
<1>2. Lag \in 0 .. Turn /\ 0 \in 0 .. Turn
  OBVIOUS
<1>3. /\ watch'.echo = 0 /\ watch'.age = Lag /\ watch'.counter = watch.counter
      /\ watch'.last = watch.last /\ watch'.stale = watch.stale /\ watch'.lost = watch.lost
      /\ watch'.silent = watch.silent /\ watch' \in WatchState
  BY <1>0, <1>1, <1>2 DEF WatchState
<1>4. SupervisionTypeOK' /\ LostTellsSilence' /\ EchoDated'
  BY <1>3 DEF SupervisionTypeOK, SupervisionInv, LostTellsSilence, EchoDated
<1>5. watch.last # 0
  BY <1>1 DEF SupervisionInv, StaleSoon
<1>6. StaleSince' /\ StaleSoon'
  BY <1>3, <1>5 DEF SupervisionInv, StaleSince, StaleSoon, Since
<1> QED
  BY <1>4, <1>6 DEF SupervisionInv

LEMMA TickWatched == SupervisionInv /\ Tick => SupervisionInv'
<1> SUFFICES ASSUME SupervisionInv, Tick PROVE SupervisionInv'
  OBVIOUS
<1> USE TurnFacts
<1>0. /\ watch.counter \in 1 .. Turn /\ watch.echo \in 0 .. Turn /\ watch.last \in 0 .. Turn
      /\ watch.stale \in 0 .. Turn /\ watch.age \in 0 .. Turn
  BY WatchFacts DEF SupervisionInv
<1> DEFINE counter == After(watch.counter)
           stale   == IF Proven(counter) THEN 0 ELSE UpTo(watch.stale)
           last    == IF Proven(counter) THEN watch.echo ELSE watch.last
           age     == UpTo(watch.age)
<1>1. /\ counter \in 1 .. Turn
      /\ counter = IF watch.counter = Turn THEN 1 ELSE watch.counter + 1
  BY <1>0 DEF After
<1>2. age \in 0 .. Turn /\ age = IF watch.age = Turn THEN Turn ELSE watch.age + 1
  BY <1>0 DEF UpTo
<1>3. UpTo(watch.stale) \in 0 .. Turn
      /\ UpTo(watch.stale) = IF watch.stale = Turn THEN Turn ELSE watch.stale + 1
  BY <1>0 DEF UpTo
<1>4. /\ watch'.counter = counter /\ watch'.echo = watch.echo /\ watch'.last = last
      /\ watch'.stale = stale /\ watch'.lost = (stale >= StaleTicks)
      /\ watch'.age = age /\ watch'.silent = age
  BY DEF Tick
<1>5. Proven(counter) => last = watch.echo /\ stale = 0
  OBVIOUS
<1>6. ~Proven(counter) => last = watch.echo /\ last = watch.last /\ watch.echo # counter
                          /\ stale = UpTo(watch.stale)
  BY DEF Proven
<1>7. stale \in 0 .. Turn /\ last \in 0 .. Turn /\ (stale >= StaleTicks) \in BOOLEAN
  BY <1>0, <1>3
<1>15. SupervisionTypeOK'
  BY <1>0, <1>1, <1>2, <1>4, <1>7 DEF SupervisionTypeOK, WatchState, Tick
<1> HIDE DEF counter, stale, last, age
<1>8. last = watch.echo
  BY <1>5, <1>6
<1>9. EchoDated'
  BY <1>0, <1>1, <1>2, <1>4 DEF SupervisionInv, EchoDated, Before
<1>10. StaleSince'
  <2>1. CASE Proven(counter)
    BY <1>0, <1>1, <1>2, <1>4, <1>5, <2>1 DEF StaleSince, Since
  <2>2. CASE ~Proven(counter)
    <3>1. ASSUME watch.last # 0 PROVE stale <= Since(watch.last)'
      <4>1. watch.stale <= Since(watch.last) /\ watch.last # counter
        BY <1>6, <2>2, <3>1 DEF SupervisionInv, StaleSince
      <4>2. Since(watch.last)' = Since(watch.last) + 1
        <5>1. watch'.last = watch.last /\ watch'.counter = counter
          BY <1>4, <1>6, <2>2
        <5>2. watch.last \in 1 .. Turn
          BY <1>0, <3>1
        <5>3. Since(watch.last)' = IF counter >= watch.last THEN counter - watch.last
                                   ELSE counter - watch.last + Turn
          BY <5>1 DEF Since
        <5> QED
          BY <1>0, <1>1, <4>1, <5>2, <5>3 DEF Since
      <4>3. Since(watch.last) \in Nat /\ stale <= watch.stale + 1
        BY <1>0, <1>3, <1>6, <2>2 DEF Since
      <4> QED
        BY <1>0, <1>7, <4>1, <4>2, <4>3
    <3>2. ASSUME watch.echo = 0, watch.last = 0 PROVE stale <= age
      BY <1>0, <1>2, <1>3, <1>6, <2>2, <3>2 DEF SupervisionInv, StaleSince
    <3> QED
      BY <1>4, <1>6, <2>2, <3>1, <3>2 DEF StaleSince
  <2> QED
    BY <2>1, <2>2
<1>11. StaleSoon'
  <2>1. watch.age > Lag /\ watch.age + 1 < Turn => ~Proven(counter)
    BY <1>0, <1>1 DEF SupervisionInv, StaleSoon, EchoDated, Before, Proven
  <2> QED
    BY <1>0, <1>2, <1>3, <1>4, <1>5, <1>6, <1>8, <2>1 DEF SupervisionInv, StaleSoon
<1>12. stale >= StaleTicks => age >= StaleTicks
  <2>1. CASE Proven(counter)
    BY <1>5, <2>1
  <2>2. CASE ~Proven(counter)
    <3>1. CASE watch.echo = 0
      BY <1>0, <1>2, <1>4, <1>7, <1>8, <1>10, <3>1 DEF StaleSince
    <3>2. CASE watch.echo # 0 /\ age < Turn
      <4>1. stale <= Since(watch.last)' /\ watch.echo = Before(counter, age)
        BY <1>4, <1>8, <1>9, <1>10, <3>2 DEF StaleSince, EchoDated
      <4>2. Since(watch.last)' = age
        BY <1>1, <1>2, <1>4, <1>8, <3>2, <4>1 DEF Since, Before
      <4> QED
        BY <1>2, <1>7, <4>1, <4>2
    <3> QED
      BY <1>2, <3>1, <3>2
  <2> QED
    BY <2>1, <2>2
<1>13. age > StaleTicks + Lag /\ age < Turn => stale >= StaleTicks
  BY <1>2, <1>4, <1>7, <1>11 DEF StaleSoon
<1>14. LostTellsSilence'
  BY <1>4, <1>12, <1>13 DEF LostTellsSilence
<1> QED
  BY <1>9, <1>10, <1>11, <1>14, <1>15 DEF SupervisionInv

LEMMA SupervisionInductive == SupervisionInv /\ [SupervisionNext]_watch => SupervisionInv'
<1> SUFFICES ASSUME SupervisionInv, [SupervisionNext]_watch PROVE SupervisionInv'
  OBVIOUS
<1>1. CASE UNCHANGED watch
  BY <1>1 DEF SupervisionInv, SupervisionTypeOK, EchoDated, StaleSince, StaleSoon, Since, LostTellsSilence
<1> QED
  BY <1>1, TickWatched, RestartWatched, ExchangeWatched DEF SupervisionNext

(***************************************************************************)
(* comm_lost tells silence from lag, for every lag, threshold and counter: *)
(* an echo that is late but moves is never reported lost, and a silent     *)
(* device is reported until the counter comes round to it.                 *)
(***************************************************************************)
THEOREM SilenceTold == SupervisionSpec => []LostTellsSilence
<1>1. SupervisionInv => LostTellsSilence
  BY DEF SupervisionInv
<1> QED
  BY <1>1, SupervisionStart, SupervisionInductive, PTL DEF SupervisionSpec

-----------------------------------------------------------------------------
(***************************************************************************)
(* The writes of the resets, one call after the other and each call's in   *)
(* the order in which they are sent.                                       *)
(***************************************************************************)
Phase(write) ==
    CASE write = "RESET_KEY" -> 0 [] write = "COMMAND_SEQUENCE" -> 1
      [] write = "RESET_TRIP" -> 2 [] write = "idle" -> 3
Rank(attempt) == 3 * attempt.sequence + Phase(attempt.write)
Sent == 3 * master.sequence + Phase(master.doing)
Wires == 1 .. MaxConnections

\* The connections hold the writes in this order.
WiresType == wires \in [Wires -> Seq(Attempt)]

InOrder ==
    /\ \A c, e \in Wires : \A i \in DOMAIN wires[c], j \in DOMAIN wires[e] :
           c < e \/ (c = e /\ i <= j) => Rank(wires[c][i]) <= Rank(wires[e][j])
    /\ \A c \in Wires : \A i \in DOMAIN wires[c] : Rank(wires[c][i]) <= Sent
    /\ \A c \in Wires : c > master.connection => wires[c] = <<>>

\* Nothing that has not been overtaken comes before n.
Beyond(n) ==
    /\ Sent >= n
    /\ \A c \in Wires : c >= counts.newest =>
           \A i \in DOMAIN wires[c] : Rank(wires[c][i]) >= n

\* A sequence number is used once; the 0 of a new device takes the place of the first.
Sequenced ==
    /\ slave.sequence >= 1 => Beyond(3 * slave.sequence + 1)
    /\ slave.pulse \/ slave.last # -1 => Beyond(5)
    /\ slave.last <= slave.sequence
    /\ slave.last = -1 => counts.releases = 0
    /\ slave.last = 0 => counts.releases <= 1 /\ slave.sequence # 1
    /\ slave.last >= 1 => counts.releases <= slave.last

ReleasedTrips == counts.releases + (IF slave.tripped THEN 1 ELSE 0) <= counts.trips

ResetInv ==
    /\ ResetLinkTypeOK /\ WiresType /\ ReleasedTrips
    /\ counts.newest <= master.connection
    /\ master.doing # "idle" => master.sequence >= 1
    /\ InOrder
    /\ counts.overtaken \/ Sequenced

LEMMA ResetFacts ==
    /\ Retries \in Nat /\ MaxResets \in Nat /\ MaxTrips \in Nat /\ MaxConnections \in Nat \ {0}
    /\ Wires = 1 .. MaxConnections
BY ResetLinkAssumption DEF ResetLinkAssumption, Wires

LEMMA PhaseFacts ==
    /\ Phase("RESET_KEY") = 0 /\ Phase("COMMAND_SEQUENCE") = 1 /\ Phase("RESET_TRIP") = 2
    /\ Phase("idle") = 3
    /\ \A write \in Writes : Phase(write) \in 0 .. 2 /\ Phase(Following[write]) = Phase(write) + 1
                             /\ Following[write] \in Writes \cup {"idle"}
BY DEF Phase, Writes, Following

LEMMA MasterFacts ==
    ASSUME ResetLinkTypeOK
    PROVE  /\ master.doing \in Writes \cup {"idle"} /\ master.sequence \in 0 .. MaxResets
           /\ master.connection \in 1 .. MaxConnections
           /\ slave.sequence \in 0 .. MaxResets /\ slave.last \in -1 .. MaxResets
           /\ counts.newest \in 1 .. MaxConnections
           /\ counts.releases \in 0 .. MaxTrips /\ counts.trips \in 0 .. MaxTrips
           /\ Phase(master.doing) \in 0 .. 3 /\ Sent \in Nat
<1>1. /\ master.doing \in Writes \cup {"idle"} /\ master.sequence \in 0 .. MaxResets
      /\ master.connection \in 1 .. MaxConnections
      /\ slave.sequence \in 0 .. MaxResets /\ slave.last \in -1 .. MaxResets
      /\ counts.newest \in 1 .. MaxConnections
      /\ counts.releases \in 0 .. MaxTrips /\ counts.trips \in 0 .. MaxTrips
  BY DEF ResetLinkTypeOK
<1>2. Phase(master.doing) \in 0 .. 3
  BY <1>1, PhaseFacts
<1> QED
  BY <1>1, <1>2, ResetFacts DEF Sent

LEMMA RankFacts ==
    ASSUME NEW a \in Attempt
    PROVE  /\ a.write \in Writes /\ a.sequence \in 1 .. MaxResets /\ Phase(a.write) \in 0 .. 2
           /\ Rank(a) \in Nat /\ Rank(a) = 3 * a.sequence + Phase(a.write)
           /\ Rank(a) >= 3
<1>1. a.write \in Writes /\ a.sequence \in 1 .. MaxResets
  BY DEF Attempt
<1>2. Phase(a.write) \in 0 .. 2
  BY <1>1, PhaseFacts
<1> QED
  BY <1>1, <1>2, ResetFacts DEF Rank

LEMMA ResetLinkStart == ResetLinkInit => ResetInv
<1> SUFFICES ASSUME ResetLinkInit PROVE ResetInv
  OBVIOUS
<1>1. /\ master = [doing |-> "idle", sequence |-> 0, tries |-> 0, connection |-> 1, answered |-> FALSE]
      /\ wires = [c \in Wires |-> <<>>]
      /\ slave = [tripped |-> FALSE, key |-> FALSE, sequence |-> 0, pulse |-> FALSE, last |-> -1]
      /\ counts = [trips |-> 0, releases |-> 0, newest |-> 1, overtaken |-> FALSE]
  BY DEF ResetLinkInit, Wires
<1>2. ResetLinkTypeOK
  BY <1>1, ResetFacts DEF ResetLinkTypeOK, Wires
<1>3. WiresType /\ \A c \in Wires : DOMAIN wires[c] = {} /\ wires[c] = <<>>
  BY <1>1 DEF WiresType
<1>4. InOrder
  BY <1>3 DEF InOrder
<1>5. Sequenced /\ ReleasedTrips
  BY <1>1 DEF Sequenced, ReleasedTrips
<1>6. counts.newest <= master.connection /\ master.doing = "idle"
  BY <1>1
<1> QED
  BY <1>2, <1>3, <1>4, <1>5, <1>6 DEF ResetInv

\* A write that is sent is the last one, on the connection in use.
LEMMA SendInOrder ==
    ASSUME ResetInv, NEW c \in Wires, c >= master.connection, NEW a \in Attempt,
           wires' = [wires EXCEPT ![c] = Append(@, a)],
           master'.connection = c, Rank(a) = Sent', Sent' >= Sent, counts' = counts
    PROVE  WiresType' /\ InOrder' /\ \A n \in Nat : Beyond(n) => Beyond(n)'
<1>1. /\ wires \in [Wires -> Seq(Attempt)] /\ wires[c] \in Seq(Attempt) /\ Len(wires[c]) \in Nat
      /\ master.connection \in Wires
  <2>1. wires \in [Wires -> Seq(Attempt)]
    BY DEF ResetInv, WiresType
  <2>2. wires[c] \in Seq(Attempt)
    BY <2>1
  <2>3. master.connection \in Wires
    BY MasterFacts DEF ResetInv, Wires
  <2> QED
    BY <2>1, <2>2, <2>3
<1>2. wires'[c] = Append(wires[c], a) /\ \A e \in Wires : e # c => wires'[e] = wires[e]
  BY <1>1
<1>3. WiresType'
  BY <1>1 DEF WiresType
<1>4. ASSUME NEW e \in Wires, NEW j \in DOMAIN wires'[e]
      PROVE  \/ e = c /\ j = Len(wires[c]) + 1 /\ wires'[e][j] = a
             \/ e # c /\ j \in DOMAIN wires[e] /\ wires'[e][j] = wires[e][j]
             \/ e = c /\ j \in 1 .. Len(wires[c]) /\ j \in DOMAIN wires[e] /\ wires'[e][j] = wires[e][j]
  BY <1>1, <1>2, <1>4
<1>5. ASSUME NEW e \in Wires, NEW j \in DOMAIN wires[e]
      PROVE  wires[e][j] \in Attempt /\ Rank(wires[e][j]) \in Nat /\ Rank(wires[e][j]) <= Sent /\ e <= c
  <2>1. wires[e] \in Seq(Attempt) /\ wires[e] # <<>>
    BY <1>1, <1>5
  <2>2. wires[e][j] \in Attempt
    BY <1>5, <2>1
  <2>3. e <= c
    BY <1>1, <2>1, ResetFacts DEF ResetInv, InOrder, Wires
  <2> QED
    BY <1>5, <2>2, <2>3, RankFacts DEF ResetInv, InOrder
<1>6. Rank(a) \in Nat /\ Sent \in Nat /\ Sent' \in Nat
  BY RankFacts, MasterFacts DEF ResetInv
<1>7. ASSUME NEW d \in Wires, NEW e \in Wires, NEW i \in DOMAIN wires'[d], NEW j \in DOMAIN wires'[e],
             d < e \/ (d = e /\ i <= j)
      PROVE  Rank(wires'[d][i]) <= Rank(wires'[e][j])
  <2>1. CASE e = c /\ wires'[e][j] = a
    <3>1. wires'[d][i] = a \/ (i \in DOMAIN wires[d] /\ wires'[d][i] = wires[d][i])
      BY <1>4, <1>7
    <3> QED
      BY <1>5, <1>6, <2>1, <3>1
  <2>2. CASE j \in DOMAIN wires[e] /\ wires'[e][j] = wires[e][j] /\ e # c
    <3>1. e < c
      BY <1>5, <2>2, ResetFacts DEF Wires
    <3>2. d # c
      BY <1>7, <3>1, ResetFacts DEF Wires
    <3>3. i \in DOMAIN wires[d] /\ wires'[d][i] = wires[d][i]
      BY <1>4, <1>7, <3>2
    <3> QED
      BY <1>7, <2>2, <3>3 DEF ResetInv, InOrder
  <2>3. CASE e = c /\ j \in 1 .. Len(wires[c]) /\ j \in DOMAIN wires[e] /\ wires'[e][j] = wires[e][j]
    <3>1. ~(d = c /\ i = Len(wires[c]) + 1)
      BY <1>1, <1>7, <2>3, ResetFacts DEF Wires
    <3>2. i \in DOMAIN wires[d] /\ wires'[d][i] = wires[d][i]
      BY <1>4, <1>7, <3>1
    <3> QED
      BY <1>7, <2>3, <3>2 DEF ResetInv, InOrder
  <2> QED
    BY <1>4, <1>7, <2>1, <2>2, <2>3
<1>8. ASSUME NEW e \in Wires, NEW j \in DOMAIN wires'[e] PROVE Rank(wires'[e][j]) <= Sent'
  BY <1>4, <1>5, <1>6, <1>8
<1>9. ASSUME NEW e \in Wires, e > c PROVE wires'[e] = <<>>
  BY <1>1, <1>2, <1>9, ResetFacts DEF ResetInv, InOrder, Wires
<1>10. InOrder'
  BY <1>7, <1>8, <1>9 DEF InOrder
<1>11. ASSUME NEW n \in Nat, Beyond(n) PROVE Beyond(n)'
  <2>1. Sent' >= n
    BY <1>6, <1>11 DEF Beyond
  <2>2. ASSUME NEW e \in Wires, e >= counts.newest, NEW j \in DOMAIN wires'[e]
        PROVE  Rank(wires'[e][j]) >= n
    BY <1>4, <1>11, <2>1, <2>2 DEF Beyond
  <2> QED
    BY <2>1, <2>2 DEF Beyond
<1> QED
  BY <1>3, <1>10, <1>11

\* Nothing is sent or read, and the client goes on at most.
LEMMA QuietInOrder ==
    ASSUME ResetInv, wires' = wires, Sent' \in Nat, Sent' >= Sent, master'.connection \in Wires,
           master'.connection >= master.connection, counts'.newest = counts.newest
    PROVE  WiresType' /\ InOrder' /\ \A n \in Nat : Beyond(n) => Beyond(n)'
<1>1. /\ wires \in [Wires -> Seq(Attempt)] /\ master.connection \in Wires /\ Sent \in Nat
      /\ Wires \subseteq Nat
  <2>1. wires \in [Wires -> Seq(Attempt)]
    BY DEF ResetInv, WiresType
  <2>2. master.connection \in Wires /\ Sent \in Nat
    BY MasterFacts, ResetFacts DEF ResetInv
  <2> QED
    BY <2>1, <2>2, ResetFacts
<1>2. WiresType'
  BY <1>1 DEF WiresType
<1>3. ASSUME NEW e \in Wires, NEW j \in DOMAIN wires[e] PROVE Rank(wires[e][j]) <= Sent'
  <2>1. wires[e] \in Seq(Attempt) /\ Rank(wires[e][j]) <= Sent
    BY <1>1, <1>3 DEF ResetInv, InOrder
  <2>2. wires[e][j] \in Attempt
    BY <1>3, <2>1
  <2> QED
    BY <1>1, <2>1, <2>2, RankFacts
<1>4. ASSUME NEW e \in Wires, e > master'.connection PROVE wires[e] = <<>>
  <2>1. e > master.connection
    <3>1. e \in Nat /\ master.connection \in Nat /\ master'.connection \in Nat
      BY <1>1
    <3> QED
      BY <1>4, <3>1
  <2> QED
    BY <2>1 DEF ResetInv, InOrder
<1>5. InOrder'
  BY <1>3, <1>4 DEF ResetInv, InOrder
<1>6. ASSUME NEW n \in Nat, Beyond(n) PROVE Beyond(n)'
  BY <1>1, <1>6 DEF Beyond
<1> QED
  BY <1>2, <1>5, <1>6

\* What the device holds stays in sequence when nothing comes to it.
LEMMA SequencedStays ==
    ASSUME ResetInv, slave' = slave, counts' = counts, \A n \in Nat : Beyond(n) => Beyond(n)'
    PROVE  (counts.overtaken \/ Sequenced)' /\ ReleasedTrips'
<1>1. slave.sequence \in Nat /\ 3 * slave.sequence + 1 \in Nat
  BY MasterFacts, ResetFacts DEF ResetInv
<1>2. ReleasedTrips'
  BY DEF ResetInv, ReleasedTrips
<1>3. CASE counts.overtaken
  BY <1>2, <1>3
<1>4. CASE Sequenced
  <2>1. slave.sequence >= 1 => Beyond(3 * slave.sequence + 1)'
    BY <1>1, <1>4 DEF Sequenced
  <2>2. slave.pulse \/ slave.last # -1 => Beyond(5)'
    BY <1>4 DEF Sequenced
  <2> QED
    BY <1>2, <1>4, <2>1, <2>2 DEF Sequenced
<1> QED
  BY <1>3, <1>4 DEF ResetInv

LEMMA ResetTripKeeps == ResetInv /\ ResetTrip => ResetInv'
<1> SUFFICES ASSUME ResetInv, ResetTrip PROVE ResetInv'
  OBVIOUS
<1> PICK c \in Wires : c = master.connection
  BY MasterFacts DEF ResetInv, Wires
<1> DEFINE a == [write |-> "RESET_KEY", sequence |-> master.sequence + 1]
<1>1. /\ master.doing = "idle" /\ master.sequence < MaxResets /\ master.sequence \in Nat
      /\ master' = [master EXCEPT !.doing = "RESET_KEY", !.sequence = @ + 1, !.tries = 1]
      /\ wires' = [wires EXCEPT ![c] = Append(@, a)] /\ slave' = slave /\ counts' = counts
  BY MasterFacts DEF ResetInv, ResetTrip, Sending, Wires
<1>2. master' \in [doing : Writes \cup {"idle"}, sequence : 0 .. MaxResets, tries : 0 .. Retries + 1,
                   connection : 1 .. MaxConnections, answered : BOOLEAN]
  <2>1. master.sequence + 1 \in 0 .. MaxResets /\ 1 \in 0 .. Retries + 1 /\ "RESET_KEY" \in Writes
    BY <1>1, ResetFacts DEF Writes
  <2> QED
    BY <1>1, <2>1 DEF ResetInv, ResetLinkTypeOK
<1>3. master'.doing = "RESET_KEY" /\ master'.sequence = master.sequence + 1 /\ master'.connection = c
  BY <1>1 DEF ResetInv, ResetLinkTypeOK
<1>4. a \in Attempt
  BY <1>1, ResetFacts DEF Attempt, Writes
<1>5. Sent' = Sent /\ Rank(a) = Sent'
  <2>1. Sent' = 3 * (master.sequence + 1) + Phase("RESET_KEY")
    BY <1>3 DEF Sent
  <2>2. Sent = 3 * master.sequence + Phase("idle")
    BY <1>1 DEF Sent
  <2>3. Rank(a) = 3 * (master.sequence + 1) + Phase("RESET_KEY")
    BY DEF Rank
  <2> QED
    BY <1>1, <2>1, <2>2, <2>3, PhaseFacts
<1> HIDE DEF a
<1>6. Sent \in Nat /\ c >= master.connection
  BY MasterFacts, ResetFacts DEF ResetInv
<1>7. WiresType' /\ InOrder' /\ \A n \in Nat : Beyond(n) => Beyond(n)'
  <2>1. wires' = [wires EXCEPT ![c] = Append(@, a)] /\ counts' = counts
    BY <1>1
  <2>2. a \in Attempt
    BY <1>4
  <2>3. /\ c >= master.connection /\ master'.connection = c
        /\ Rank(a) = Sent' /\ Sent' >= Sent
    BY <1>1, <1>3, <1>5, <1>6
  <2> QED
    BY <2>1, <2>2, <2>3, SendInOrder
<1>8. (counts.overtaken \/ Sequenced)' /\ ReleasedTrips'
  BY <1>1, <1>7, SequencedStays
<1>9. ResetLinkTypeOK'
  BY <1>1, <1>2, <1>7 DEF ResetInv, ResetLinkTypeOK, WiresType, Wires
<1> QED
  BY <1>1, <1>3, <1>7, <1>8, <1>9, MasterFacts DEF ResetInv

LEMMA RetryKeeps == ResetInv /\ Retry => ResetInv'
<1> SUFFICES ASSUME ResetInv, Retry PROVE ResetInv'
  OBVIOUS
<1> PICK c \in Wires : c = master.connection
  BY MasterFacts DEF ResetInv, Wires
<1> DEFINE a == [write |-> master.doing, sequence |-> master.sequence]
<1>1. /\ master.doing # "idle" /\ master.tries \in 1 .. Retries
      /\ master' = [master EXCEPT !.tries = @ + 1]
      /\ wires' = [wires EXCEPT ![c] = Append(@, a)] /\ slave' = slave /\ counts' = counts
  BY MasterFacts DEF ResetInv, Retry, Sending, Wires
<1>2. master' \in [doing : Writes \cup {"idle"}, sequence : 0 .. MaxResets, tries : 0 .. Retries + 1,
                   connection : 1 .. MaxConnections, answered : BOOLEAN]
  <2>1. master.tries + 1 \in 0 .. Retries + 1
    BY <1>1, ResetFacts
  <2> QED
    BY <1>1, <2>1 DEF ResetInv, ResetLinkTypeOK
<1>3. master'.doing = master.doing /\ master'.sequence = master.sequence /\ master'.connection = c
  BY <1>1 DEF ResetInv, ResetLinkTypeOK
<1>4. master.doing \in Writes /\ master.sequence \in 1 .. MaxResets
  BY <1>1, MasterFacts, ResetFacts DEF ResetInv
<1>5. a \in Attempt
  BY <1>4 DEF Attempt
<1>6. Sent' = Sent /\ Rank(a) = Sent
  BY <1>3 DEF Sent, Rank
<1> HIDE DEF a
<1>7. Sent \in Nat /\ c >= master.connection
  BY MasterFacts, ResetFacts DEF ResetInv
<1>8. WiresType' /\ InOrder' /\ \A n \in Nat : Beyond(n) => Beyond(n)'
  <2>1. wires' = [wires EXCEPT ![c] = Append(@, a)] /\ counts' = counts
    BY <1>1
  <2>2. a \in Attempt
    BY <1>5
  <2>3. /\ c >= master.connection /\ master'.connection = c
        /\ Rank(a) = Sent' /\ Sent' >= Sent
    BY <1>1, <1>3, <1>6, <1>7
  <2> QED
    BY <2>1, <2>2, <2>3, SendInOrder
<1>9. (counts.overtaken \/ Sequenced)' /\ ReleasedTrips'
  BY <1>1, <1>8, SequencedStays
<1>10. ResetLinkTypeOK'
  BY <1>1, <1>2, <1>8 DEF ResetInv, ResetLinkTypeOK, WiresType, Wires
<1> QED
  BY <1>1, <1>3, <1>8, <1>9, <1>10 DEF ResetInv

\* The next write of the call, on the same connection or on a new one, or its end.
LEMMA GoOnKeeps ==
    ASSUME ResetInv, master.doing # "idle", NEW c \in Wires, c >= master.connection, GoOn(c)
    PROVE  ResetInv'
<1> DEFINE next == Following[master.doing]
           a == [write |-> next, sequence |-> master.sequence]
<1>1. /\ master' = [master EXCEPT !.doing = next, !.connection = c, !.answered = FALSE,
                                  !.tries = IF next = "idle" THEN 0 ELSE 1]
      /\ next = "idle" => wires' = wires
      /\ next # "idle" => wires' = [wires EXCEPT ![c] = Append(@, a)]
      /\ slave' = slave /\ counts' = counts
  BY DEF GoOn, Sending
<1>2. master.doing \in Writes /\ master.sequence \in 1 .. MaxResets
  BY MasterFacts, ResetFacts DEF ResetInv
<1>3. next \in Writes \cup {"idle"} /\ Phase(next) = Phase(master.doing) + 1
  BY <1>2, PhaseFacts
<1>4. master' \in [doing : Writes \cup {"idle"}, sequence : 0 .. MaxResets, tries : 0 .. Retries + 1,
                   connection : 1 .. MaxConnections, answered : BOOLEAN]
  <2>1. (IF next = "idle" THEN 0 ELSE 1) \in 0 .. Retries + 1
    BY ResetFacts
  <2> HIDE DEF next
  <2> QED
    BY <1>1, <1>3, <2>1 DEF ResetInv, ResetLinkTypeOK, Wires
<1>5. master'.doing = next /\ master'.sequence = master.sequence /\ master'.connection = c
  BY <1>1 DEF ResetInv, ResetLinkTypeOK
<1> HIDE DEF next
<1>6. Sent' = Sent + 1 /\ Sent \in Nat
  <2>1. Sent' = 3 * master.sequence + Phase(next)
    BY <1>5 DEF Sent
  <2>2. Sent = 3 * master.sequence + Phase(master.doing)
    BY DEF Sent
  <2> QED
    <3>1. Sent \in Nat /\ Phase(master.doing) \in 0 .. 3 /\ master.sequence \in Nat
      BY MasterFacts DEF ResetInv
    <3> QED
      BY <1>3, <2>1, <2>2, <3>1
<1>7. WiresType' /\ InOrder' /\ \A n \in Nat : Beyond(n) => Beyond(n)'
  <2>1. CASE next = "idle"
    <3>1. wires' = wires /\ Sent' \in Nat /\ Sent' >= Sent /\ counts'.newest = counts.newest
          /\ master'.connection \in Wires /\ master'.connection >= master.connection
      BY <1>1, <1>5, <1>6, <2>1
    <3> QED
      BY <3>1, QuietInOrder
  <2>2. CASE next # "idle"
    <3>1. a \in Attempt
      BY <1>2, <1>3, <2>2 DEF Attempt
    <3>2. Rank(a) = Sent'
      BY <1>5 DEF Rank, Sent
    <3>3. wires' = [wires EXCEPT ![c] = Append(@, a)] /\ master'.connection = c
          /\ Sent' >= Sent /\ counts' = counts
      BY <1>1, <1>5, <1>6, <2>2
    <3> HIDE DEF a
    <3> QED
      BY <3>1, <3>2, <3>3, SendInOrder
  <2> QED
    BY <2>1, <2>2
<1>8. (counts.overtaken \/ Sequenced)' /\ ReleasedTrips'
  BY <1>1, <1>7, SequencedStays
<1>9. ResetLinkTypeOK'
  BY <1>1, <1>4, <1>7 DEF ResetInv, ResetLinkTypeOK, WiresType, Wires
<1>10. (counts.newest <= master.connection)' /\ (master.doing # "idle" => master.sequence >= 1)'
  BY <1>1, <1>2, <1>5, MasterFacts, ResetFacts DEF ResetInv
<1> QED
  BY <1>7, <1>8, <1>9, <1>10 DEF ResetInv

\* The server takes the first write of connection c: what is left keeps its order.
LEMMA TakeInOrder ==
    ASSUME ResetInv, NEW c \in Wires, wires[c] # <<>>, NEW a \in Attempt, a = Head(wires[c]),
           wires' = [wires EXCEPT ![c] = Tail(@)],
           Sent' = Sent, master'.connection = master.connection,
           counts'.newest \in Wires, counts'.newest >= counts.newest
    PROVE  /\ WiresType' /\ InOrder' /\ Rank(a) <= Sent /\ c <= master.connection
           /\ \A n \in Nat : Beyond(n) => Beyond(n)'
           /\ counts'.newest >= c => \A n \in Nat : Rank(a) >= n => Beyond(n)'
           /\ c >= counts.newest => \A n \in Nat : Beyond(n) => Rank(a) >= n
<1>1. /\ wires \in [Wires -> Seq(Attempt)] /\ wires[c] \in Seq(Attempt) /\ Len(wires[c]) \in Nat
      /\ Len(wires[c]) # 0 /\ master.connection \in Wires /\ counts.newest \in Wires
      /\ Sent \in Nat /\ Wires \subseteq Nat
  <2>1. wires \in [Wires -> Seq(Attempt)]
    BY DEF ResetInv, WiresType
  <2>2. wires[c] \in Seq(Attempt)
    BY <2>1
  <2>3. master.connection \in Wires /\ counts.newest \in Wires /\ Sent \in Nat
    BY MasterFacts DEF ResetInv, Wires
  <2> QED
    BY <2>1, <2>2, <2>3, ResetFacts
<1>2. wires'[c] = Tail(wires[c]) /\ \A e \in Wires : e # c => wires'[e] = wires[e]
  BY <1>1
<1>3. WiresType'
  <2>1. Tail(wires[c]) \in Seq(Attempt)
    BY <1>1
  <2> QED
    BY <1>1, <2>1 DEF WiresType
<1>4. 1 \in DOMAIN wires[c] /\ wires[c][1] = a
  BY <1>1
<1>5. ASSUME NEW e \in Wires, NEW j \in DOMAIN wires'[e]
      PROVE  /\ e # c => j \in DOMAIN wires[e] /\ wires'[e][j] = wires[e][j]
             /\ e = c => j \in Nat /\ j >= 1 /\ j + 1 \in DOMAIN wires[c] /\ wires'[c][j] = wires[c][j + 1]
  <2>1. ASSUME e # c PROVE j \in DOMAIN wires[e] /\ wires'[e][j] = wires[e][j]
    BY <1>2, <1>5, <2>1
  <2>2. ASSUME e = c
        PROVE  j \in Nat /\ j >= 1 /\ j + 1 \in DOMAIN wires[c] /\ wires'[c][j] = wires[c][j + 1]
    <3>1. j \in DOMAIN Tail(wires[c])
      BY <1>2, <1>5, <2>2
    <3>2. j \in 1 .. Len(wires[c]) - 1 /\ Tail(wires[c])[j] = wires[c][j + 1]
      BY <1>1, <3>1
    <3> QED
      BY <1>1, <1>2, <3>2
  <2> QED
    BY <2>1, <2>2
<1>6. c <= master.connection
  <2>1. c \in Nat /\ master.connection \in Nat /\ ~(c > master.connection)
    BY <1>1 DEF ResetInv, InOrder
  <2> QED
    BY <2>1
<1>7. Rank(a) <= Sent /\ Rank(a) \in Nat
  BY <1>4, RankFacts DEF ResetInv, InOrder
<1>8. ASSUME NEW d \in Wires, NEW e \in Wires, NEW i \in DOMAIN wires'[d], NEW j \in DOMAIN wires'[e],
             d < e \/ (d = e /\ i <= j)
      PROVE  Rank(wires'[d][i]) <= Rank(wires'[e][j])
  <2>1. PICK k \in DOMAIN wires[d] : wires'[d][i] = wires[d][k] /\ k = (IF d = c THEN i + 1 ELSE i)
    BY <1>5, <1>8
  <2>2. PICK l \in DOMAIN wires[e] : wires'[e][j] = wires[e][l] /\ l = (IF e = c THEN j + 1 ELSE j)
    BY <1>5, <1>8
  <2>3. d = e => k <= l
    <3>1. ASSUME d = e, e = c PROVE k <= l
      <4>1. i \in Nat /\ j \in Nat /\ i <= j
        BY <1>1, <1>5, <1>8, <3>1
      <4> QED
        BY <2>1, <2>2, <3>1, <4>1
    <3>2. ASSUME d = e, e # c PROVE k <= l
      <4>1. i <= j
        BY <1>1, <1>8, <3>2
      <4> QED
        BY <2>1, <2>2, <3>2, <4>1
    <3> QED
      BY <3>1, <3>2
  <2>4. d < e \/ (d = e /\ k <= l)
    BY <1>8, <2>3
  <2> QED
    BY <2>1, <2>2, <2>4 DEF ResetInv, InOrder
<1>9. ASSUME NEW e \in Wires, NEW j \in DOMAIN wires'[e]
      PROVE  Rank(wires'[e][j]) <= Sent
  BY <1>5, <1>9 DEF ResetInv, InOrder
<1>10. ASSUME NEW e \in Wires, e > master.connection PROVE wires'[e] = <<>>
  BY <1>1, <1>2, <1>6, <1>10 DEF ResetInv, InOrder
<1>11. InOrder'
  BY <1>8, <1>9, <1>10 DEF InOrder
<1>12. ASSUME NEW n \in Nat, Beyond(n) PROVE Beyond(n)'
  <2>1. ASSUME NEW e \in Wires, e >= counts'.newest, NEW j \in DOMAIN wires'[e]
        PROVE  Rank(wires'[e][j]) >= n
    <3>1. e >= counts.newest
      <4>1. e \in Nat /\ counts.newest \in Nat /\ counts'.newest \in Nat
        BY <1>1
      <4> QED
        BY <2>1, <4>1
    <3> QED
      BY <1>5, <1>12, <2>1, <3>1 DEF Beyond
  <2> QED
    BY <1>12, <2>1 DEF Beyond
<1>13. ASSUME counts'.newest >= c, NEW n \in Nat, Rank(a) >= n PROVE Beyond(n)'
  <2>1. ASSUME NEW e \in Wires, e >= counts'.newest, NEW j \in DOMAIN wires'[e]
        PROVE  Rank(wires'[e][j]) >= n
    <3>1. PICK k \in DOMAIN wires[e] : wires'[e][j] = wires[e][k] /\ (e = c => k >= 1)
      <4>1. CASE e = c
        <5>1. j \in Nat /\ j + 1 \in DOMAIN wires[c] /\ wires'[c][j] = wires[c][j + 1] /\ j + 1 >= 1
          BY <1>5, <2>1, <4>1
        <5> QED
          BY <4>1, <5>1
      <4>2. CASE e # c
        BY <1>5, <2>1, <4>2
      <4> QED
        BY <4>1, <4>2
    <3>2. c < e \/ (c = e /\ 1 <= k)
      <4>1. e \in Nat /\ c \in Nat /\ counts'.newest \in Nat
        BY <1>1
      <4>2. e = c => 1 <= k
        <5>1. e = c => k \in Nat
          BY <1>1
        <5> QED
          BY <3>1, <5>1
      <4> QED
        BY <1>13, <2>1, <4>1, <4>2
    <3>3. Rank(wires[c][1]) <= Rank(wires[e][k])
      BY <1>4, <3>2 DEF ResetInv, InOrder
    <3>4. Rank(wires[e][k]) \in Nat
      <4>1. wires[e] \in Seq(Attempt)
        BY <1>1
      <4>2. wires[e][k] \in Attempt
        BY <3>1, <4>1
      <4> QED
        BY <4>2, RankFacts
    <3> QED
      BY <1>4, <1>7, <1>13, <3>1, <3>3, <3>4
  <2>2. Sent' >= n
    BY <1>1, <1>7, <1>13
  <2> QED
    BY <2>1, <2>2 DEF Beyond
<1>14. ASSUME c >= counts.newest, NEW n \in Nat, Beyond(n) PROVE Rank(a) >= n
  BY <1>4, <1>14 DEF Beyond
<1> QED
  BY <1>3, <1>6, <1>7, <1>11, <1>12, <1>13, <1>14

LEMMA ProcessKeeps ==
    ASSUME ResetInv, NEW c \in Wires, NEW outcome \in Outcomes, NEW answered \in BOOLEAN,
           Process(c, outcome, answered)
    PROVE  ResetInv'
<1>1. wires \in [Wires -> Seq(Attempt)]
  BY DEF ResetInv, WiresType
<1>2. wires[c] # <<>> /\ wires[c] \in Seq(Attempt)
  BY <1>1 DEF Process
<1> PICK a \in Attempt : a = Head(wires[c])
  BY <1>2
<1> DEFINE heard == outcome # "dropped" /\ answered /\ c = master.connection
                    /\ a.write = master.doing /\ a.sequence = master.sequence
<1>3. /\ slave' = IF outcome = "done" THEN Applied(a) ELSE slave
      /\ master' = [master EXCEPT !.answered = @ \/ heard]
      /\ wires' = [wires EXCEPT ![c] = Tail(@)]
      /\ outcome # "done" => counts' = counts
      /\ outcome = "done" => counts' = [counts EXCEPT !.overtaken = @ \/ c < counts.newest,
                                                      !.newest = Greater(@, c)]
  BY DEF Process
<1>4. master' \in [doing : Writes \cup {"idle"}, sequence : 0 .. MaxResets, tries : 0 .. Retries + 1,
                   connection : 1 .. MaxConnections, answered : BOOLEAN]
  <2>1. (master.answered \/ heard) \in BOOLEAN
    OBVIOUS
  <2> HIDE DEF heard
  <2> QED
    BY <1>3, <2>1 DEF ResetInv, ResetLinkTypeOK
<1>5. /\ master'.doing = master.doing /\ master'.sequence = master.sequence
      /\ master'.connection = master.connection
  <2> HIDE DEF heard
  <2> QED
    BY <1>3 DEF ResetInv, ResetLinkTypeOK
<1> HIDE DEF heard
<1>6. Sent' = Sent
  BY <1>5 DEF Sent
<1>7. /\ counts.newest \in Nat /\ c \in Nat /\ counts.newest \in Wires
      /\ counts \in [trips : 0 .. MaxTrips, releases : 0 .. MaxTrips,
                     newest : 1 .. MaxConnections, overtaken : BOOLEAN]
  BY MasterFacts, ResetFacts DEF ResetInv, ResetLinkTypeOK
<1>8. /\ counts'.newest \in Wires /\ counts'.newest >= counts.newest
      /\ counts'.newest = counts.newest \/ counts'.newest = c
      /\ counts'.trips = counts.trips /\ counts'.releases = counts.releases
      /\ counts' \in [trips : 0 .. MaxTrips, releases : 0 .. MaxTrips,
                      newest : 1 .. MaxConnections, overtaken : BOOLEAN]
  <2>1. CASE outcome # "done"
    BY <1>3, <1>7, <2>1
  <2>2. CASE outcome = "done"
    <3>1. /\ Greater(counts.newest, c) \in Wires /\ Greater(counts.newest, c) >= counts.newest
          /\ Greater(counts.newest, c) \in {counts.newest, c}
      BY <1>7 DEF Greater
    <3>2. (counts.overtaken \/ c < counts.newest) \in BOOLEAN
      OBVIOUS
    <3>3. counts' = [counts EXCEPT !.overtaken = @ \/ c < counts.newest, !.newest = Greater(@, c)]
      BY <1>3, <2>2
    <3>4. /\ counts'.newest = Greater(counts.newest, c)
          /\ counts'.trips = counts.trips /\ counts'.releases = counts.releases
      BY <1>7, <3>3
    <3>5. counts' \in [trips : 0 .. MaxTrips, releases : 0 .. MaxTrips,
                       newest : 1 .. MaxConnections, overtaken : BOOLEAN]
      BY <1>7, <3>1, <3>2, <3>3, ResetFacts
    <3> QED
      BY <3>1, <3>4, <3>5
  <2> QED
    BY <2>1, <2>2
<1>9. /\ WiresType' /\ InOrder' /\ Rank(a) <= Sent /\ c <= master.connection
      /\ \A n \in Nat : Beyond(n) => Beyond(n)'
      /\ counts'.newest >= c => \A n \in Nat : Rank(a) >= n => Beyond(n)'
      /\ c >= counts.newest => \A n \in Nat : Beyond(n) => Rank(a) >= n
  BY <1>2, <1>3, <1>5, <1>6, <1>8, TakeInOrder
<1>10. /\ a.write \in Writes /\ a.sequence \in 1 .. MaxResets /\ Rank(a) \in Nat
       /\ Rank(a) = 3 * a.sequence + Phase(a.write)
  BY RankFacts
<1>11. /\ slave \in [tripped : BOOLEAN, key : BOOLEAN, sequence : 0 .. MaxResets,
                     pulse : BOOLEAN, last : -1 .. MaxResets]
       /\ slave' \in {slave, Applied(a)}
  BY <1>3 DEF ResetInv, ResetLinkTypeOK
<1>12. /\ a.write = "RESET_KEY" => Applied(a) = [slave EXCEPT !.key = TRUE]
       /\ a.write = "COMMAND_SEQUENCE" => Applied(a) = [slave EXCEPT !.sequence = a.sequence]
       /\ a.write = "RESET_TRIP" => Applied(a) = [slave EXCEPT !.pulse = TRUE]
  BY DEF Applied
<1>13. /\ slave' \in [tripped : BOOLEAN, key : BOOLEAN, sequence : 0 .. MaxResets,
                      pulse : BOOLEAN, last : -1 .. MaxResets]
       /\ slave'.tripped = slave.tripped /\ slave'.last = slave.last
  <2>1. a.sequence \in 0 .. MaxResets
    BY <1>10
  <2>2. CASE slave' = slave
    BY <1>11, <2>2
  <2>3. CASE slave' = Applied(a) /\ a.write = "RESET_KEY"
    <3>1. slave' = [slave EXCEPT !.key = TRUE]
      BY <1>12, <2>3
    <3> QED
      BY <1>11, <3>1
  <2>4. CASE slave' = Applied(a) /\ a.write = "COMMAND_SEQUENCE"
    <3>1. slave' = [slave EXCEPT !.sequence = a.sequence]
      BY <1>12, <2>4
    <3> QED
      BY <1>11, <2>1, <3>1
  <2>5. CASE slave' = Applied(a) /\ a.write = "RESET_TRIP"
    <3>1. slave' = [slave EXCEPT !.pulse = TRUE]
      BY <1>12, <2>5
    <3> QED
      BY <1>11, <3>1
  <2> QED
    BY <1>10, <1>11, <2>2, <2>3, <2>4, <2>5 DEF Writes
<1>14. ReleasedTrips'
  BY <1>8, <1>13 DEF ResetInv, ReleasedTrips
<1>15. ResetLinkTypeOK'
  <2>1. \A e \in 1 .. MaxConnections : wires'[e] \in Seq(Attempt)
    BY <1>9 DEF WiresType, Wires
  <2> QED
    BY <1>4, <1>8, <1>13, <2>1 DEF ResetLinkTypeOK
<1>16. (counts.newest <= master.connection)' /\ (master.doing # "idle" => master.sequence >= 1)'
  BY <1>5, <1>8, <1>9 DEF ResetInv
<1>17. (counts.overtaken \/ Sequenced)'
  <2>1. CASE counts.overtaken
    <3>1. outcome = "done" => counts'.overtaken = (counts.overtaken \/ c < counts.newest)
      BY <1>3, <1>7
    <3>2. counts'.overtaken
      BY <1>3, <2>1, <3>1
    <3> QED
      BY <3>2
  <2>2. CASE outcome # "done"
    BY <1>3, <1>9, <2>2, SequencedStays
  <2>3. CASE ~counts.overtaken /\ outcome = "done"
    <3>1. counts'.overtaken = (counts.overtaken \/ c < counts.newest)
      BY <1>3, <1>7, <2>3
    <3>2. CASE c < counts.newest
      BY <3>1, <3>2
    <3>3. CASE ~(c < counts.newest)
      <4>1. c >= counts.newest /\ counts'.newest = Greater(counts.newest, c)
        <5>1. counts' = [counts EXCEPT !.overtaken = @ \/ c < counts.newest, !.newest = Greater(@, c)]
          BY <1>3, <2>3
        <5>2. counts'.newest = Greater(counts.newest, c)
          BY <1>7, <5>1
        <5> QED
          BY <1>7, <3>3, <5>2
      <4>2. counts'.newest >= c
        BY <1>7, <4>1 DEF Greater
      <4>3. /\ \A n \in Nat : Rank(a) >= n => Beyond(n)'
            /\ \A n \in Nat : Beyond(n) => Rank(a) >= n
        BY <1>9, <4>1, <4>2
      <4>4. Sequenced
        BY <2>3 DEF ResetInv
      <4>5. /\ slave.sequence \in Nat /\ slave.last \in Int /\ counts.releases \in Nat
            /\ 3 * slave.sequence + 1 \in Nat
        BY <1>7, <1>11
      <4>6. slave' = Applied(a)
        BY <1>3, <2>3
      <4> PICK k \in Nat : k = 3 * slave.sequence + 1
        BY <4>5
      <4>7. ASSUME slave.sequence >= 1 PROVE Beyond(k)' /\ Rank(a) >= k
        <5>1. Beyond(k)
          BY <4>4, <4>7 DEF Sequenced
        <5> QED
          BY <1>9, <4>3, <5>1
      <4>8. slave.pulse \/ slave.last # -1 => Beyond(5)' /\ Rank(a) >= 5
        BY <1>9, <4>3, <4>4 DEF Sequenced
      <4>9. CASE a.write = "RESET_KEY"
        <5>1. slave'.sequence = slave.sequence /\ slave'.pulse = slave.pulse
          BY <1>11, <1>12, <4>6, <4>9
        <5>2. slave'.sequence >= 1 => Beyond(3 * slave.sequence + 1)'
          BY <4>5, <4>7, <5>1
        <5> QED
          BY <1>8, <1>13, <4>4, <4>8, <5>1, <5>2 DEF Sequenced
      <4>10. CASE a.write = "COMMAND_SEQUENCE"
        <5>1. slave'.sequence = a.sequence /\ slave'.pulse = slave.pulse
          BY <1>11, <1>12, <4>6, <4>10
        <5>2. Rank(a) = 3 * a.sequence + 1
          BY <1>10, <4>10, PhaseFacts
        <5>3. PICK n \in Nat : n = 3 * a.sequence + 1 /\ Beyond(n)'
          BY <1>10, <4>3, <5>2
        <5>4. slave.last <= a.sequence
          BY <1>10, <4>4, <4>5, <4>7, <5>2 DEF Sequenced
        <5>5. slave.last # -1 => a.sequence # 1
          BY <1>10, <4>8, <5>2
        <5>6. Beyond(3 * slave.sequence + 1)'
          BY <5>1, <5>3
        <5> QED
          BY <1>8, <1>13, <4>4, <4>8, <5>1, <5>4, <5>5, <5>6 DEF Sequenced
      <4>11. CASE a.write = "RESET_TRIP"
        <5>1. slave'.sequence = slave.sequence
          BY <1>11, <1>12, <4>6, <4>11
        <5>2. Rank(a) >= 5
          BY <1>10, <4>11, PhaseFacts
        <5>3. Beyond(5)'
          BY <4>3, <5>2
        <5>4. slave'.sequence >= 1 => Beyond(3 * slave.sequence + 1)'
          BY <4>5, <4>7, <5>1
        <5> QED
          BY <1>8, <1>13, <4>4, <5>1, <5>3, <5>4 DEF Sequenced
      <4> QED
        BY <1>10, <4>9, <4>10, <4>11 DEF Writes
    <3> QED
      BY <3>2, <3>3
  <2> QED
    BY <2>1, <2>2, <2>3
<1> QED
  BY <1>9, <1>14, <1>15, <1>16, <1>17 DEF ResetInv

\* A step of the device alone.
LEMMA DeviceKeeps ==
    ASSUME ResetInv, UNCHANGED <<master, wires>>, counts'.newest = counts.newest
    PROVE  /\ WiresType' /\ InOrder' /\ \A n \in Nat : Beyond(n) => Beyond(n)'
           /\ (counts.newest <= master.connection)'
           /\ (master.doing # "idle" => master.sequence >= 1)'
<1>1. Sent' = Sent /\ Sent \in Nat /\ master'.connection = master.connection
      /\ master.connection \in Wires /\ Wires \subseteq Nat
  BY MasterFacts, ResetFacts DEF Sent, ResetInv, Wires
<1>2. Sent' >= Sent /\ master'.connection >= master.connection
  <2>1. master.connection \in Nat
    BY <1>1
  <2> QED
    BY <1>1, <2>1
<1>3. WiresType' /\ InOrder' /\ \A n \in Nat : Beyond(n) => Beyond(n)'
  BY <1>1, <1>2, QuietInOrder
<1> QED
  BY <1>3 DEF ResetInv

LEMMA TripDeviceKeeps == ResetInv /\ TripDevice => ResetInv'
<1> SUFFICES ASSUME ResetInv, TripDevice PROVE ResetInv'
  OBVIOUS
<1>1. /\ ~slave.tripped /\ counts.trips < MaxTrips
      /\ slave' = [slave EXCEPT !.tripped = TRUE]
      /\ counts' = [counts EXCEPT !.trips = @ + 1]
      /\ master' = master /\ wires' = wires
  BY DEF TripDevice
<1>2. /\ slave \in [tripped : BOOLEAN, key : BOOLEAN, sequence : 0 .. MaxResets,
                    pulse : BOOLEAN, last : -1 .. MaxResets]
      /\ counts \in [trips : 0 .. MaxTrips, releases : 0 .. MaxTrips,
                     newest : 1 .. MaxConnections, overtaken : BOOLEAN]
  BY DEF ResetInv, ResetLinkTypeOK
<1>3. /\ slave'.tripped /\ slave'.sequence = slave.sequence /\ slave'.pulse = slave.pulse
      /\ slave'.last = slave.last
      /\ slave' \in [tripped : BOOLEAN, key : BOOLEAN, sequence : 0 .. MaxResets,
                     pulse : BOOLEAN, last : -1 .. MaxResets]
  BY <1>1, <1>2
<1>4. /\ counts'.trips = counts.trips + 1 /\ counts'.releases = counts.releases
      /\ counts'.newest = counts.newest /\ counts'.overtaken = counts.overtaken
  BY <1>1, <1>2
<1>5. counts' \in [trips : 0 .. MaxTrips, releases : 0 .. MaxTrips,
                   newest : 1 .. MaxConnections, overtaken : BOOLEAN]
  <2>1. counts.trips + 1 \in 0 .. MaxTrips
    BY <1>1, <1>2, ResetFacts
  <2> QED
    BY <1>1, <1>2, <2>1
<1>6. /\ WiresType' /\ InOrder' /\ \A n \in Nat : Beyond(n) => Beyond(n)'
      /\ (counts.newest <= master.connection)' /\ (master.doing # "idle" => master.sequence >= 1)'
  BY <1>1, <1>4, DeviceKeeps
<1>7. ResetLinkTypeOK'
  BY <1>1, <1>3, <1>5 DEF ResetInv, ResetLinkTypeOK
<1>8. ReleasedTrips'
  <2>1. counts.releases <= counts.trips /\ counts.releases \in Nat /\ counts.trips \in Nat
    BY <1>1, <1>2, ResetFacts DEF ResetInv, ReleasedTrips
  <2>2. counts'.releases + 1 <= counts'.trips
    BY <1>4, <2>1
  <2> QED
    BY <1>3, <2>2 DEF ReleasedTrips
<1>9. (counts.overtaken \/ Sequenced)'
  <2>1. CASE counts.overtaken
    BY <1>4, <2>1
  <2>2. CASE Sequenced
    <3>1. PICK n \in Nat : n = 3 * slave.sequence + 1
      BY <1>2, ResetFacts
    <3>2. slave'.sequence >= 1 => Beyond(3 * slave.sequence + 1)'
      BY <1>3, <1>6, <2>2, <3>1 DEF Sequenced
    <3> QED
      BY <1>3, <1>4, <1>6, <2>2, <3>2 DEF Sequenced
  <2> QED
    BY <2>1, <2>2 DEF ResetInv
<1> QED
  BY <1>6, <1>7, <1>8, <1>9 DEF ResetInv

LEMMA ScanResetKeeps ==
    ASSUME ResetInv, NEW safe \in BOOLEAN, ScanReset(safe)
    PROVE  ResetInv'
<1>1. /\ slave.pulse /\ master' = master /\ wires' = wires
      /\ counts' = [counts EXCEPT !.releases = @ + IF slave.tripped /\ Resettable(safe) THEN 1 ELSE 0]
      /\ Resettable(safe) =>
            slave' = [slave EXCEPT !.pulse = FALSE, !.last = slave.sequence, !.tripped = FALSE]
      /\ ~Resettable(safe) => slave' = [slave EXCEPT !.pulse = FALSE]
  BY DEF ScanReset
<1>2. /\ slave \in [tripped : BOOLEAN, key : BOOLEAN, sequence : 0 .. MaxResets,
                    pulse : BOOLEAN, last : -1 .. MaxResets]
      /\ counts \in [trips : 0 .. MaxTrips, releases : 0 .. MaxTrips,
                     newest : 1 .. MaxConnections, overtaken : BOOLEAN]
      /\ slave.sequence \in Nat /\ slave.last \in Int /\ counts.releases \in Nat
  BY MasterFacts DEF ResetInv, ResetLinkTypeOK
<1>3. Resettable(safe) => slave.sequence # slave.last
  BY DEF Resettable
<1>4. slave'.sequence = slave.sequence /\ ~slave'.pulse
  BY <1>1, <1>2
<1>5. \/ Resettable(safe) /\ slave.tripped /\ counts' = [counts EXCEPT !.releases = @ + 1]
      \/ Resettable(safe) /\ ~slave.tripped /\ counts' = counts
      \/ ~Resettable(safe) /\ counts' = counts
  <2>1. CASE Resettable(safe) /\ slave.tripped
    BY <1>1, <2>1
  <2>2. CASE ~(Resettable(safe) /\ slave.tripped)
    <3>1. counts' = [counts EXCEPT !.releases = @ + 0]
      BY <1>1, <2>2
    <3>2. counts' = counts
      BY <1>2, <3>1
    <3> QED
      BY <2>2, <3>2
  <2> QED
    BY <2>1, <2>2
<1>6. /\ Resettable(safe) => slave'.last = slave.sequence /\ ~slave'.tripped
      /\ ~Resettable(safe) => slave'.last = slave.last /\ slave'.tripped = slave.tripped
  BY <1>1, <1>2
<1>7. slave' \in [tripped : BOOLEAN, key : BOOLEAN, sequence : 0 .. MaxResets,
                  pulse : BOOLEAN, last : -1 .. MaxResets]
  <2>1. slave.sequence \in -1 .. MaxResets
    BY <1>2, ResetFacts
  <2> QED
    BY <1>1, <1>2, <2>1
<1>8. /\ counts'.trips = counts.trips /\ counts'.newest = counts.newest
      /\ counts'.overtaken = counts.overtaken
      /\ counts'.releases = counts.releases \/ counts'.releases = counts.releases + 1
      /\ ~Resettable(safe) => counts'.releases = counts.releases
  BY <1>2, <1>5
<1>9. ReleasedTrips'
  <2>1. counts.releases + (IF slave.tripped THEN 1 ELSE 0) <= counts.trips
        /\ counts.trips \in Nat
    BY <1>2, ResetFacts DEF ResetInv, ReleasedTrips
  <2>2. CASE Resettable(safe) /\ slave.tripped
    <3>1. counts'.releases = counts.releases + 1 /\ ~slave'.tripped
      BY <1>2, <1>5, <1>6, <2>2
    <3>2. counts.releases + 1 <= counts.trips
      BY <2>1, <2>2
    <3> QED
      BY <1>2, <1>8, <2>1, <3>1, <3>2 DEF ReleasedTrips
  <2>3. CASE ~(Resettable(safe) /\ slave.tripped)
    <3>1. counts' = counts /\ (slave'.tripped => slave.tripped)
      BY <1>5, <1>6, <2>3
    <3>2. counts.releases <= counts.trips
      BY <1>2, <2>1
    <3>3. CASE slave'.tripped
      <4>1. counts.releases + 1 <= counts.trips
        BY <2>1, <3>1, <3>3
      <4> QED
        BY <3>1, <3>3, <4>1 DEF ReleasedTrips
    <3>4. CASE ~slave'.tripped
      BY <1>2, <2>1, <3>1, <3>2, <3>4 DEF ReleasedTrips
    <3> QED
      BY <3>3, <3>4
  <2> QED
    BY <2>2, <2>3
<1>10. counts' \in [trips : 0 .. MaxTrips, releases : 0 .. MaxTrips,
                    newest : 1 .. MaxConnections, overtaken : BOOLEAN]
  <2>1. counts'.releases \in 0 .. MaxTrips
    <3>1. counts'.releases \in Nat /\ counts.trips \in 0 .. MaxTrips /\ counts'.trips = counts.trips
      BY <1>2, <1>8
    <3>2. counts'.releases <= counts'.trips
      <4>1. CASE slave'.tripped
        <5>1. counts'.releases + 1 <= counts'.trips
          BY <1>9, <4>1 DEF ReleasedTrips
        <5> QED
          BY <3>1, <5>1, ResetFacts
      <4>2. CASE ~slave'.tripped
        <5>1. counts'.releases + 0 <= counts'.trips
          BY <1>9, <4>2 DEF ReleasedTrips
        <5> QED
          BY <3>1, <5>1
      <4> QED
        BY <4>1, <4>2
    <3> QED
      BY <3>1, <3>2, ResetFacts
  <2>2. CASE counts' = counts
    BY <1>2, <2>2
  <2>3. CASE counts' = [counts EXCEPT !.releases = @ + 1]
    <3>1. counts'.releases = counts.releases + 1
      BY <1>2, <2>3
    <3> QED
      BY <1>2, <2>1, <2>3, <3>1
  <2> QED
    BY <1>5, <2>2, <2>3
<1>11. /\ WiresType' /\ InOrder' /\ \A n \in Nat : Beyond(n) => Beyond(n)'
       /\ (counts.newest <= master.connection)' /\ (master.doing # "idle" => master.sequence >= 1)'
  BY <1>1, <1>8, DeviceKeeps
<1>12. ResetLinkTypeOK'
  BY <1>1, <1>7, <1>10 DEF ResetInv, ResetLinkTypeOK
<1>13. (counts.overtaken \/ Sequenced)'
  <2>1. CASE counts.overtaken
    BY <1>8, <2>1
  <2>2. CASE Sequenced
    <3>1. PICK n \in Nat : n = 3 * slave.sequence + 1
      BY <1>2
    <3>2. slave'.sequence >= 1 => Beyond(3 * slave.sequence + 1)'
      BY <1>4, <1>11, <2>2, <3>1 DEF Sequenced
    <3>3. Beyond(5)'
      BY <1>1, <1>11, <2>2 DEF Sequenced
    <3>4. /\ slave.last <= slave.sequence /\ slave.last >= -1
          /\ slave.last = -1 => counts.releases = 0
          /\ slave.last = 0 => counts.releases <= 1 /\ slave.sequence # 1
          /\ slave.last >= 1 => counts.releases <= slave.last
      BY <1>2, <2>2 DEF Sequenced
    <3>5. CASE Resettable(safe)
      <4>1. slave'.last = slave.sequence /\ slave.sequence # slave.last
            /\ slave'.sequence = slave.sequence
        BY <1>3, <1>4, <1>6, <3>5
      <4>2. /\ slave'.last <= slave'.sequence
            /\ slave'.last = -1 => counts'.releases = 0
            /\ slave'.last = 0 => counts'.releases <= 1 /\ slave'.sequence # 1
            /\ slave'.last >= 1 => counts'.releases <= slave'.last
        BY <1>2, <1>8, <3>4, <4>1
      <4> QED
        BY <3>2, <3>3, <4>2 DEF Sequenced
    <3>6. CASE ~Resettable(safe)
      <4>1. slave'.last = slave.last /\ slave'.sequence = slave.sequence
            /\ counts'.releases = counts.releases
        BY <1>4, <1>6, <1>8, <3>6
      <4> QED
        BY <3>2, <3>3, <3>4, <4>1 DEF Sequenced
    <3> QED
      BY <3>5, <3>6
  <2> QED
    BY <2>1, <2>2 DEF ResetInv
<1> QED
  BY <1>9, <1>11, <1>12, <1>13 DEF ResetInv

LEMMA ResetLinkInductive == ResetInv /\ [ResetLinkNext]_resetVars => ResetInv'
<1> SUFFICES ASSUME ResetInv, [ResetLinkNext]_resetVars PROVE ResetInv'
  OBVIOUS
<1>1. master.connection \in Nat /\ Wires = 1 .. MaxConnections
      /\ master.connection \in 1 .. MaxConnections /\ MaxConnections \in Nat
  BY MasterFacts, ResetFacts DEF ResetInv
<1>2. CASE ResetTrip
  BY <1>2, ResetTripKeeps
<1>3. CASE Retry
  BY <1>3, RetryKeeps
<1>4. CASE Answered
  <2>1. PICK c \in Wires : c = master.connection
    BY <1>1
  <2>2. c >= master.connection /\ GoOn(c) /\ master.doing # "idle"
    BY <1>1, <1>4, <2>1 DEF Answered
  <2> QED
    BY <2>2, GoOnKeeps
<1>5. CASE GiveUp
  <2>1. master.connection + 1 \in Wires
    BY <1>1, <1>5 DEF GiveUp
  <2>2. PICK c \in Wires : c = master.connection + 1
    BY <2>1
  <2>3. c >= master.connection /\ GoOn(c) /\ master.doing # "idle"
    BY <1>1, <1>5, <2>2 DEF GiveUp
  <2> QED
    BY <2>3, GoOnKeeps
<1>6. CASE \E c \in 1 .. MaxConnections, outcome \in Outcomes, answered \in BOOLEAN :
               Process(c, outcome, answered)
  BY <1>1, <1>6, ProcessKeeps
<1>7. CASE TripDevice
  BY <1>7, TripDeviceKeeps
<1>8. CASE \E safe \in BOOLEAN : ScanReset(safe)
  BY <1>8, ScanResetKeeps
<1>9. CASE UNCHANGED resetVars
  <2>1. UNCHANGED <<master, wires, slave, counts>>
    BY <1>9 DEF resetVars
  <2>2. counts'.newest = counts.newest
    BY <2>1
  <2>3. /\ WiresType' /\ InOrder' /\ \A n \in Nat : Beyond(n) => Beyond(n)'
        /\ (counts.newest <= master.connection)' /\ (master.doing # "idle" => master.sequence >= 1)'
    BY <2>1, <2>2, DeviceKeeps
  <2>4. (counts.overtaken \/ Sequenced)' /\ ReleasedTrips'
    BY <2>1, <2>3, SequencedStays
  <2>5. ResetLinkTypeOK'
    BY <2>1 DEF ResetInv, ResetLinkTypeOK
  <2> QED
    BY <2>3, <2>4, <2>5 DEF ResetInv
<1> QED
  BY <1>2, <1>3, <1>4, <1>5, <1>6, <1>7, <1>8, <1>9 DEF ResetLinkNext

LEMMA SequencedReleases == ResetInv => OneReleasePerRequest
<1> SUFFICES ASSUME ResetInv, ~counts.overtaken PROVE counts.releases <= master.sequence
  BY DEF OneReleasePerRequest
<1>1. Sequenced
  BY DEF ResetInv
<1>2. /\ master.sequence \in Nat /\ slave.sequence \in Nat /\ slave.last \in -1 .. MaxResets
      /\ counts.releases \in Nat
  BY MasterFacts, ResetFacts DEF ResetInv
<1>3. Sent <= 3 * master.sequence + 3
  <2>1. Phase(master.doing) \in 0 .. 3
    BY MasterFacts DEF ResetInv
  <2> QED
    BY <1>2, <2>1 DEF Sent
<1>4. CASE slave.last = -1
  BY <1>1, <1>2, <1>4 DEF Sequenced
<1>5. CASE slave.last = 0
  <2>1. Sent >= 5 /\ counts.releases <= 1
    BY <1>1, <1>5 DEF Sequenced, Beyond
  <2>2. Sent \in Nat
    BY MasterFacts DEF ResetInv
  <2> QED
    BY <1>2, <1>3, <2>1, <2>2
<1>6. CASE slave.last >= 1
  <2>1. counts.releases <= slave.last /\ slave.last <= slave.sequence
    BY <1>1, <1>6 DEF Sequenced
  <2>2. Sent >= 3 * slave.sequence + 1
    BY <1>1, <1>2, <1>6, <2>1 DEF Sequenced, Beyond
  <2>3. Sent \in Nat
    BY MasterFacts DEF ResetInv
  <2> QED
    BY <1>2, <1>3, <2>1, <2>2, <2>3
<1> QED
  BY <1>2, <1>4, <1>5, <1>6

(***************************************************************************)
(* However often the writes of reset_trip are lost, repeated or answered   *)
(* late, a call releases at most one trip, unless a write of a closed      *)
(* connection came after those of a newer one (_handle_reset compares the  *)
(* sequence number with the last one only).                                *)
(***************************************************************************)
THEOREM OneRelease == ResetLinkSpec => []OneReleasePerRequest
<1>1. ResetLinkInit => ResetInv
  BY ResetLinkStart
<1>2. ResetInv /\ [ResetLinkNext]_resetVars => ResetInv'
  BY ResetLinkInductive
<1>3. ResetInv => OneReleasePerRequest
  BY SequencedReleases
<1> QED
  BY <1>1, <1>2, <1>3, PTL DEF ResetLinkSpec

-----------------------------------------------------------------------------
(***************************************************************************)
(* The pulse of a gateway: the slots that remain until the coils are       *)
(* written.  What the device has got of a pulse it has had since it last   *)
(* scanned at the latest, so a write cycle that passes before the next     *)
(* write passes without a scan.                                            *)
(***************************************************************************)
Due(g) ==
    IF g.at["coils"] >= g.slot THEN g.at["coils"] - g.slot ELSE g.at["coils"] - g.slot + Period

Waits(g) == g.devCoil /\ g.idle + Due(g) >= Period

PulseInv(g) ==
    /\ g \in GatewayState
    /\ g.active => g.coil /\ g.scans \in 1 .. PulseScans - 1
    /\ ~g.active => g.scans = 0
    /\ g.coil /\ ~g.active => g.sequence < MaxPulses
    /\ g.idle = Period => g.late
    \* Written after a write cycle at most, and waiting ever since.
    /\ ~g.seen /\ ~g.late /\ (g.active => Due(g) + g.scans >= Period) => Waits(g)

LEMMA GatewayFacts ==
    /\ Period \in Nat \ {0} /\ MaxPulses \in Nat /\ PulseScans \in Nat
    /\ PulseScans > Period /\ PulseScans >= 2
BY GatewayAssumption DEF GatewayAssumption

\* What a slot does after the program leaves the program alone.
Same(h, g) ==
    /\ h \in GatewayState /\ h.slot = g.slot /\ h.at = g.at /\ h.coil = g.coil
    /\ h.active = g.active /\ h.scans = g.scans /\ h.sequence = g.sequence /\ h.late = g.late

LEMMA WrittenFacts ==
    ASSUME NEW g \in GatewayState, NEW groups \in SUBSET Groups
    PROVE  /\ Same(Written(g, groups), g)
           /\ Written(g, groups).seen = g.seen /\ Written(g, groups).idle = g.idle
           /\ Written(g, groups).devCoil =
                  IF "coils" \in groups /\ g.at["coils"] = g.slot THEN g.coil ELSE g.devCoil
<1> DEFINE now == {group \in groups : g.at[group] = g.slot}
           coil == IF "coils" \in now THEN g.coil ELSE g.devCoil
           key == IF "registers" \in now THEN g.key ELSE g.devKey
           sequence == IF "registers" \in now THEN g.sequence ELSE g.devSequence
<1>1. Written(g, groups) = [g EXCEPT !.devCoil = coil, !.devKey = key, !.devSequence = sequence]
  BY DEF Written
<1>2. coil \in BOOLEAN /\ key \in BOOLEAN /\ sequence \in 0 .. MaxPulses
  BY DEF GatewayState
<1>3. coil = IF "coils" \in groups /\ g.at["coils"] = g.slot THEN g.coil ELSE g.devCoil
  OBVIOUS
<1> HIDE DEF coil, key, sequence
<1> QED
  BY <1>1, <1>2, <1>3 DEF Same, GatewayState

LEMMA DeviceScanFacts ==
    ASSUME NEW g \in GatewayState
    PROVE  /\ Same(DeviceScan(g), g)
           /\ (DeviceScan(g).seen <=> g.seen \/ g.devCoil)
           /\ ~DeviceScan(g).devCoil /\ DeviceScan(g).idle = 0
<1> DEFINE used == IF g.devCoil /\ g.devKey /\ g.devSequence # g.used THEN g.devSequence ELSE g.used
           seen == g.seen \/ g.devCoil
<1>1. DeviceScan(g) = [g EXCEPT !.devCoil = FALSE, !.seen = seen, !.idle = 0, !.used = used]
  BY DEF DeviceScan
<1>2. used \in 0 .. MaxPulses /\ seen \in BOOLEAN /\ 0 \in 0 .. Period
  BY GatewayFacts DEF GatewayState
<1> HIDE DEF used
<1> QED
  BY <1>1, <1>2 DEF Same, GatewayState

\* All of a slot after the program: no scan, or one with the coils written before or after it.
Rest(g, scanned, before) ==
    LET m == Written(g, before)
    IN  Written(IF scanned THEN DeviceScan(m) ELSE m, Groups \ before)

LEMMA SlotFacts ==
    ASSUME NEW g \in GatewayState, NEW scanned \in BOOLEAN, NEW before \in SUBSET Groups,
           NEW h, h = Rest(g, scanned, before)
    PROVE  /\ Same(h, g)
           /\ g.seen => h.seen
           /\ h.idle = IF scanned THEN 0 ELSE g.idle
           /\ ~h.seen /\ g.at["coils"] = g.slot => h.devCoil = g.coil \/ ~g.coil
           /\ ~h.seen /\ g.at["coils"] # g.slot /\ g.devCoil => ~scanned /\ h.devCoil
<1> DEFINE due == g.at["coils"] = g.slot
           m == Written(g, before)
           s == IF scanned THEN DeviceScan(m) ELSE m
<1>0. h = Written(s, Groups \ before)
  BY DEF Rest
<1>1. /\ Same(m, g) /\ m.seen = g.seen /\ m.idle = g.idle
      /\ m.devCoil = IF "coils" \in before /\ due THEN g.coil ELSE g.devCoil
  BY WrittenFacts
<1>2. /\ Same(s, m)
      /\ scanned => (s.seen <=> m.seen \/ m.devCoil) /\ ~s.devCoil /\ s.idle = 0
      /\ ~scanned => s.seen = m.seen /\ s.devCoil = m.devCoil /\ s.idle = m.idle
  <2>1. m \in GatewayState
    BY <1>1 DEF Same
  <2>2. CASE scanned
    BY <2>1, <2>2, DeviceScanFacts
  <2>3. CASE ~scanned
    BY <2>1, <2>3 DEF Same
  <2> QED
    BY <2>2, <2>3
<1>3. /\ Same(h, s) /\ h.seen = s.seen /\ h.idle = s.idle
      /\ h.devCoil = IF "coils" \notin before /\ s.at["coils"] = s.slot THEN s.coil ELSE s.devCoil
  <2>1. s \in GatewayState /\ Groups \ before \in SUBSET Groups
    BY <1>2 DEF Same
  <2>2. "coils" \in Groups
    BY DEF Groups
  <2> QED
    BY <1>0, <2>1, <2>2, WrittenFacts
<1> HIDE DEF m, s
<1>4. /\ Same(h, g)
      /\ h.devCoil = IF "coils" \notin before /\ due THEN g.coil ELSE s.devCoil
  BY <1>1, <1>2, <1>3 DEF Same
<1>5. /\ g.seen \in BOOLEAN /\ g.devCoil \in BOOLEAN /\ g.coil \in BOOLEAN
      /\ m.seen \in BOOLEAN /\ m.devCoil \in BOOLEAN
      /\ s.seen \in BOOLEAN /\ s.devCoil \in BOOLEAN /\ h.seen \in BOOLEAN /\ h.devCoil \in BOOLEAN
  BY <1>1, <1>2, <1>3 DEF Same, GatewayState
<1> HIDE DEF due
<1>6. CASE scanned
  <2>1. ~h.seen => ~g.seen /\ ~m.devCoil
    BY <1>1, <1>2, <1>3, <1>5, <1>6
  <2>2. ~h.seen /\ due => h.devCoil = g.coil \/ ~g.coil
    BY <1>1, <1>4, <1>5, <2>1
  <2>3. ~h.seen /\ ~due => ~g.devCoil
    BY <1>1, <1>5, <2>1
  <2> QED
    BY <1>2, <1>3, <1>4, <1>5, <1>6, <2>1, <2>2, <2>3 DEF due
<1>7. CASE ~scanned
  <2>1. h.seen = g.seen /\ h.idle = g.idle
    BY <1>1, <1>2, <1>3, <1>7
  <2>2. due => h.devCoil = g.coil
    BY <1>1, <1>2, <1>4, <1>7
  <2>3. ~due => h.devCoil = g.devCoil
    BY <1>1, <1>2, <1>4, <1>7
  <2> QED
    BY <1>4, <1>7, <2>1, <2>2, <2>3 DEF due
<1> QED
  BY <1>6, <1>7

\* The next slot comes round.
LEMMA DueFacts ==
    ASSUME NEW g \in GatewayState
    PROVE  /\ Due(g) \in 0 .. Period - 1 /\ (Due(g) = 0 <=> g.at["coils"] = g.slot)
           /\ (g.slot + 1) % Period \in 0 .. Period - 1
           /\ \A n \in GatewayState : n.at = g.at /\ n.slot = (g.slot + 1) % Period =>
                  Due(n) = IF Due(g) = 0 THEN Period - 1 ELSE Due(g) - 1
<1>1. g.at["coils"] \in 0 .. Period - 1 /\ g.slot \in 0 .. Period - 1
  BY DEF GatewayState, Groups
<1>2. (g.slot + 1) % Period = IF g.slot + 1 = Period THEN 0 ELSE g.slot + 1
  BY <1>1, GatewayFacts
<1>3. ASSUME NEW n \in GatewayState, n.at = g.at, n.slot = (g.slot + 1) % Period
      PROVE  Due(n) = IF Due(g) = 0 THEN Period - 1 ELSE Due(g) - 1
  <2>1. n.at["coils"] = g.at["coils"] /\ n.slot = IF g.slot + 1 = Period THEN 0 ELSE g.slot + 1
    BY <1>2, <1>3
  <2> QED
    BY <1>1, <2>1, GatewayFacts DEF Due
<1> QED
  BY <1>1, <1>2, <1>3, GatewayFacts DEF Due

LEMMA PassedFacts ==
    ASSUME NEW g \in GatewayState, NEW n, n = Passed(g)
    PROVE  /\ n \in GatewayState /\ n.slot = (g.slot + 1) % Period /\ n.at = g.at
           /\ n.coil = g.coil /\ n.active = g.active /\ n.scans = g.scans
           /\ n.sequence = g.sequence /\ n.seen = g.seen /\ n.devCoil = g.devCoil
           /\ n.idle \in 1 .. Period /\ (n.idle = Period => n.late) /\ (g.late => n.late)
           /\ ~n.late => n.idle = g.idle + 1
           /\ Due(n) = IF Due(g) = 0 THEN Period - 1 ELSE Due(g) - 1
<1> DEFINE slot == (g.slot + 1) % Period
           idle == IF g.idle = Period THEN g.idle ELSE g.idle + 1
           late == g.late \/ g.idle + 1 >= Period
<1>1. n = [g EXCEPT !.slot = slot, !.idle = idle, !.late = late]
  BY DEF Passed
<1>2. slot \in 0 .. Period - 1
  BY DueFacts
<1>3. g.idle \in 0 .. Period /\ g.late \in BOOLEAN
  BY DEF GatewayState
<1>4. late \in BOOLEAN /\ (g.late => late)
  OBVIOUS
<1>5. /\ idle \in 1 .. Period /\ (idle = Period => g.idle + 1 >= Period)
      /\ ~(g.idle + 1 >= Period) => idle = g.idle + 1
  BY <1>3, GatewayFacts
<1>6. (idle = Period => late) /\ (~late => idle = g.idle + 1)
  BY <1>5
<1>7. idle \in 0 .. Period
  BY <1>5
<1> HIDE DEF slot, idle, late
<1>8. /\ n \in GatewayState /\ n.slot = slot /\ n.at = g.at
      /\ n.coil = g.coil /\ n.active = g.active /\ n.scans = g.scans
      /\ n.sequence = g.sequence /\ n.seen = g.seen /\ n.devCoil = g.devCoil
      /\ n.idle = idle /\ n.late = late
  BY <1>1, <1>2, <1>4, <1>7 DEF GatewayState
<1>9. Due(n) = IF Due(g) = 0 THEN Period - 1 ELSE Due(g) - 1
  BY <1>8, DueFacts DEF slot
<1> QED
  BY <1>4, <1>5, <1>6, <1>8, <1>9 DEF slot

\* A scan of the program begins a pulse, carries it on, ends it, or finds nothing to do.
LEMMA MainFacts ==
    ASSUME NEW g, PulseInv(g), NEW raised \in BOOLEAN, NEW tripped \in BOOLEAN,
           raised => g.sequence < MaxPulses, NEW h, h = MainScan(g, raised, tripped)
    PROVE  /\ h \in GatewayState
           /\ h.slot = g.slot /\ h.at = g.at /\ h.devCoil = g.devCoil /\ h.idle = g.idle
           /\ h.active => h.coil /\ h.scans \in 1 .. PulseScans - 1
           /\ ~h.active => h.scans = 0
           /\ h.coil /\ ~h.active => h.sequence < MaxPulses
           /\ \/ ~g.active /\ h.active /\ h.scans = 1
              \/ g.active /\ h.active /\ h.scans = g.scans + 1 /\ h.seen = g.seen /\ h.late = g.late
              \/ g.active /\ ~h.active /\ g.scans >= Period /\ h.seen = g.seen /\ h.late = g.late
              \/ ~g.active /\ ~h.active /\ h.seen = g.seen /\ h.late = g.late
<1> DEFINE g0 == [g EXCEPT !.coil = @ \/ raised]
           g1 == Began(g0)
           g2 == Ended(g1)
<1>1. g \in GatewayState
  BY DEF PulseInv
<1>2. /\ g.coil \in BOOLEAN /\ g.active \in BOOLEAN /\ g.scans \in 0 .. PulseScans
      /\ g.sequence \in 0 .. MaxPulses /\ g.tripPrev \in BOOLEAN
      /\ g.seen \in BOOLEAN /\ g.late \in BOOLEAN
      /\ (g.coil \/ raised) \in BOOLEAN
  BY <1>1 DEF GatewayState
<1>3. /\ g0 \in GatewayState /\ g0.slot = g.slot /\ g0.at = g.at
      /\ g0.devCoil = g.devCoil /\ g0.idle = g.idle /\ g0.coil = (g.coil \/ raised) /\ g0.active = g.active
      /\ g0.scans = g.scans /\ g0.sequence = g.sequence /\ g0.seen = g.seen /\ g0.late = g.late
  BY <1>1, <1>2 DEF GatewayState
<1> HIDE DEF g0
<1>4. ~g0.active => (g0.coil => g.sequence < MaxPulses)
  BY <1>3 DEF PulseInv
<1>5. /\ g1 \in GatewayState /\ g1.slot = g.slot /\ g1.at = g.at
      /\ g1.devCoil = g.devCoil /\ g1.idle = g.idle
      /\ \/ ~g.active /\ g1.active /\ g1.coil /\ g1.scans = 0
         \/ /\ ~g.active /\ ~g1.active /\ ~g1.coil /\ g1.scans = 0 /\ g1.seen = g.seen /\ g1.late = g.late
         \/ /\ g.active /\ g1.active /\ g1.coil /\ g1.scans = g.scans /\ g1.seen = g.seen /\ g1.late = g.late
            /\ g.scans \in 1 .. PulseScans - 1
  <2>1. CASE g0.coil /\ ~g0.active
    <3>1. g1 = [g0 EXCEPT !.active = TRUE, !.scans = 0, !.key = TRUE, !.sequence = @ + 1,
                          !.seen = FALSE, !.late = FALSE]
      BY <2>1 DEF Began
    <3>2. g0.sequence + 1 \in 0 .. MaxPulses /\ 0 \in 0 .. PulseScans
      BY <1>2, <1>3, <1>4, <2>1, GatewayFacts
    <3> HIDE DEF g1
    <3> QED
      BY <1>3, <2>1, <3>1, <3>2 DEF GatewayState
  <2>2. CASE ~(g0.coil /\ ~g0.active)
    <3>1. g1 = g0
      BY <2>2 DEF Began
    <3> HIDE DEF g1
    <3>2. CASE g.active
      <4>1. g.coil /\ g.scans \in 1 .. PulseScans - 1
        BY <3>2 DEF PulseInv
      <4> QED
        BY <1>3, <3>1, <3>2, <4>1
    <3>3. CASE ~g.active
      <4>1. g.scans = 0
        BY <3>3 DEF PulseInv
      <4>2. ~g0.coil
        BY <1>3, <2>2, <3>3
      <4> QED
        BY <1>3, <3>1, <3>3, <4>1, <4>2
    <3> QED
      BY <3>2, <3>3
  <2> QED
    BY <2>1, <2>2
<1> HIDE DEF g1
<1>6. /\ g2 \in GatewayState /\ g2.slot = g.slot /\ g2.at = g.at
      /\ g2.devCoil = g.devCoil /\ g2.idle = g.idle
      /\ g2.active => g2.coil /\ g2.scans \in 1 .. PulseScans - 1
      /\ ~g2.active => g2.scans = 0 /\ ~g2.coil
      /\ \/ ~g.active /\ g2.active /\ g2.scans = 1
         \/ g.active /\ g2.active /\ g2.scans = g.scans + 1 /\ g2.seen = g.seen /\ g2.late = g.late
         \/ g.active /\ ~g2.active /\ g.scans >= Period /\ g2.seen = g.seen /\ g2.late = g.late
         \/ ~g.active /\ ~g2.active /\ g2.seen = g.seen /\ g2.late = g.late
  <2>1. CASE ~g1.active
    <3>1. g2 = g1
      BY <2>1 DEF Ended
    <3> HIDE DEF g2
    <3> QED
      BY <1>5, <2>1, <3>1
  <2>2. CASE g1.active /\ g1.scans + 1 >= PulseScans
    <3>1. g2 = [g1 EXCEPT !.coil = FALSE, !.active = FALSE, !.scans = 0, !.key = FALSE]
      BY <2>2 DEF Ended
    <3>2. g.active /\ g1.seen = g.seen /\ g1.late = g.late /\ g.scans >= Period
      BY <1>2, <1>5, <2>2, GatewayFacts
    <3>3. 0 \in 0 .. PulseScans
      BY GatewayFacts
    <3> HIDE DEF g2
    <3> QED
      BY <1>5, <3>1, <3>2, <3>3 DEF GatewayState
  <2>3. CASE g1.active /\ ~(g1.scans + 1 >= PulseScans)
    <3>1. g2 = [g1 EXCEPT !.scans = @ + 1]
      BY <2>3 DEF Ended
    <3>2. g1.scans + 1 \in 1 .. PulseScans - 1 /\ g1.scans + 1 \in 0 .. PulseScans
      BY <1>5, <2>3, GatewayFacts DEF GatewayState
    <3> HIDE DEF g2
    <3> QED
      BY <1>5, <2>3, <3>1, <3>2 DEF GatewayState
  <2> QED
    BY <2>1, <2>2, <2>3
<1> HIDE DEF g2
<1> DEFINE fires == tripped /\ ~g2.tripPrev /\ g2.sequence < MaxPulses
<1>7. h = [g2 EXCEPT !.coil = @ \/ fires, !.tripPrev = tripped]
  BY DEF MainScan, TripEdge, g2, g1, g0
<1>8. fires \in BOOLEAN /\ (fires => g2.sequence < MaxPulses)
  BY <1>6 DEF GatewayState
<1> HIDE DEF fires
<1>9. g2.coil \in BOOLEAN /\ (g2.coil \/ fires) \in BOOLEAN
  BY <1>6, <1>8 DEF GatewayState
<1>10. /\ h \in GatewayState /\ h.slot = g2.slot /\ h.at = g2.at
       /\ h.devCoil = g2.devCoil /\ h.idle = g2.idle /\ h.coil = (g2.coil \/ fires) /\ h.active = g2.active
       /\ h.scans = g2.scans /\ h.sequence = g2.sequence /\ h.seen = g2.seen /\ h.late = g2.late
  BY <1>6, <1>7, <1>9 DEF GatewayState
<1>11. h.coil /\ ~h.active => h.sequence < MaxPulses
  BY <1>6, <1>8, <1>10
<1> QED
  BY <1>6, <1>10, <1>11

LEMMA SlotKeeps ==
    ASSUME NEW g, PulseInv(g), NEW raised \in BOOLEAN, NEW tripped \in BOOLEAN,
           raised => g.sequence < MaxPulses, NEW p, p = MainScan(g, raised, tripped),
           NEW scanned \in BOOLEAN, NEW before \in SUBSET Groups,
           NEW h, h = Rest(p, scanned, before), NEW n, n = Passed(h)
    PROVE  PulseInv(n)
<1>1. /\ g \in GatewayState /\ g.scans \in Nat /\ g.idle \in 0 .. Period /\ g.seen \in BOOLEAN
      /\ g.late \in BOOLEAN
  BY DEF PulseInv, GatewayState
<1>2. /\ p \in GatewayState
      /\ p.slot = g.slot /\ p.at = g.at /\ p.devCoil = g.devCoil /\ p.idle = g.idle
      /\ p.active => p.coil /\ p.scans \in 1 .. PulseScans - 1
      /\ ~p.active => p.scans = 0
      /\ p.coil /\ ~p.active => p.sequence < MaxPulses
      /\ \/ ~g.active /\ p.active /\ p.scans = 1
         \/ g.active /\ p.active /\ p.scans = g.scans + 1 /\ p.seen = g.seen /\ p.late = g.late
         \/ g.active /\ ~p.active /\ g.scans >= Period /\ p.seen = g.seen /\ p.late = g.late
         \/ ~g.active /\ ~p.active /\ p.seen = g.seen /\ p.late = g.late
  BY MainFacts
<1>3. /\ Same(h, p)
      /\ p.seen => h.seen
      /\ h.idle = IF scanned THEN 0 ELSE p.idle
      /\ ~h.seen /\ p.at["coils"] = p.slot => h.devCoil = p.coil \/ ~p.coil
      /\ ~h.seen /\ p.at["coils"] # p.slot /\ p.devCoil => ~scanned /\ h.devCoil
  <2>1. p \in GatewayState
    BY <1>2
  <2> QED
    BY <2>1, SlotFacts
<1>4. /\ n \in GatewayState
      /\ n.coil = h.coil /\ n.active = h.active /\ n.scans = h.scans
      /\ n.sequence = h.sequence /\ n.seen = h.seen /\ n.devCoil = h.devCoil
      /\ n.idle \in 1 .. Period /\ (n.idle = Period => n.late) /\ (h.late => n.late)
      /\ ~n.late => n.idle = h.idle + 1
      /\ Due(n) = IF Due(h) = 0 THEN Period - 1 ELSE Due(h) - 1
  BY <1>3, PassedFacts DEF Same
<1>5. Due(h) = Due(g)
  BY <1>2, <1>3 DEF Due, Same
<1>6. Due(g) \in 0 .. Period - 1 /\ (Due(g) = 0 <=> p.at["coils"] = p.slot)
  BY <1>1, <1>2, DueFacts
<1>7. Period \in Nat \ {0} /\ PulseScans \in Nat
  BY GatewayFacts
<1>8. ASSUME ~n.seen, ~n.late, n.active => Due(n) + n.scans >= Period
      PROVE  Waits(n)
  <2>1. /\ ~p.seen /\ ~p.late /\ n.active = p.active /\ n.scans = p.scans /\ n.devCoil = h.devCoil
        /\ ~h.seen
    BY <1>3, <1>4, <1>8 DEF Same
  <2>2. CASE Due(g) = 0 /\ p.active
    <3>1. h.devCoil
      BY <1>2, <1>3, <1>6, <2>1, <2>2
    <3>2. Due(n) = Period - 1 /\ n.idle >= 1
      BY <1>4, <1>5, <2>2
    <3> QED
      BY <1>7, <1>4, <2>1, <3>1, <3>2 DEF Waits
  \* A coil that waits is not written over before the write cycle has passed.
  <2>3. ASSUME Waits(g), ~g.late PROVE Due(g) # 0 /\ Waits(n)
    <3>1. g.idle # Period
      BY <2>3 DEF PulseInv
    <3>2. Due(g) # 0
      BY <1>1, <1>7, <2>3, <3>1 DEF Waits
    <3>3. ~scanned /\ h.devCoil
      BY <1>2, <1>3, <1>6, <2>1, <2>3, <3>2 DEF Waits
    <3>4. n.idle = g.idle + 1 /\ Due(n) = Due(g) - 1
      BY <1>2, <1>3, <1>4, <1>5, <1>8, <3>2, <3>3
    <3>5. n.idle + Due(n) >= Period
      BY <1>1, <1>6, <1>7, <2>3, <3>4 DEF Waits
    <3> QED
      BY <2>1, <3>2, <3>3, <3>5 DEF Waits
  <2>4. CASE ~g.active /\ p.active
    <3>1. p.scans = 1 /\ Due(n) + 1 >= Period
      BY <1>2, <1>8, <2>1, <2>4
    <3>2. Due(g) = 0
      BY <1>4, <1>5, <1>6, <1>7, <3>1
    <3> QED
      BY <2>2, <2>4, <3>2
  <2>5. CASE g.active /\ p.active /\ Due(g) # 0
    <3>1. p.scans = g.scans + 1 /\ ~g.seen /\ ~g.late
      BY <1>2, <2>1, <2>5
    <3>2. Due(n) = Due(g) - 1 /\ Due(n) + n.scans >= Period
      BY <1>4, <1>5, <1>8, <2>1, <2>5
    <3>3. Due(g) + g.scans >= Period
      BY <1>1, <1>6, <1>7, <2>1, <3>1, <3>2
    <3> QED
      BY <2>3, <3>1, <3>3 DEF PulseInv
  <2>6. CASE g.active /\ ~p.active
    <3>1. g.scans >= Period /\ ~g.seen /\ ~g.late
      BY <1>2, <2>1, <2>6
    <3>2. Due(g) + g.scans >= Period
      BY <1>1, <1>6, <1>7, <3>1
    <3> QED
      BY <2>3, <3>1, <3>2 DEF PulseInv
  <2>7. CASE ~g.active /\ ~p.active
    <3>1. ~g.seen /\ ~g.late
      BY <1>2, <2>1, <2>7
    <3> QED
      BY <2>3, <2>7, <3>1 DEF PulseInv
  <2>8. p.active \in BOOLEAN /\ g.active \in BOOLEAN
    BY <1>1, <1>2 DEF GatewayState
  <2> QED
    BY <2>2, <2>4, <2>5, <2>6, <2>7, <2>8
<1>9. /\ n.active => n.coil /\ n.scans \in 1 .. PulseScans - 1
      /\ ~n.active => n.scans = 0
      /\ n.coil /\ ~n.active => n.sequence < MaxPulses
  BY <1>2, <1>3, <1>4 DEF Same
<1> QED
  BY <1>4, <1>8, <1>9 DEF PulseInv

LEMMA GatewayStart == GatewayInit => PulseInv(gw)
<1> SUFFICES ASSUME NEW at \in [Groups -> 0 .. Period - 1], gw = NewGateway(at)
             PROVE  PulseInv(gw)
  BY DEF GatewayInit
<1>1. 0 \in 0 .. Period - 1 /\ 0 \in 0 .. PulseScans /\ 0 \in 0 .. MaxPulses /\ 0 \in 0 .. Period
  BY GatewayFacts
<1>2. gw \in GatewayState
  BY <1>1 DEF NewGateway, GatewayState
<1>3. gw.seen /\ ~gw.active /\ ~gw.coil /\ gw.scans = 0 /\ gw.idle = 0
  BY DEF NewGateway
<1>4. gw.idle # Period
  BY <1>3, GatewayFacts
<1> QED
  BY <1>2, <1>3, <1>4 DEF PulseInv

LEMMA GatewayInductive == PulseInv(gw) /\ [GatewayNext]_gw => PulseInv(gw)'
<1> SUFFICES ASSUME PulseInv(gw), [GatewayNext]_gw PROVE PulseInv(gw')
  OBVIOUS
<1>1. CASE GatewayNext
  <2>1. PICK raised \in BOOLEAN, tripped \in BOOLEAN, scanned \in BOOLEAN, before \in SUBSET Groups :
            /\ raised => gw.sequence < MaxPulses
            /\ LET m == Written(MainScan(gw, raised, tripped), before)
               IN  gw' = Passed(Written(IF scanned THEN DeviceScan(m) ELSE m, Groups \ before))
    BY <1>1 DEF GatewayNext
  <2> DEFINE p == MainScan(gw, raised, tripped)
             h == Rest(p, scanned, before)
  <2>2. gw' = Passed(h)
    BY <2>1 DEF Rest
  <2>3. p = MainScan(gw, raised, tripped) /\ h = Rest(p, scanned, before)
    OBVIOUS
  <2> HIDE DEF p, h
  <2>4. raised => gw.sequence < MaxPulses
    BY <2>1
  <2>5. PICK n : n = Passed(h)
    OBVIOUS
  <2>6. PulseInv(n)
    BY <2>3, <2>4, <2>5, SlotKeeps
  <2> QED
    BY <2>2, <2>5, <2>6
<1>2. CASE UNCHANGED gw
  BY <1>2
<1> QED
  BY <1>1, <1>2

(***************************************************************************)
(* Every pulse of a gateway program reaches a scan of the device, for      *)
(* every write cycle shorter than the pulse (validate_generated asks for   *)
(* no more), wherever in it the coils are written and whenever the device  *)
(* scans, unless it lets a whole write cycle pass between two scans.       *)
(***************************************************************************)
THEOREM PulseSeen == GatewaySpec => []PulseReaches
<1>1. PulseInv(gw) => PulseReaches
  BY DEF PulseInv, PulseReaches, Waits
<1> QED
  BY <1>1, GatewayStart, GatewayInductive, PTL DEF GatewaySpec

-----------------------------------------------------------------------------
(* Each of these invariants has the type of its component in it.           *)
LEMMA LinksTyped ==
    /\ AlarmsSpec => []AlarmsTypeOK
    /\ FaultsSpec => []FaultsTypeOK
    /\ SignalsSpec => []SignalsTypeOK
    /\ SupervisionSpec => []SupervisionTypeOK
    /\ ResetLinkSpec => []ResetLinkTypeOK
    /\ GatewaySpec => []GatewayTypeOK
<1>1. AlarmsSpec => []AlarmsTypeOK
  <2>1. AlarmsInv => AlarmsTypeOK
    BY DEF AlarmsInv
  <2> QED
    BY <2>1, AlarmsStart, AlarmsInductive, PTL DEF AlarmsSpec
<1>2. FaultsSpec => []FaultsTypeOK
  <2>1. FaultsInv => FaultsTypeOK
    BY DEF FaultsInv
  <2> QED
    BY <2>1, FaultsStart, FaultsInductive, PTL DEF FaultsSpec
<1>3. SignalsSpec => []SignalsTypeOK
  <2>1. SignalsInv => SignalsTypeOK
    BY DEF SignalsInv, SignalsType, SignalsTypeOK
  <2> QED
    BY <2>1, SignalsStart, SignalsInductive, PTL DEF SignalsSpec
<1>4. SupervisionSpec => []SupervisionTypeOK
  <2>1. SupervisionInv => SupervisionTypeOK
    BY DEF SupervisionInv
  <2> QED
    BY <2>1, SupervisionStart, SupervisionInductive, PTL DEF SupervisionSpec
<1>5. ResetLinkSpec => []ResetLinkTypeOK
  <2>1. ResetInv => ResetLinkTypeOK
    BY DEF ResetInv
  <2> QED
    BY <2>1, ResetLinkStart, ResetLinkInductive, PTL DEF ResetLinkSpec
<1>6. GatewaySpec => []GatewayTypeOK
  <2>1. PulseInv(gw) => GatewayTypeOK
    BY DEF PulseInv, GatewayTypeOK
  <2> QED
    BY <2>1, GatewayStart, GatewayInductive, PTL DEF GatewaySpec
<1> QED
  BY <1>1, <1>2, <1>3, <1>4, <1>5, <1>6
===============================================================================
