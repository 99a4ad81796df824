----------------------------- MODULE SnapshotProofs -----------------------------
(***************************************************************************)
(* Proofs about Snapshots, for every set of devices, every number of       *)
(* snapshots, ticks, requests, jobs and broken connections.                *)
(*                                                                         *)
(* The tick a device will be at once it has read what is under way is a    *)
(* predicate of its state and its inbox (Ends); a job that nobody disturbs *)
(* puts nothing behind its own message that would change the state.        *)
(***************************************************************************)
EXTENDS Snapshots, TLAPS

Part    == Nat \cup {Own}
Message ==
    [type : {"TICK"}, tick : Nat] \cup [type : {"SAVE"}, id : Nat]
    \cup [type : {"RESTORE"}, id : Nat, part : Part] \cup [type : {"PAUSED"}, value : BOOLEAN]
Reply   == [device : Devices, id : Nat, part : Part]
Parts   == UNION {[D -> Part] : D \in SUBSET Devices}
Document == [tick : Nat, parts : Parts, complete : BOOLEAN, whole : SUBSET Devices]
Job ==
    [op : {"save", "restore"}, id : Nat, at : {"pausing", "ready", "asking"},
     wasPaused : BOOLEAN, disturbed : BOOLEAN, asked : SUBSET Devices, got : Parts,
     name : Names, doc : Document \cup {Missing}, resume : BOOLEAN, todo : SUBSET Devices]

TypeInv ==
    /\ tick \in Nat /\ paused \in BOOLEAN /\ budget \in Nat /\ inFlight \in Nat
    /\ loop \in {"top", "waiting", "dead"}
    /\ registered \subseteq Devices /\ inStep \subseteq registered
    /\ state \in [Devices -> Part] /\ heardPaused \in [Devices -> BOOLEAN]
    /\ inbox \in [Devices -> Seq(Message)]
    /\ replies \subseteq Reply
    /\ job \in Job \cup {NoJob}
    /\ IsRestore => job.doc \in Document /\ job.todo \subseteq DOMAIN job.doc.parts
    /\ IsSave => job.todo = {}
    /\ files \in [Names -> Document \cup {Missing}]
    /\ jobs \in Nat

-----------------------------------------------------------------------------
(* Sequences of messages.                                                  *)

LEMMA AppendFacts ==
    ASSUME NEW S, NEW q \in Seq(S), NEW m \in S
    PROVE  /\ Append(q, m) \in Seq(S)
           /\ Len(q) \in Nat
           /\ DOMAIN q = 1 .. Len(q)
           /\ DOMAIN Append(q, m) = 1 .. Len(q) + 1
           /\ Append(q, m)[Len(q) + 1] = m
           /\ \A i \in 1 .. Len(q) : Append(q, m)[i] = q[i]
OBVIOUS

LEMMA TailFacts ==
    ASSUME NEW S, NEW q \in Seq(S), q # <<>>
    PROVE  /\ Tail(q) \in Seq(S)
           /\ Head(q) \in S
           /\ Head(q) = q[1]
           /\ Len(q) \in Nat \ {0}
           /\ DOMAIN q = 1 .. Len(q)
           /\ DOMAIN Tail(q) = 1 .. Len(q) - 1
           /\ \A i \in 1 .. Len(q) - 1 : Tail(q)[i] = q[i + 1]
OBVIOUS

LEMMA CutFacts ==
    ASSUME NEW S, NEW q \in Seq(S), NEW n \in 0 .. Len(q)
    PROVE  /\ SubSeq(q, 1, n) \in Seq(S)
           /\ Len(q) \in Nat
           /\ DOMAIN q = 1 .. Len(q)
           /\ DOMAIN SubSeq(q, 1, n) = 1 .. n
           /\ \A i \in 1 .. n : SubSeq(q, 1, n)[i] = q[i]
OBVIOUS

LEMMA EmptyFacts ==
    ASSUME NEW S
    PROVE  <<>> \in Seq(S) /\ DOMAIN <<>> = {}
OBVIOUS

Still       == {"SAVE", "PAUSED"}
Of(m, id)   == m.type \in {"SAVE", "RESTORE"} /\ m.id = id
Shows(m)    == IF m.type = "TICK" THEN m.tick ELSE m.part
Quiet(q, i) == \A j \in DOMAIN q : j > i => q[j].type \in Still

\* A device whose state is s is at tick n once it has read q.
Ends(n, s, q) ==
    \/ n = s /\ \A i \in DOMAIN q : q[i].type \in Still
    \/ \E i \in DOMAIN q : q[i].type \notin Still /\ Shows(q[i]) = n /\ Quiet(q, i)

\* What is in q of the job with this id is m, and nothing behind it changes the state.
Clean(q, id, m) == \A i \in DOMAIN q : Of(q[i], id) => q[i] = m /\ Quiet(q, i)
Silent(q, id)   == \A i \in DOMAIN q : ~Of(q[i], id)

LEMMA EndsSaved ==
    ASSUME NEW q \in Seq(Message), NEW m \in Message, m.type \in Still,
           NEW n, NEW s, Ends(n, s, q)
    PROVE  Ends(n, s, Append(q, m))
<1>1. DOMAIN Append(q, m) = DOMAIN q \cup {Len(q) + 1}
  BY AppendFacts
<1> QED
  BY <1>1, AppendFacts DEF Ends, Quiet

LEMMA EndsSet ==
    ASSUME NEW q \in Seq(Message), NEW m \in Message, m.type \notin Still, NEW s
    PROVE  Ends(Shows(m), s, Append(q, m))
<1>1. Len(q) + 1 \in DOMAIN Append(q, m) /\ Append(q, m)[Len(q) + 1] = m
  BY AppendFacts
<1>2. Quiet(Append(q, m), Len(q) + 1)
  BY AppendFacts DEF Quiet
<1> QED
  BY <1>1, <1>2 DEF Ends

\* What handling a message makes of the state.
After(m, s) == IF m.type \in Still THEN s ELSE Shows(m)

LEMMA QuietTail ==
    ASSUME NEW q \in Seq(Message), q # <<>>, NEW i \in DOMAIN Tail(q), Quiet(q, i + 1)
    PROVE  Quiet(Tail(q), i)
<1> SUFFICES ASSUME NEW j \in DOMAIN Tail(q), j > i PROVE Tail(q)[j].type \in Still
  BY DEF Quiet
<1>1. j + 1 \in DOMAIN q /\ j + 1 > i + 1 /\ Tail(q)[j] = q[j + 1]
  BY TailFacts
<1> QED
  BY <1>1 DEF Quiet

LEMMA EndsTail ==
    ASSUME NEW q \in Seq(Message), q # <<>>, NEW n, NEW s, Ends(n, s, q)
    PROVE  Ends(n, After(Head(q), s), Tail(q))
<1>1. /\ DOMAIN q = 1 .. Len(q) /\ Len(q) \in Nat \ {0} /\ Head(q) = q[1]
      /\ DOMAIN Tail(q) = 1 .. Len(q) - 1
      /\ \A i \in 1 .. Len(q) - 1 : Tail(q)[i] = q[i + 1]
  BY TailFacts
<1>2. CASE n = s /\ \A i \in DOMAIN q : q[i].type \in Still
  <2>1. Head(q).type \in Still
    BY <1>1, <1>2
  <2>2. \A i \in DOMAIN Tail(q) : i + 1 \in DOMAIN q
    BY <1>1
  <2>3. \A i \in DOMAIN Tail(q) : Tail(q)[i].type \in Still
    BY <1>1, <1>2, <2>2
  <2> QED
    BY <1>2, <2>1, <2>3 DEF Ends, After
<1>3. CASE \E i \in DOMAIN q : q[i].type \notin Still /\ Shows(q[i]) = n /\ Quiet(q, i)
  <2>1. PICK i \in DOMAIN q : q[i].type \notin Still /\ Shows(q[i]) = n /\ Quiet(q, i)
    BY <1>3
  <2>2. CASE i = 1
    <3>1. \A j \in DOMAIN Tail(q) : j + 1 \in DOMAIN q /\ j + 1 > 1
      BY <1>1
    <3>2. \A j \in DOMAIN Tail(q) : Tail(q)[j].type \in Still
      BY <1>1, <2>1, <2>2, <3>1 DEF Quiet
    <3> QED
      BY <1>1, <2>1, <2>2, <3>2 DEF Ends, After
  <2>3. CASE i # 1
    <3>1. i - 1 \in DOMAIN Tail(q) /\ i - 1 + 1 = i /\ Tail(q)[i - 1] = q[i]
      BY <1>1, <2>3
    <3>2. Quiet(Tail(q), i - 1)
      BY <2>1, <3>1, QuietTail
    <3> QED
      BY <2>1, <3>1, <3>2 DEF Ends
  <2> QED
    BY <2>2, <2>3
<1> QED
  BY <1>2, <1>3 DEF Ends

\* A message with nothing behind it that changes the state.
LEMMA EndsQuiet ==
    ASSUME NEW q \in Seq(Message), q # <<>>, Quiet(q, 1), NEW s
    PROVE  /\ Head(q).type \notin Still => Ends(Shows(Head(q)), After(Head(q), s), Tail(q))
           /\ Head(q).type \in Still => \A n : Ends(n, s, q) => n = s
<1>1. /\ DOMAIN q = 1 .. Len(q) /\ Len(q) \in Nat \ {0} /\ Head(q) = q[1] /\ 1 \in DOMAIN q
  BY TailFacts
<1>2. ASSUME Head(q).type \notin Still PROVE Ends(Shows(Head(q)), s, q)
  BY <1>1, <1>2 DEF Ends
<1>3. ASSUME Head(q).type \in Still PROVE \A i \in DOMAIN q : q[i].type \in Still
  BY <1>1, <1>3 DEF Quiet
<1> QED
  BY <1>2, <1>3, EndsTail DEF Ends

LEMMA CleanTail ==
    ASSUME NEW q \in Seq(Message), q # <<>>, NEW id, NEW m, Clean(q, id, m)
    PROVE  Clean(Tail(q), id, m)
<1> SUFFICES ASSUME NEW i \in DOMAIN Tail(q), Of(Tail(q)[i], id)
             PROVE  Tail(q)[i] = m /\ Quiet(Tail(q), i)
  BY DEF Clean
<1>1. i + 1 \in DOMAIN q /\ Tail(q)[i] = q[i + 1]
  BY TailFacts
<1> QED
  BY <1>1, QuietTail DEF Clean

LEMMA SilentTail ==
    ASSUME NEW q \in Seq(Message), q # <<>>, NEW id, Silent(q, id)
    PROVE  Silent(Tail(q), id)
<1>1. \A i \in DOMAIN Tail(q) : i + 1 \in DOMAIN q /\ Tail(q)[i] = q[i + 1]
  BY TailFacts
<1> QED
  BY <1>1 DEF Silent

LEMMA CleanCut ==
    ASSUME NEW q \in Seq(Message), NEW n \in 0 .. Len(q), NEW id
    PROVE  /\ \A m : Clean(q, id, m) => Clean(SubSeq(q, 1, n), id, m)
           /\ Silent(q, id) => Silent(SubSeq(q, 1, n), id)
<1>1. \A i \in DOMAIN SubSeq(q, 1, n) : i \in DOMAIN q /\ SubSeq(q, 1, n)[i] = q[i]
  BY CutFacts
<1> QED
  BY <1>1 DEF Clean, Silent, Quiet

\* The message of a job that has sent nothing yet.
LEMMA CleanAppend ==
    ASSUME NEW q \in Seq(Message), NEW m \in Message, NEW id, Silent(q, id)
    PROVE  Clean(Append(q, m), id, m)
<1>1. /\ DOMAIN Append(q, m) = DOMAIN q \cup {Len(q) + 1}
      /\ Append(q, m)[Len(q) + 1] = m
      /\ \A i \in DOMAIN q : Append(q, m)[i] = q[i]
      /\ Quiet(Append(q, m), Len(q) + 1)
  BY AppendFacts DEF Quiet
<1> QED
  BY <1>1 DEF Clean, Silent

LEMMA MessageCases ==
    /\ \A m \in Message : /\ m.type \in {"TICK", "SAVE", "RESTORE", "PAUSED"}
                          /\ m.type = "TICK" => m.tick \in Nat
                          /\ m.type \in {"SAVE", "RESTORE"} => m.id \in Nat
                          /\ m.type = "RESTORE" => m.part \in Part
                          /\ m.type = "PAUSED" => m.value \in BOOLEAN
                          /\ m.type \notin Still => Shows(m) \in Part
    /\ \A n \in Nat : /\ TickMsg(n) \in Message /\ TickMsg(n).type = "TICK"
                      /\ TickMsg(n).tick = n /\ Shows(TickMsg(n)) = n
    /\ \A n \in Nat : SaveMsg(n) \in Message /\ SaveMsg(n).type = "SAVE" /\ SaveMsg(n).id = n
    /\ \A n \in Nat, p \in Part :
           /\ RestoreMsg(n, p) \in Message /\ RestoreMsg(n, p).type = "RESTORE"
           /\ RestoreMsg(n, p).id = n /\ RestoreMsg(n, p).part = p /\ Shows(RestoreMsg(n, p)) = p
    /\ \A p \in BOOLEAN : PausedMsg(p) \in Message /\ PausedMsg(p).type = "PAUSED"
BY DEF Message, Shows, Part, TickMsg, SaveMsg, RestoreMsg, PausedMsg, Still

-----------------------------------------------------------------------------
(* Types.                                                                  *)

LEMMA NoJobFacts == NoJob.op = "none" /\ (job.op # "none" => job # NoJob)
BY DEF NoJob

LEMMA JobFacts ==
    ASSUME job \in Job \cup {NoJob}
    PROVE  /\ job = NoJob <=> job.op = "none"
           /\ job.op # "none" => job \in Job
BY DEF Job, NoJob

LEMMA TypeStart == Init => TypeInv
<1> SUFFICES ASSUME Init PROVE TypeInv
  OBVIOUS
<1>1. inbox \in [Devices -> Seq(Message)]
  BY EmptyFacts DEF Init
<1>2. job = NoJob /\ job.op = "none"
  BY NoJobFacts DEF Init
<1> QED
  BY <1>1, <1>2 DEF Init, TypeInv, Part, Missing, IsRestore, IsSave

LEMMA SentTyped ==
    ASSUME inbox \in [Devices -> Seq(Message)], NEW targets, NEW m \in Message
    PROVE  /\ Sent(targets, m) \in [Devices -> Seq(Message)]
           /\ \A d \in Devices : Sent(targets, m)[d] = IF d \in targets THEN Append(inbox[d], m) ELSE inbox[d]
<1>1. \A d \in Devices : Append(inbox[d], m) \in Seq(Message)
  BY AppendFacts
<1> QED
  BY <1>1 DEF Sent

(* What pause() and resume() tell the devices.                             *)
LEMMA AnnouncedTyped ==
    ASSUME TypeInv, NEW p \in BOOLEAN
    PROVE  /\ Announced(p) \in [Devices -> Seq(Message)]
           /\ \A d \in Devices : Announced(p)[d] \in {inbox[d], Append(inbox[d], PausedMsg(p))}
<1>1. PICK m \in Message : m = PausedMsg(p)
  BY MessageCases
<1>2. inbox \in [Devices -> Seq(Message)]
  BY DEF TypeInv
<1>3. /\ Sent(registered, m) \in [Devices -> Seq(Message)]
      /\ \A d \in Devices : Sent(registered, m)[d] = IF d \in registered THEN Append(inbox[d], m) ELSE inbox[d]
  BY <1>2, SentTyped
<1>4. Announced(p) = inbox \/ Announced(p) = Sent(registered, m)
  BY <1>1 DEF Announced
<1>5. \A d \in Devices : Announced(p)[d] \in {inbox[d], Append(inbox[d], m)}
  BY <1>3, <1>4
<1> QED
  BY <1>1, <1>2, <1>3, <1>4, <1>5

LEMMA LoopTyped == TypeInv /\ (StartTick \/ EndTick) => TypeInv'
<1> SUFFICES ASSUME TypeInv PROVE StartTick \/ EndTick => TypeInv'
  OBVIOUS
<1>1. CASE StartTick
  <2>1. tick' \in Nat /\ TickMsg(tick') \in Message
    BY <1>1, MessageCases DEF StartTick, TypeInv
  <2>2. inbox' \in [Devices -> Seq(Message)]
    BY <1>1, <2>1, SentTyped DEF StartTick, TypeInv
  <2> QED
    BY <1>1, <2>1, <2>2 DEF StartTick, TypeInv, storeVars, counters, IsRestore, IsSave, deviceVars
<1>2. CASE EndTick
  <2>1. /\ job' \in Job \cup {NoJob}
        /\ job'.op = job.op
        /\ job'.op = "restore" => job'.doc = job.doc
        /\ job'.op # "none" => job'.todo = job.todo
    BY <1>2, JobFacts DEF EndTick, Awake, TypeInv, Job
  <2>2. budget' \in Nat /\ paused' \in BOOLEAN /\ loop' \in {"top", "waiting", "dead"} /\ inFlight' \in Nat
    <3>1. budget \in Nat /\ paused \in BOOLEAN /\ inFlight \in Nat
      BY DEF TypeInv
    <3>2. CASE tick # inFlight
      BY <1>2, <3>1, <3>2 DEF EndTick
    <3>3. CASE tick = inFlight
      <4>1. budget' = (IF budget > 0 THEN budget - 1 ELSE 0) /\ loop' = "top" /\ inFlight' = 0
        BY <1>2, <3>3 DEF EndTick
      <4>2. paused' = IF budget = 1 THEN TRUE ELSE paused
        BY <1>2, <3>3 DEF EndTick
      <4>3. budget' \in Nat
        BY <3>1, <4>1
      <4>4. paused' \in BOOLEAN
        BY <3>1, <4>2
      <4> QED
        BY <4>1, <4>3, <4>4
    <3> QED
      BY <3>2, <3>3
  <2>3. inbox' \in [Devices -> Seq(Message)]
    BY <1>2, <2>2, AnnouncedTyped DEF EndTick
  <2> QED
    BY <1>2, <2>1, <2>2, <2>3 DEF EndTick, TypeInv, storeVars, counters, IsRestore, IsSave, deviceVars
<1> QED
  BY <1>1, <1>2

LEMMA RequestTyped ==
    ASSUME TypeInv, Pause \/ Resume \/ \E n \in StepSizes : Step(n)
    PROVE  TypeInv'
<1>1. PICK kind : Request(kind)
  BY DEF Pause, Resume, Step
<1>2. /\ job' \in Job \cup {NoJob}
      /\ job'.op = job.op
      /\ job'.op = "restore" => job'.doc = job.doc
      /\ job'.op # "none" => job'.todo = job.todo
  BY <1>1, JobFacts DEF Request, TypeInv, Job, deviceVars
<1>3. paused' \in BOOLEAN /\ budget' \in Nat
  <2>1. budget \in Nat /\ paused \in BOOLEAN
    BY DEF TypeInv
  <2>2. \A n \in StepSizes : n \in Nat
    BY SnapshotsAssumption DEF SnapshotsAssumption
  <2>3. paused' \in BOOLEAN
    BY DEF Pause, Resume, Step
  <2>4. budget' \in Nat
    BY <2>1, <2>2 DEF Pause, Resume, Step
  <2> QED
    BY <2>3, <2>4
<1>4. inbox' \in [Devices -> Seq(Message)]
  <2>1. (kind = "pause") \in BOOLEAN
    OBVIOUS
  <2> QED
    BY <1>1, <2>1, AnnouncedTyped DEF Request
<1> QED
  BY <1>1, <1>2, <1>3, <1>4 DEF Request, TypeInv, storeVars, IsRestore, IsSave, deviceVars

LEMMA DeviceTyped ==
    ASSUME TypeInv, NEW d \in Devices
    PROVE  /\ Handle(d) \/ Join(d) \/ RunAlone(d) => TypeInv'
           /\ \A keep \in 0 .. Len(inbox[d]), lost \in BOOLEAN : Leave(d, keep, lost) => TypeInv'
<1>0. inbox[d] \in Seq(Message)
  BY DEF TypeInv
<1>1. ASSUME Join(d) PROVE TypeInv'
  <2>1. inbox' \in [Devices -> Seq(Message)]
    <3>1. PausedMsg(paused) \in Message
      BY MessageCases DEF TypeInv
    <3> QED
      BY <1>1, <3>1, SentTyped DEF Join, TypeInv
  <2> QED
    BY <1>1, <2>1 DEF Join, TypeInv, busVars, storeVars, counters, IsRestore, IsSave, deviceVars
<1>2. ASSUME RunAlone(d) PROVE TypeInv'
  BY <1>2 DEF RunAlone, TypeInv, busVars, storeVars, counters, IsRestore, IsSave, Part, deviceVars
<1>3. ASSUME NEW keep \in 0 .. Len(inbox[d]), NEW lost \in BOOLEAN, Leave(d, keep, lost)
      PROVE  TypeInv'
  <2>1. inbox' \in [Devices -> Seq(Message)]
    BY <1>0, <1>3, CutFacts DEF Leave, TypeInv
  <2> QED
    BY <1>3, <2>1 DEF Leave, TypeInv, busVars, storeVars, IsRestore, IsSave, deviceVars
<1>4. ASSUME Handle(d) PROVE TypeInv'
  <2> DEFINE message == Head(inbox[d])
  <2>1. message \in Message /\ Tail(inbox[d]) \in Seq(Message)
    BY <1>0, <1>4, TailFacts DEF Handle
  <2>2. inbox' \in [Devices -> Seq(Message)]
    BY <1>4, <2>1 DEF Handle, TypeInv
  <2>3. /\ message.type = "TICK" => message.tick \in Part
        /\ message.type = "RESTORE" => message.part \in Part
        /\ message.type \in {"SAVE", "RESTORE"} => message.id \in Nat
    BY <2>1, MessageCases DEF Part
  <2>4. state[d] \in Part
    BY DEF TypeInv
  <2>5. state' \in [Devices -> Part] /\ heardPaused' \in [Devices -> BOOLEAN]
    <3>1. message.type = "PAUSED" => message.value \in BOOLEAN
      BY <2>1, MessageCases
    <3> QED
      BY <1>4, <2>3, <3>1 DEF Handle, TypeInv, deviceVars
  <2>6. replies' \subseteq Reply
    BY <1>4, <2>3, <2>4 DEF Handle, TypeInv, Reply
  <2>7. inStep' \subseteq registered'
    BY <1>4 DEF Handle, TypeInv
  <2> QED
    BY <1>4, <2>2, <2>5, <2>6, <2>7 DEF Handle, TypeInv, busVars, storeVars, counters, IsRestore, IsSave, deviceVars
<1> QED
  BY <1>1, <1>2, <1>3, <1>4

LEMMA JobTyped ==
    ASSUME TypeInv, (\E n \in Names : Save(n)) \/
                    \E n \in Names, allowIncomplete, resume \in BOOLEAN : Restore(n, allowIncomplete, resume)
    PROVE  TypeInv'
<1>1. PICK op \in {"save", "restore"}, n \in Names, doc \in Document \cup {Missing}, resume \in BOOLEAN :
          StartJob(op, n, doc, resume) /\ (op = "restore" => doc \in Document)
  BY DEF Save, Restore, TypeInv
<1>2. NoParts \in Parts
  <2>1. NoParts \in [{} -> Part] /\ {} \in SUBSET Devices
    BY DEF NoParts
  <2> QED
    BY <2>1 DEF Parts
<1>3. AfterTick \in {"pausing", "ready"}
  BY DEF AfterTick
<1>4. job' \in Job /\ job'.op = op /\ job'.todo = {} /\ job'.doc = doc
  BY <1>1, <1>2, <1>3 DEF StartJob, Begin, NewJob, Job, TypeInv, deviceVars
<1>5. inbox' \in [Devices -> Seq(Message)]
  BY <1>1, AnnouncedTyped DEF StartJob
<1>6. /\ UNCHANGED <<tick, loop, inFlight, registered, state, heardPaused, replies, files, inStep>>
      /\ jobs' = jobs + 1
  BY <1>1 DEF StartJob, Begin, storeVars, deviceVars
<1>7. paused' \in BOOLEAN /\ budget' \in Nat
  BY <1>1 DEF StartJob, TypeInv
<1> QED
  BY <1>1, <1>4, <1>5, <1>6, <1>7 DEF TypeInv, IsRestore, IsSave

LEMMA PartGiven ==
    ASSUME NEW got \in Parts, NEW d \in Devices, NEW n \in Part
    PROVE  Given(got, d, n) \in Parts
<1>1. PICK D \in SUBSET Devices : got \in [D -> Part]
  BY DEF Parts
<1>2. Given(got, d, n) \in [D \cup {d} -> Part] /\ D \cup {d} \in SUBSET Devices
  BY <1>1 DEF Given
<1> QED
  BY <1>2, Zenon DEF Parts

LEMMA ResolveTyped ==
    ASSUME TypeInv, NEW r \in replies, Resolve(r)
    PROVE  TypeInv'
<1>1. /\ job' \in Job \cup {NoJob}
      /\ job'.op = job.op
      /\ job'.op = "restore" => job'.doc = job.doc
      /\ job'.op # "none" => job'.todo = job.todo
  <2>1. CASE job.op # "none" /\ job.id = r.id /\ r.device \in job.asked
    <3>1. job \in Job /\ r.device \in Devices /\ r.part \in Part
      BY <2>1, JobFacts DEF TypeInv, Reply
    <3>2. Given(job.got, r.device, r.part) \in Parts
      BY <3>1, PartGiven DEF Job
    <3> QED
      BY <2>1, <3>1, <3>2 DEF Resolve, Job
  <2>2. CASE ~(job.op # "none" /\ job.id = r.id /\ r.device \in job.asked)
    BY <2>2 DEF Resolve, TypeInv
  <2> QED
    BY <2>1, <2>2
<1> QED
  BY <1>1 DEF Resolve, CoordinatorFrame, TypeInv, storeVars, counters, IsRestore, IsSave, deviceVars

LEMMA CoordinatorTyped == TypeInv /\ Coordinator => TypeInv'
<1> SUFFICES ASSUME TypeInv, Coordinator PROVE TypeInv'
  OBVIOUS
<1>0. job \in Job
  <2>1. IsSave \/ IsRestore
    BY Zenon DEF Coordinator, AskAll, FinishSave, ChooseTargets, AskNext, FinishRestore
  <2> QED
    BY <2>1, JobFacts DEF IsSave, IsRestore, TypeInv
<1>1. CASE AskAll
  <2>1. SaveMsg(job.id) \in Message
    BY <1>0, MessageCases DEF Job
  <2>2. inbox' \in [Devices -> Seq(Message)]
    BY <1>1, <2>1, SentTyped DEF AskAll, TypeInv
  <2>3. job' \in Job /\ job'.op = job.op /\ job'.todo = job.todo /\ job'.doc = job.doc
    BY <1>0, <1>1 DEF AskAll, TypeInv, Job
  <2> QED
    BY <1>1, <2>2, <2>3 DEF AskAll, CoordinatorFrame, TypeInv, storeVars, counters, IsRestore, IsSave, deviceVars
<1>2. CASE ChooseTargets
  <2>1. /\ job' \in Job /\ job'.op = job.op /\ job'.doc = job.doc
        /\ job'.todo = registered \cap DOMAIN job.doc.parts
    BY <1>0, <1>2 DEF ChooseTargets, TypeInv, Job
  <2> QED
    BY <1>2, <2>1 DEF ChooseTargets, CoordinatorFrame, TypeInv, storeVars, counters, IsRestore, IsSave, deviceVars
<1>3. ASSUME NEW d \in Devices, AskNext(d) PROVE TypeInv'
  <2>1. job.doc \in Document /\ d \in DOMAIN job.doc.parts
    BY <1>3 DEF AskNext, TypeInv
  <2>2. job.doc.parts[d] \in Part
    BY <2>1 DEF Document, Parts
  <2>3. RestoreMsg(job.id, job.doc.parts[d]) \in Message
    BY <1>0, <2>2, MessageCases DEF Job
  <2>4. inbox' \in [Devices -> Seq(Message)]
    BY <1>3, <2>3, SentTyped DEF AskNext, TypeInv
  <2>5. job' \in Job /\ job'.op = job.op /\ job'.doc = job.doc /\ job'.todo = job.todo \ {d}
    BY <1>0, <1>3 DEF AskNext, TypeInv, Job
  <2> QED
    BY <1>3, <2>4, <2>5 DEF AskNext, CoordinatorFrame, TypeInv, storeVars, counters, IsRestore, IsSave, deviceVars
<1>4. ASSUME NEW go \in BOOLEAN, Release(go)
      PROVE  /\ job' = NoJob /\ ~IsSave' /\ ~IsRestore' /\ paused' \in BOOLEAN /\ budget' \in Nat
             /\ inbox' \in [Devices -> Seq(Message)]
  <2>1. paused' \in BOOLEAN
    BY <1>4 DEF Release, TypeInv
  <2>2. inbox' \in [Devices -> Seq(Message)]
    BY <1>4, <2>1, AnnouncedTyped DEF Release
  <2> QED
    BY <1>4, <2>1, <2>2 DEF Release, NoJob, IsSave, IsRestore, TypeInv
<1>5. CASE FinishSave
  <2>1. Release(~job.wasPaused)
    BY <1>5 DEF FinishSave
  <2>2. files' \in [Names -> Document \cup {Missing}]
    <3> DEFINE whole == IF job.disturbed THEN {} ELSE inStep \cap DOMAIN job.got
               missing == job.asked \ DOMAIN job.got
               doc == [tick |-> tick, parts |-> job.got, complete |-> missing = {}, whole |-> whole]
    <3>1. whole \subseteq Devices
      BY DEF TypeInv
    <3>2. job.got \in Parts
      BY <1>0 DEF Job
    <3> HIDE DEF whole, missing
    <3>3. doc \in Document
      BY <3>1, <3>2 DEF Document, TypeInv
    <3>4. files' = [files EXCEPT ![job.name] = doc]
      BY <1>5 DEF FinishSave, doc, whole, missing
    <3> HIDE DEF doc
    <3> QED
      BY <3>3, <3>4 DEF TypeInv
  <2> QED
    BY <1>4, <1>5, <2>1, <2>2 DEF FinishSave, CoordinatorFrame, TypeInv, storeVars, counters, deviceVars
<1>6. CASE FinishRestore
  <2>1. Release(job.resume)
    BY <1>6 DEF FinishRestore
  <2>2. tick' \in Nat /\ inStep' \subseteq registered
    BY <1>6 DEF FinishRestore, TypeInv, Document
  <2>3. job.resume \in BOOLEAN
    BY <1>0 DEF Job
  <2> QED
    BY <1>4, <1>6, <2>1, <2>2, <2>3 DEF FinishRestore, CoordinatorFrame, TypeInv, storeVars, counters, deviceVars
<1> QED
  BY <1>1, <1>2, <1>3, <1>5, <1>6 DEF Coordinator

LEMMA TypeInductive == TypeInv /\ [Next]_vars => TypeInv'
<1> SUFFICES ASSUME TypeInv, [Next]_vars PROVE TypeInv'
  OBVIOUS
<1>1. CASE UNCHANGED vars
  BY <1>1 DEF vars, busVars, storeVars, counters, TypeInv, IsRestore, IsSave, deviceVars
<1> QED
  BY <1>1, LoopTyped, RequestTyped, DeviceTyped, JobTyped, ResolveTyped, CoordinatorTyped DEF Next

-----------------------------------------------------------------------------
(* A job that nobody disturbs keeps the plant paused.                      *)
Undisturbed == job.op # "none" /\ ~job.disturbed

HaltInv ==
    /\ paused => budget = 0
    /\ Undisturbed => paused /\ (job.at # "pausing" => loop # "waiting")

\* What an action that is neither the loop's nor a request leaves alone.
Elsewhere == UNCHANGED <<tick, paused, budget, loop, inFlight>>

LEMMA CoordinatorElsewhere ==
    (\E r \in replies : Resolve(r)) \/ AskAll \/ ChooseTargets \/ (\E d \in Devices : AskNext(d)) => Elsewhere
<1>1. ASSUME NEW r, Resolve(r) PROVE Elsewhere
  <2>1. UNCHANGED <<tick, paused, budget, inbox, storeVars, inStep>> /\ CoordinatorFrame
    BY <1>1, Zenon DEF Resolve
  <2> QED
    BY <2>1 DEF CoordinatorFrame, Elsewhere
<1>2. CASE AskAll \/ ChooseTargets \/ \E d \in Devices : AskNext(d)
  BY <1>2, Zenon DEF AskAll, ChooseTargets, AskNext, CoordinatorFrame, Elsewhere
<1> QED
  BY <1>1, <1>2

LEMMA HaltStart == Init => HaltInv
BY NoJobFacts DEF Init, HaltInv, Undisturbed

LEMMA HaltInductive == TypeInv /\ HaltInv /\ [Next]_vars => HaltInv'
<1> SUFFICES ASSUME TypeInv, HaltInv, [Next]_vars PROVE HaltInv'
  OBVIOUS
<1>0. job.op # "none" => job \in Job
  BY JobFacts DEF TypeInv
<1>1. CASE StartTick
  <2>1. ~Undisturbed /\ UNCHANGED <<job, paused, budget>>
    BY <1>1 DEF StartTick, HaltInv
  <2> QED
    BY <2>1 DEF HaltInv, Undisturbed
<1>2. CASE EndTick
  <2>1. paused' => budget' = 0
    <3>1. CASE tick # inFlight
      BY <1>2, <3>1 DEF EndTick, HaltInv
    <3>2. CASE tick = inFlight
      <4>1. /\ budget' = (IF budget > 0 THEN budget - 1 ELSE 0)
            /\ paused' = IF budget = 1 THEN TRUE ELSE paused
        BY <1>2, <3>2 DEF EndTick
      <4>2. budget = 1 => budget' = 0
        BY <4>1
      <4>3. budget = 0 => budget' = 0
        BY <4>1
      <4> QED
        BY <4>1, <4>2, <4>3 DEF HaltInv
    <3> QED
      BY <3>1, <3>2
  <2>2. /\ Undisturbed' => Undisturbed
        /\ job.op # "none" => job'.at # "pausing"
    BY <1>0, <1>2 DEF EndTick, Awake, Undisturbed, Job
  <2>3. (paused => paused') /\ loop' # "waiting"
    BY <1>2 DEF EndTick
  <2> QED
    BY <2>1, <2>2, <2>3 DEF HaltInv, Undisturbed
<1>3. CASE Pause
  <2>1. /\ Undisturbed' => Undisturbed
        /\ job'.op # "none" => job'.at = job.at
    BY <1>0, <1>3 DEF Pause, Request, Undisturbed, Job
  <2> QED
    BY <1>3, <2>1 DEF Pause, Request, HaltInv, Undisturbed
<1>4. CASE Resume \/ \E n \in StepSizes : Step(n)
  <2>1. ~Undisturbed'
    BY <1>0, <1>4 DEF Resume, Step, Request, Undisturbed, Job
  <2> QED
    BY <1>4, <2>1 DEF Resume, Step, HaltInv
<1>5. ASSUME NEW op, NEW n, NEW doc, NEW resume, StartJob(op, n, doc, resume)
      PROVE  HaltInv'
  <2>1. paused' /\ budget' = 0 /\ loop' = loop
    BY <1>5 DEF StartJob, Begin, HaltInv
  <2>2. job'.at = AfterTick
    BY <1>5 DEF StartJob, NewJob
  <2> QED
    BY <2>1, <2>2 DEF HaltInv, AfterTick
<1>6. ASSUME job' = job, Elsewhere PROVE HaltInv'
  BY <1>6 DEF Elsewhere, HaltInv, Undisturbed
<1>7. ASSUME NEW d \in Devices, Handle(d) \/ Join(d) \/ RunAlone(d)
      PROVE  HaltInv'
  BY <1>6, <1>7 DEF Handle, Join, RunAlone, busVars, Elsewhere
<1>8. ASSUME NEW d \in Devices, NEW keep, NEW lost, Leave(d, keep, lost)
      PROVE  HaltInv'
  BY <1>6, <1>8 DEF Leave, busVars, Elsewhere
<1>9. ASSUME Elsewhere, Undisturbed' => Undisturbed,
             job'.op # "none" /\ job'.at # "pausing" => job.at # "pausing"
      PROVE  HaltInv'
  BY <1>9 DEF Elsewhere, HaltInv, Undisturbed
<1>10. ASSUME NEW r \in replies, Resolve(r) PROVE HaltInv'
  <2>1. /\ Undisturbed' => Undisturbed
        /\ job'.op # "none" => job'.at = job.at
    BY <1>0, <1>10 DEF Resolve, Undisturbed, Job
  <2>2. Elsewhere
    BY <1>10, CoordinatorElsewhere
  <2> QED
    BY <1>9, <2>1, <2>2
<1>11. CASE AskAll \/ ChooseTargets \/ \E d \in Devices : AskNext(d)
  <2>0. IsSave \/ IsRestore
    BY <1>11, Zenon DEF AskAll, ChooseTargets, AskNext
  <2>1. job.at = "ready" \/ job.at = "asking"
    BY <1>11, Zenon DEF AskAll, ChooseTargets, AskNext
  <2>3. job.op # "none" /\ job.at # "pausing" /\ job \in Job
    BY <1>0, <2>0, <2>1 DEF IsSave, IsRestore
  <2>4. ASSUME AskAll PROVE job'.disturbed = job.disturbed
    BY <2>3, <2>4 DEF AskAll, Job
  <2>5. ASSUME ChooseTargets PROVE job'.disturbed = job.disturbed
    BY <2>3, <2>5 DEF ChooseTargets, Job
  <2>6. ASSUME NEW d \in Devices, AskNext(d) PROVE job'.disturbed = job.disturbed
    <3>1. job' = [job EXCEPT !.todo = @ \ {d}, !.asked = {d} \cap registered]
      BY <2>6 DEF AskNext
    <3> QED
      BY <2>3, <3>1 DEF Job
  <2>2. Elsewhere
    BY <1>11, CoordinatorElsewhere
  <2>7. job'.disturbed = job.disturbed
    BY <1>11, <2>4, <2>5, <2>6
  <2> QED
    BY <1>9, <2>2, <2>3, <2>7 DEF Undisturbed
<1>12. ASSUME NEW go, Release(go) PROVE HaltInv'
  <2>1. ~Undisturbed'
    BY <1>12, NoJobFacts DEF Release, Undisturbed, NoJob
  <2> QED
    BY <1>12, <2>1 DEF Release, HaltInv
<1>13. CASE FinishSave \/ FinishRestore
  <2>1. (FinishSave => Release(~job.wasPaused)) /\ (FinishRestore => Release(job.resume))
    BY DEF FinishSave, FinishRestore
  <2> QED
    BY <1>12, <1>13, <2>1
<1>14. CASE UNCHANGED vars
  BY <1>6, <1>14 DEF vars, busVars, Elsewhere
<1> QED
  BY <1>1, <1>2, <1>3, <1>4, <1>5, <1>7, <1>8, <1>10, <1>11, <1>13, <1>14
     DEF Next, Save, Restore, Coordinator

LEMMA HaltAlways == Spec => [](TypeInv /\ HaltInv)
<1> QED
  BY TypeStart, TypeInductive, HaltStart, HaltInductive, PTL DEF Spec

(***************************************************************************)
(* The clock is set back only while no tick is in flight, unless somebody  *)
(* resumed or stepped the plant during the restore.                        *)
(***************************************************************************)
THEOREM ClockSetBackInPause == Spec => NoTickRewound
<1>1. TypeInv /\ HaltInv /\ [Next]_vars =>
          [IsRestore /\ tick' < tick /\ ~job.disturbed => loop # "waiting"]_vars
  <2> SUFFICES ASSUME TypeInv, HaltInv, Next, IsRestore, tick' < tick, ~job.disturbed
               PROVE  loop # "waiting"
    OBVIOUS
  <2>1. CASE StartTick
    BY <2>1 DEF StartTick, TypeInv
  <2>2. tick' # tick /\ tick \in Nat
    BY DEF TypeInv
  <2>3. CASE FinishRestore
    BY <2>3 DEF FinishRestore, HaltInv, Undisturbed, IsRestore
  <2>4. CASE EndTick \/ Pause \/ Resume \/ \E n \in StepSizes : Step(n)
    BY <2>2, <2>4 DEF EndTick, Pause, Resume, Step, Request
  <2>5. CASE \E d \in Devices : Handle(d) \/ Join(d) \/ RunAlone(d)
    BY <2>2, <2>5 DEF Handle, Join, RunAlone, busVars
  <2>6. CASE \E d \in Devices : \E keep \in 0 .. Len(inbox[d]), lost \in BOOLEAN : Leave(d, keep, lost)
    BY <2>2, <2>6 DEF Leave, busVars
  <2>7. CASE (\E r \in replies : Resolve(r)) \/ AskAll \/ ChooseTargets \/ \E d \in Devices : AskNext(d)
    BY <2>2, <2>7, CoordinatorElsewhere DEF Elsewhere
  <2>8. CASE FinishSave
    BY <2>2, <2>8 DEF FinishSave
  <2>9. ASSUME NEW op, NEW n, NEW doc, NEW resume, StartJob(op, n, doc, resume) PROVE FALSE
    BY <2>2, <2>9 DEF StartJob, Begin
  <2> QED
    BY <2>1, <2>3, <2>4, <2>5, <2>6, <2>7, <2>8, <2>9 DEF Next, Save, Restore, Coordinator
<1> QED
  BY <1>1, HaltAlways, PTL DEF Spec, NoTickRewound

(***************************************************************************)
(* A plant that is paused or stepping runs freely only after a resume, a   *)
(* save that found it running, or a restore that was to resume it.         *)
(***************************************************************************)
THEOREM FreeOnlyWhenAsked == Spec => RunsFreelyOnlyWhenAsked
<1> DEFINE Asked == \/ Resume
                    \/ IsSave /\ job' = NoJob /\ ~job.wasPaused
                    \/ IsRestore /\ job' = NoJob /\ job.resume
<1>1. TypeInv /\ [Next]_vars => [Halting /\ ~Halting' => Asked]_vars
  <2> SUFFICES ASSUME TypeInv, Next, Halting, ~Halting' PROVE Asked
    OBVIOUS
  <2>0. budget \in Nat
    BY DEF TypeInv
  <2>1. ~(paused' = paused /\ budget' = budget) /\ ~paused' /\ ~(budget' > 0)
    BY DEF Halting
  <2> HIDE DEF Asked
  <2>2. CASE EndTick
    <3>1. CASE tick # inFlight
      BY <2>1, <2>2, <3>1 DEF EndTick
    <3>2. CASE tick = inFlight
      <4>1. /\ budget' = (IF budget > 0 THEN budget - 1 ELSE 0)
            /\ paused' = IF budget = 1 THEN TRUE ELSE paused
        BY <2>2, <3>2 DEF EndTick
      <4>2. budget # 1 /\ ~paused
        BY <2>1, <4>1
      <4>3. budget > 0 => budget' > 0
        BY <2>0, <4>1, <4>2
      <4> QED
        BY <2>1, <4>2, <4>3 DEF Halting
    <3> QED
      BY <3>1, <3>2
  <2>3. CASE Resume
    BY <2>3 DEF Asked
  <2>4. CASE Pause
    BY <2>1, <2>4 DEF Pause
  <2>5. CASE \E n \in StepSizes : Step(n)
    <3>1. PICK n \in StepSizes : Step(n)
      BY <2>5
    <3>2. n > 0 /\ budget' = n
      BY <3>1, SnapshotsAssumption DEF Step, SnapshotsAssumption
    <3> QED
      BY <2>1, <3>2
  <2>6. CASE StartTick \/ (\E d \in Devices : Handle(d) \/ Join(d) \/ RunAlone(d))
    BY <2>1, <2>6 DEF StartTick, Handle, Join, RunAlone, busVars
  <2>7. CASE \E d \in Devices : \E keep \in 0 .. Len(inbox[d]), lost \in BOOLEAN : Leave(d, keep, lost)
    BY <2>1, <2>7 DEF Leave, busVars
  <2>8. CASE (\E r \in replies : Resolve(r)) \/ AskAll \/ ChooseTargets \/ \E d \in Devices : AskNext(d)
    BY <2>1, <2>8, CoordinatorElsewhere DEF Elsewhere
  <2>9. ASSUME NEW op, NEW n, NEW doc, NEW resume, StartJob(op, n, doc, resume) PROVE FALSE
    BY <2>1, <2>9 DEF StartJob
  <2>10. ASSUME NEW go, Release(go) PROVE go /\ job' = NoJob
    BY <2>1, <2>10 DEF Release, Halting
  <2>11. CASE FinishSave
    <3>1. IsSave /\ Release(~job.wasPaused)
      BY <2>11 DEF FinishSave
    <3>2. ~job.wasPaused /\ job' = NoJob
      BY <2>10, <3>1
    <3> QED
      BY <3>1, <3>2 DEF Asked
  <2>12. CASE FinishRestore
    <3>1. IsRestore /\ Release(job.resume)
      BY <2>12 DEF FinishRestore
    <3>2. job.resume /\ job' = NoJob
      BY <2>10, <3>1
    <3> QED
      BY <3>1, <3>2 DEF Asked
  <2> QED
    BY <2>2, <2>3, <2>4, <2>5, <2>6, <2>7, <2>8, <2>9, <2>11, <2>12 DEF Next, Save, Restore, Coordinator
<1> QED
  BY <1>1, HaltAlways, PTL DEF Spec, RunsFreelyOnlyWhenAsked

-----------------------------------------------------------------------------
(* The parts of a snapshot and the states of the devices.                  *)

Whole(doc) == \A d \in doc.whole : d \in DOMAIN doc.parts /\ doc.parts[d] = doc.tick

FileInv ==
    /\ \A n \in Names : files[n] # Missing => Whole(files[n])
    /\ IsRestore => Whole(job.doc)

\* The identifiers in use are of jobs that have begun.
IdInv ==
    /\ job.op # "none" => job.id = jobs
    /\ \A r \in replies : r.id <= jobs
    /\ \A d \in Devices : \A i \in DOMAIN inbox[d] :
           inbox[d][i].type \in {"SAVE", "RESTORE"} => inbox[d][i].id <= jobs

Answered(d) == d \in DOMAIN job.got \/ \E r \in replies : r.device = d /\ r.id = job.id
Unasked(d)  == ~Answered(d) /\ Silent(inbox[d], job.id)

\* A device is asked once at most.
AskInv ==
    job.op # "none" => \A d \in Devices : job.at # "asking" \/ d \in job.todo => Unasked(d)

\* What the job asks of a device, and the tick this is to leave it at.
Demand(d) == IF IsSave THEN SaveMsg(job.id) ELSE RestoreMsg(job.id, job.doc.parts[d])
Aim(d)    == IF IsSave THEN tick ELSE job.doc.parts[d]
Has(d)    == IsSave \/ d \in DOMAIN job.doc.parts

Following(d) == ~IsRestore /\ d \in inStep => Ends(tick, state[d], inbox[d])

Clear(d)  == Clean(inbox[d], job.id, Demand(d)) /\ (Silent(inbox[d], job.id) \/ Has(d))
Due(d) == Answered(d) => Has(d)
Told(d)   ==
    d \in inStep \/ IsRestore =>
        /\ \A r \in replies : r.device = d /\ r.id = job.id => r.part = Aim(d)
        /\ d \in DOMAIN job.got => job.got[d] = Aim(d)
Reached(d) == d \in inStep /\ Answered(d) => Ends(Aim(d), state[d], inbox[d])

Answering(d) == Undisturbed => Clear(d) /\ Due(d) /\ Told(d) /\ Reached(d)

SliceInv ==
    FileInv /\ IdInv /\ AskInv /\ \A d \in Devices : Following(d) /\ Answering(d)

LEMMA SliceStart == Init => SliceInv
<1> SUFFICES ASSUME Init PROVE SliceInv
  OBVIOUS
<1>1. job.op = "none" /\ replies = {} /\ inStep = {} /\ \A d \in Devices : inbox[d] = <<>>
  BY NoJobFacts DEF Init
<1>2. \A d \in Devices : DOMAIN inbox[d] = {}
  BY <1>1, EmptyFacts
<1>3. FileInv /\ IdInv
  BY <1>1, <1>2 DEF Init, FileInv, IdInv, IsRestore
<1>4. AskInv /\ \A d \in Devices : Following(d) /\ Answering(d)
  BY <1>1 DEF AskInv, Following, Answering, Undisturbed
<1> QED
  BY <1>3, <1>4 DEF SliceInv

(* What pause(), resume() and WELCOME say changes nothing of all this.     *)
Aside(q, new) == new = q \/ \E p \in BOOLEAN : new = Append(q, PausedMsg(p))
Asides == \A d \in Devices : Aside(inbox[d], inbox'[d])

LEMMA AsideFacts ==
    ASSUME NEW q \in Seq(Message), NEW new, Aside(q, new)
    PROVE  /\ \A n, s : Ends(n, s, q) => Ends(n, s, new)
           /\ \A id : Silent(q, id) => Silent(new, id)
           /\ \A id, m : Clean(q, id, m) => Clean(new, id, m)
           /\ \A i \in DOMAIN new : new[i].type \in {"SAVE", "RESTORE"} => i \in DOMAIN q /\ new[i] = q[i]
<1>1. CASE new = q
  BY <1>1
<1>2. ASSUME NEW p \in BOOLEAN, new = Append(q, PausedMsg(p))
      PROVE  /\ \A n, s : Ends(n, s, q) => Ends(n, s, new)
             /\ \A id : Silent(q, id) => Silent(new, id)
             /\ \A id, m : Clean(q, id, m) => Clean(new, id, m)
             /\ \A i \in DOMAIN new :
                    new[i].type \in {"SAVE", "RESTORE"} => i \in DOMAIN q /\ new[i] = q[i]
  <2>1. PICK last_ \in Message : last_ = PausedMsg(p) /\ last_.type = "PAUSED"
    BY MessageCases
  <2>2. new = Append(q, last_) /\ last_.type \in Still
    BY <1>2, <2>1 DEF Still
  <2>3. /\ DOMAIN new = DOMAIN q \cup {Len(q) + 1} /\ Len(q) + 1 \notin DOMAIN q
        /\ new[Len(q) + 1] = last_
        /\ \A i \in DOMAIN q : new[i] = q[i]
    BY <2>2, AppendFacts
  <2>4. \A n, s : Ends(n, s, q) => Ends(n, s, new)
    BY <2>2, EndsSaved
  <2>5. \A i \in DOMAIN new : new[i].type \in {"SAVE", "RESTORE"} => i \in DOMAIN q /\ new[i] = q[i]
    BY <2>1, <2>3
  <2>6. \A id : \A i \in DOMAIN new : Of(new[i], id) => i \in DOMAIN q /\ new[i] = q[i]
    BY <2>5 DEF Of
  <2>7. \A i \in DOMAIN q : Quiet(q, i) => Quiet(new, i)
    BY <2>2, <2>3 DEF Quiet
  <2>8. \A id : Silent(q, id) => Silent(new, id)
    BY <2>6 DEF Silent
  <2>9. \A id, m : Clean(q, id, m) => Clean(new, id, m)
    BY <2>6, <2>7 DEF Clean
  <2> QED
    BY <2>4, <2>5, <2>8, <2>9
<1> QED
  BY <1>1, <1>2 DEF Aside

LEMMA AnnouncedAside ==
    ASSUME TypeInv, NEW p \in BOOLEAN, inbox' = Announced(p)
    PROVE  Asides
<1>1. \A d \in Devices : Announced(p)[d] \in {inbox[d], Append(inbox[d], PausedMsg(p))}
  BY AnnouncedTyped
<1> QED
  BY <1>1 DEF Asides, Aside

\* The same of the inbox of every device.
LEMMA AsidesFacts ==
    ASSUME TypeInv, Asides, NEW d \in Devices
    PROVE  /\ \A n, s : Ends(n, s, inbox[d]) => Ends(n, s, inbox'[d])
           /\ \A id : Silent(inbox[d], id) => Silent(inbox'[d], id)
           /\ \A id, m : Clean(inbox[d], id, m) => Clean(inbox'[d], id, m)
           /\ \A i \in DOMAIN inbox'[d] : inbox'[d][i].type \in {"SAVE", "RESTORE"} =>
                  i \in DOMAIN inbox[d] /\ inbox'[d][i] = inbox[d][i]
<1>1. inbox[d] \in Seq(Message) /\ Aside(inbox[d], inbox'[d])
  BY DEF TypeInv, Asides
<1> QED
  BY <1>1, AsideFacts

LEMMA AsideIds ==
    ASSUME TypeInv, SliceInv, Asides, replies' = replies, jobs' \in Nat, jobs' >= jobs,
           job'.op # "none" => job'.id = jobs'
    PROVE  IdInv'
<1>1. ASSUME NEW d \in Devices, NEW i \in DOMAIN inbox'[d], inbox'[d][i].type \in {"SAVE", "RESTORE"}
      PROVE  inbox'[d][i].id <= jobs'
  <2>1. i \in DOMAIN inbox[d] /\ inbox'[d][i] = inbox[d][i]
    BY <1>1, AsidesFacts
  <2>2. inbox[d][i] \in Message
    BY <2>1 DEF TypeInv
  <2>3. inbox[d][i].id \in Nat
    BY <1>1, <2>1, <2>2, MessageCases
  <2>4. inbox[d][i].id <= jobs /\ jobs \in Nat
    BY <1>1, <2>1 DEF SliceInv, IdInv, TypeInv
  <2> QED
    BY <2>1, <2>3, <2>4
<1>2. ASSUME NEW r \in replies PROVE r.id <= jobs'
  <2>1. r.id \in Nat /\ r.id <= jobs /\ jobs \in Nat
    BY DEF TypeInv, Reply, SliceInv, IdInv
  <2> QED
    BY <2>1
<1> QED
  BY <1>1, <1>2 DEF IdInv

\* The job goes on as it was, but for disturbed, asked and the steps of pause().
SameJob ==
    /\ job'.op = job.op
    /\ job.op # "none" =>
        /\ job'.id = job.id /\ job'.doc = job.doc /\ job'.got = job.got /\ job'.todo = job.todo
        /\ job.at = "asking" => job'.at = "asking"
        /\ job.disturbed => job'.disturbed

SameData == Asides /\ UNCHANGED <<tick, state, replies, inStep, files, jobs>>

LEMMA QuietStep == TypeInv /\ SliceInv /\ SameJob /\ SameData => SliceInv'
<1> SUFFICES ASSUME TypeInv, SliceInv, SameJob, SameData PROVE SliceInv'
  OBVIOUS
<1>0. Asides /\ UNCHANGED <<tick, state, replies, inStep, files, jobs>>
  BY DEF SameData
<1>1. (IsSave' <=> IsSave) /\ (IsRestore' <=> IsRestore) /\ (Undisturbed' => Undisturbed)
  BY DEF SameJob, IsSave, IsRestore, Undisturbed
<1>2. FileInv' /\ IdInv'
  <2>1. jobs' \in Nat /\ jobs' >= jobs /\ (job'.op # "none" => job'.id = jobs')
    BY <1>0 DEF TypeInv, SameJob, SliceInv, IdInv
  <2>2. IdInv'
    BY <1>0, <2>1, AsideIds
  <2>3. FileInv'
    BY <1>0, <1>1 DEF SliceInv, FileInv, SameJob, IsRestore
  <2> QED
    BY <2>2, <2>3
<1>3. ASSUME job.op # "none", NEW d \in Devices
      PROVE  /\ Answered(d)' <=> Answered(d)
             /\ Unasked(d) => Unasked(d)'
             /\ Demand(d)' = Demand(d) /\ Aim(d)' = Aim(d) /\ (Has(d)' <=> Has(d))
  <2>1. Answered(d)' <=> Answered(d)
    BY <1>0, <1>3 DEF SameJob, Answered
  <2>2. Silent(inbox[d], job.id) => Silent(inbox'[d], job.id)
    BY <1>0, AsidesFacts
  <2>3. Unasked(d) => Unasked(d)'
    BY <1>3, <2>1, <2>2 DEF SameJob, Unasked
  <2>4. Demand(d)' = Demand(d) /\ Aim(d)' = Aim(d) /\ (Has(d)' <=> Has(d))
    BY <1>0, <1>1, <1>3 DEF SameJob, Demand, Aim, Has
  <2> QED
    BY <2>1, <2>3, <2>4
<1>4. AskInv'
  BY <1>3 DEF SliceInv, AskInv, SameJob
<1>5. ASSUME NEW d \in Devices PROVE Following(d)'
  BY <1>0, <1>1, AsidesFacts DEF SliceInv, Following
<1>6. ASSUME NEW d \in Devices, Undisturbed' PROVE Answering(d)'
  <2>1. job.op # "none" /\ Answering(d) /\ Undisturbed
    BY <1>1, <1>6 DEF SliceInv, Undisturbed
  <2>2. job'.id = job.id /\ job'.got = job.got
    BY <2>1 DEF SameJob
  <2>3. Clear(d)'
    <3>1. /\ Clean(inbox[d], job.id, Demand(d)) => Clean(inbox'[d], job.id, Demand(d))
          /\ Silent(inbox[d], job.id) => Silent(inbox'[d], job.id)
      BY <1>0, AsidesFacts
    <3> QED
      BY <1>3, <2>1, <2>2, <3>1 DEF Answering, Clear
  <2>4. Reached(d)'
    BY <1>0, <1>3, <2>1, AsidesFacts DEF Answering, Reached
  <2> QED
    BY <1>0, <1>1, <1>3, <2>1, <2>2, <2>3, <2>4 DEF Answering, Due, Told
<1> QED
  BY <1>2, <1>4, <1>5, <1>6 DEF SliceInv, Answering

\* A tick starts only when no job is under way that is not disturbed.
LEMMA SliceTick == TypeInv /\ HaltInv /\ SliceInv /\ StartTick => SliceInv'
<1> SUFFICES ASSUME TypeInv, HaltInv, SliceInv, StartTick PROVE SliceInv'
  OBVIOUS
<1>1. ~Undisturbed' /\ UNCHANGED <<job, state, replies, files, jobs>>
  BY DEF StartTick, HaltInv, Undisturbed, storeVars, counters, deviceVars
<1>2. TickMsg(tick') \in Message /\ TickMsg(tick').type = "TICK" /\ Shows(TickMsg(tick')) = tick'
  <2>1. tick' \in Nat
    BY DEF StartTick, TypeInv
  <2> QED
    BY <2>1, MessageCases
<1>3. \A d \in Devices :
          /\ inbox[d] \in Seq(Message)
          /\ inbox'[d] = IF d \in registered THEN Append(inbox[d], TickMsg(tick')) ELSE inbox[d]
  <2>1. inbox' = Sent(registered, TickMsg(tick')) /\ inbox \in [Devices -> Seq(Message)]
    BY DEF StartTick, TypeInv
  <2> QED
    BY <1>2, <2>1, SentTyped
<1>4. FileInv'
  BY <1>1 DEF SliceInv, FileInv, IsRestore
<1>5. ASSUME NEW d \in Devices, NEW i \in DOMAIN inbox'[d]
      PROVE  inbox'[d][i].type = "TICK" \/ (i \in DOMAIN inbox[d] /\ inbox'[d][i] = inbox[d][i])
  <2>1. CASE inbox'[d] = inbox[d]
    BY <1>5, <2>1
  <2>2. CASE inbox'[d] = Append(inbox[d], TickMsg(tick'))
    <3>1. inbox[d] \in Seq(Message)
      BY <1>3
    <3>2. i = Len(inbox[d]) + 1 \/ i \in DOMAIN inbox[d]
      BY <1>2, <1>5, <2>2, <3>1, AppendFacts
    <3> QED
      BY <1>2, <2>2, <3>1, <3>2, AppendFacts
  <2> QED
    BY <1>3, <2>1, <2>2
<1>6. IdInv'
  BY <1>1, <1>5 DEF SliceInv, IdInv
<1>7. AskInv'
  <2>1. \A d \in Devices : Unasked(d) => Unasked(d)'
    BY <1>1, <1>5 DEF Unasked, Answered, Silent, Of
  <2> QED
    BY <1>1, <2>1 DEF SliceInv, AskInv
<1>8. ASSUME NEW d \in Devices, d \in inStep' PROVE Ends(tick', state'[d], inbox'[d])
  <2>1. d \in Devices /\ inbox'[d] = Append(inbox[d], TickMsg(tick'))
    BY <1>3, <1>8 DEF StartTick, TypeInv
  <2>2. inbox[d] \in Seq(Message) /\ TickMsg(tick').type \notin Still
    BY <1>2, <1>3, <2>1 DEF Still
  <2>3. Ends(Shows(TickMsg(tick')), state'[d], Append(inbox[d], TickMsg(tick')))
    BY <1>2, <2>2, EndsSet
  <2> QED
    BY <1>2, <2>1, <2>3
<1> QED
  BY <1>1, <1>4, <1>6, <1>7, <1>8 DEF SliceInv, Following, Answering

LEMMA SliceBegin ==
    ASSUME TypeInv, SliceInv, NEW op \in {"save", "restore"}, NEW n, NEW doc, NEW resume,
           StartJob(op, n, doc, resume), op = "restore" => Whole(doc)
    PROVE  SliceInv'
<1>1. /\ job'.op = op /\ job'.id = jobs + 1 /\ job'.got = NoParts /\ job'.doc = doc
      /\ job'.op # "none"
  BY DEF StartJob, NewJob
<1>2. /\ job.op = "none" /\ jobs \in Nat /\ jobs' = jobs + 1
      /\ UNCHANGED <<tick, state, replies, files, inStep>>
  BY NoJobFacts DEF StartJob, Begin, TypeInv, storeVars, deviceVars
<1>0. Asides
  BY AnnouncedAside DEF StartJob
<1>3. FileInv'
  BY <1>1, <1>2 DEF SliceInv, FileInv, IsRestore
<1>4. \A r \in replies : r.id \in Nat /\ r.id <= jobs
  BY DEF TypeInv, Reply, SliceInv, IdInv
<1>5. ASSUME NEW d \in Devices, NEW i \in DOMAIN inbox[d], inbox[d][i].type \in {"SAVE", "RESTORE"}
      PROVE  inbox[d][i].id \in Nat /\ inbox[d][i].id <= jobs
  <2>1. inbox[d][i] \in Message
    BY DEF TypeInv
  <2> QED
    BY <1>5, <2>1, MessageCases DEF SliceInv, IdInv
<1>6. IdInv'
  <2>1. jobs' \in Nat /\ jobs' >= jobs
    BY <1>2
  <2> QED
    BY <1>0, <1>1, <1>2, <2>1, AsideIds
<1>7. ASSUME NEW d \in Devices PROVE Unasked(d)'
  <2>1. d \notin DOMAIN job'.got
    BY <1>1 DEF NoParts
  <2>2. \A r \in replies' : r.id # job'.id
    BY <1>1, <1>2, <1>4
  <2>3. \A i \in DOMAIN inbox[d] : ~Of(inbox[d][i], jobs + 1)
    BY <1>2, <1>5 DEF Of
  <2>4. Silent(inbox'[d], jobs + 1)
    BY <1>0, <2>3, AsidesFacts DEF Silent
  <2> QED
    BY <1>1, <2>1, <2>2, <2>4 DEF Unasked, Answered
<1>8. AskInv'
  BY <1>7 DEF AskInv
<1>9. ASSUME NEW d \in Devices PROVE Following(d)' /\ Answering(d)'
  <2>1. Following(d)'
    <3>1. \A k, x : Ends(k, x, inbox[d]) => Ends(k, x, inbox'[d])
      BY <1>0, AsidesFacts
    <3> QED
      BY <1>1, <1>2, <3>1 DEF SliceInv, Following, IsRestore
  <2>2. ~Answered(d)' /\ Silent(inbox[d], job.id)'
    BY <1>7 DEF Unasked
  <2>3. Clean(inbox[d], job.id, Demand(d))'
    BY <2>2 DEF Silent, Clean
  <2> QED
    BY <2>1, <2>2, <2>3 DEF Answering, Answered, Clear, Due, Told, Reached
<1> QED
  BY <1>3, <1>6, <1>8, <1>9 DEF SliceInv

LEMMA SliceResolve ==
    ASSUME TypeInv, SliceInv, NEW r \in replies, Resolve(r)
    PROVE  SliceInv'
<1>1. /\ UNCHANGED <<tick, state, inbox, files, inStep, jobs>>
      /\ replies' = replies \ {r}
  BY DEF Resolve, CoordinatorFrame, storeVars, counters, deviceVars
<1>2. CASE ~(job.op # "none" /\ job.id = r.id /\ r.device \in job.asked)
  <2>1. job' = job
    BY <1>2 DEF Resolve
  <2>2. (IsSave' <=> IsSave) /\ (IsRestore' <=> IsRestore) /\ (Undisturbed' <=> Undisturbed)
    BY <2>1 DEF IsSave, IsRestore, Undisturbed
  <2>3. \A d \in Devices : Answered(d)' => Answered(d)
    BY <1>1, <2>1 DEF Answered
  <2>4. FileInv' /\ IdInv'
    BY <1>1, <2>1 DEF SliceInv, FileInv, IdInv, IsRestore
  <2>5. AskInv'
    BY <1>1, <2>1, <2>3 DEF SliceInv, AskInv, Unasked
  <2>6. ASSUME NEW d \in Devices PROVE Following(d)' /\ Answering(d)'
    <3>1. Following(d) /\ Answering(d)
      BY DEF SliceInv
    <3>2. Following(d)'
      BY <1>1, <2>2, <3>1 DEF Following
    <3>3. Demand(d)' = Demand(d) /\ Aim(d)' = Aim(d) /\ (Has(d)' <=> Has(d))
      BY <1>1, <2>1, <2>2 DEF Demand, Aim, Has
    <3>4. Answering(d)'
      BY <1>1, <2>1, <2>2, <2>3, <3>1, <3>3 DEF Answering, Clear, Due, Told, Reached
    <3> QED
      BY <3>2, <3>4
  <2> QED
    BY <2>4, <2>5, <2>6 DEF SliceInv
<1>3. CASE job.op # "none" /\ job.id = r.id /\ r.device \in job.asked
  <2>0. job \in Job /\ r \in Reply
    BY <1>3, JobFacts DEF TypeInv
  <2>1. job' = [job EXCEPT !.got = Given(job.got, r.device, r.part)]
    BY <1>3 DEF Resolve
  <2>2. /\ job'.op = job.op /\ job'.id = job.id /\ job'.doc = job.doc /\ job'.todo = job.todo
        /\ job'.at = job.at /\ job'.disturbed = job.disturbed
        /\ job'.got = Given(job.got, r.device, r.part)
    BY <2>0, <2>1 DEF Job
  <2>3. (IsSave' <=> IsSave) /\ (IsRestore' <=> IsRestore) /\ (Undisturbed' <=> Undisturbed)
    BY <2>2 DEF IsSave, IsRestore, Undisturbed
  <2>4. /\ DOMAIN job'.got = DOMAIN job.got \cup {r.device}
        /\ job'.got[r.device] = r.part
        /\ \A x \in DOMAIN job.got : x # r.device => job'.got[x] = job.got[x]
    <3> DEFINE got == Given(job.got, r.device, r.part)
    <3>2. /\ DOMAIN got = DOMAIN job.got \cup {r.device}
          /\ got[r.device] = r.part
          /\ \A x \in DOMAIN job.got : x # r.device => got[x] = job.got[x]
      BY DEF Given
    <3>3. job'.got = got
      BY <2>2
    <3> HIDE DEF got
    <3> QED
      BY <3>2, <3>3
  <2>5. \A d \in Devices : Answered(d)' => Answered(d)
    BY <1>1, <1>3, <2>2, <2>4 DEF Answered
  <2>6. FileInv' /\ IdInv'
    BY <1>1, <2>2, <2>3 DEF SliceInv, FileInv, IdInv
  <2>7. AskInv'
    BY <1>1, <2>2, <2>5 DEF SliceInv, AskInv, Unasked
  <2>8. ASSUME NEW d \in Devices PROVE Following(d)' /\ Answering(d)'
    <3>1. Following(d) /\ Answering(d)
      BY DEF SliceInv
    <3>2. Following(d)'
      BY <1>1, <2>3, <3>1 DEF Following
    <3>3. Demand(d)' = Demand(d) /\ Aim(d)' = Aim(d) /\ (Has(d)' <=> Has(d))
      BY <1>1, <2>2, <2>3 DEF Demand, Aim, Has
    <3>4. Undisturbed => Told(d)'
      BY <1>1, <1>3, <2>2, <2>3, <2>4, <3>1, <3>3 DEF Answering, Told
    <3>5. Answering(d)'
      BY <1>1, <2>2, <2>3, <2>5, <3>1, <3>3, <3>4 DEF Answering, Clear, Due, Reached
    <3> QED
      BY <3>2, <3>5
  <2> QED
    BY <2>6, <2>7, <2>8 DEF SliceInv
<1> QED
  BY <1>2, <1>3

\* What the coordinator sends goes to devices that have not been asked.
LEMMA SliceAsk ==
    ASSUME TypeInv, SliceInv, job \in Job, job'.op = job.op,
           NEW targets, NEW m \in Message,
           inbox' = Sent(targets, m), m.type \in {"SAVE", "RESTORE"}, m.id = job.id,
           \A d \in targets \cap Devices : Unasked(d) /\ Has(d) /\ m = Demand(d),
           IsSave => m.type = "SAVE",
           job'.id = job.id, job'.doc = job.doc, job'.got = job.got,
           job'.disturbed = job.disturbed,
           \A d \in Devices : (job'.at # "asking" \/ d \in job'.todo) =>
               (job.at # "asking" \/ d \in job.todo) /\ d \notin targets,
           UNCHANGED <<tick, state, replies, inStep, files, jobs>>
    PROVE  SliceInv'
<1>0. job.op \in {"save", "restore"} /\ job.id \in Nat
  BY DEF Job
<1>1. (IsSave' <=> IsSave) /\ (IsRestore' <=> IsRestore) /\ (Undisturbed' <=> Undisturbed)
  BY DEF IsSave, IsRestore, Undisturbed
<1>2. \A d \in Devices :
          inbox[d] \in Seq(Message) /\ inbox'[d] = IF d \in targets THEN Append(inbox[d], m) ELSE inbox[d]
  BY SentTyped DEF TypeInv
<1>3. FileInv'
  BY <1>1 DEF SliceInv, FileInv
<1>4. IdInv'
  <2>1. ASSUME NEW d \in Devices, NEW i \in DOMAIN inbox'[d], inbox'[d][i].type \in {"SAVE", "RESTORE"}
        PROVE  inbox'[d][i].id <= jobs
    <3>1. m.id <= jobs
      BY <1>0 DEF SliceInv, IdInv
    <3>2. \A j \in DOMAIN inbox[d] : inbox[d][j].type \in {"SAVE", "RESTORE"} => inbox[d][j].id <= jobs
      BY DEF SliceInv, IdInv
    <3>3. CASE d \notin targets
      BY <1>2, <2>1, <3>2, <3>3
    <3>4. CASE d \in targets
      <4>1. inbox'[d] = Append(inbox[d], m) /\ inbox[d] \in Seq(Message)
        BY <1>2, <3>4
      <4>2. i = Len(inbox[d]) + 1 \/ (i \in DOMAIN inbox[d] /\ inbox'[d][i] = inbox[d][i])
        BY <2>1, <4>1, AppendFacts
      <4> QED
        BY <2>1, <3>1, <3>2, <4>1, <4>2, AppendFacts
    <3> QED
      BY <3>3, <3>4
  <2> QED
    BY <1>0, <2>1 DEF SliceInv, IdInv
<1>5. \A d \in Devices : Answered(d)' <=> Answered(d)
  BY DEF Answered
<1>6. \A d \in Devices : Demand(d)' = Demand(d) /\ Aim(d)' = Aim(d) /\ (Has(d)' <=> Has(d))
  BY <1>1 DEF Demand, Aim, Has
<1>7. AskInv'
  BY <1>0, <1>2, <1>5 DEF SliceInv, AskInv, Unasked
<1>8. ASSUME NEW d \in Devices PROVE Following(d)'
  <2>1. CASE d \notin targets
    BY <1>1, <1>2, <1>8, <2>1 DEF SliceInv, Following
  <2>2. CASE d \in targets
    <3>1. IsRestore \/ m.type \in Still
      BY <1>0 DEF IsSave, IsRestore, Still
    <3> QED
      BY <1>1, <1>2, <1>8, <2>2, <3>1, EndsSaved DEF SliceInv, Following
  <2> QED
    BY <2>1, <2>2
<1>9. ASSUME NEW d \in Devices PROVE Answering(d)'
  <2>1. Answering(d) /\ Due(d)' = Due(d) /\ Told(d)' = Told(d)
    BY <1>1, <1>5, <1>6 DEF SliceInv, Due, Told
  <2>2. CASE d \notin targets
    BY <1>1, <1>2, <1>5, <1>6, <2>1, <2>2 DEF Answering, Clear, Due, Told, Reached
  <2>3. CASE d \in targets
    <3>1. ~Answered(d) /\ Silent(inbox[d], job.id) /\ Has(d) /\ m = Demand(d)
      BY <2>3 DEF Unasked
    <3>2. Clean(inbox'[d], job.id, m)
      BY <1>2, <2>3, <3>1, CleanAppend
    <3>3. ~Answered(d)'
      BY <1>5, <3>1
    <3>4. Clean(inbox[d], job.id, Demand(d))'
      BY <1>6, <3>1, <3>2
    <3>5. Has(d)'
      BY <1>6, <3>1
    <3>6. Clear(d)'
      BY <3>4, <3>5 DEF Clear
    <3>7. Due(d)' /\ Reached(d)'
      BY <3>3 DEF Due, Reached
    <3> QED
      BY <1>1, <2>1, <3>6, <3>7 DEF Answering
  <2> QED
    BY <2>2, <2>3
<1> QED
  BY <1>3, <1>4, <1>7, <1>8, <1>9 DEF SliceInv

LEMMA SliceCoordinator ==
    ASSUME TypeInv, SliceInv, AskAll \/ ChooseTargets \/ \E d \in Devices : AskNext(d)
    PROVE  SliceInv'
<1>0. job \in Job
  <2>1. IsSave \/ IsRestore
    BY Zenon DEF AskAll, ChooseTargets, AskNext
  <2> QED
    BY <2>1, JobFacts DEF IsSave, IsRestore, TypeInv
<1>1. /\ job'.op = job.op /\ job'.id = job.id /\ job'.doc = job.doc /\ job'.got = job.got
      /\ job'.disturbed = job.disturbed /\ job'.at = "asking"
      /\ UNCHANGED <<tick, state, replies, inStep, files, jobs>>
  <2> DEFINE Same == /\ job'.op = job.op /\ job'.id = job.id /\ job'.doc = job.doc /\ job'.got = job.got
                     /\ job'.disturbed = job.disturbed /\ job'.at = "asking"
             Rest == UNCHANGED <<tick, state, replies, inStep, files, jobs>>
  <2>1. ASSUME AskAll PROVE Same /\ Rest
    <3>1. Same
      BY <1>0, <2>1 DEF AskAll, Job
    <3>2. Rest
      BY <2>1 DEF AskAll, CoordinatorFrame, storeVars, counters, deviceVars
    <3> QED
      BY <3>1, <3>2
  <2>2. ASSUME ChooseTargets PROVE Same /\ Rest
    <3>1. Same
      BY <1>0, <2>2 DEF ChooseTargets, Job
    <3>2. Rest
      BY <2>2 DEF ChooseTargets, CoordinatorFrame, storeVars, counters, deviceVars
    <3> QED
      BY <3>1, <3>2
  <2>3. ASSUME NEW d \in Devices, AskNext(d) PROVE Same /\ Rest
    <3>1. job' = [job EXCEPT !.todo = @ \ {d}, !.asked = {d} \cap registered] /\ job.at = "asking"
      BY <2>3, Zenon DEF AskNext
    <3>2. Same
      BY <1>0, <3>1 DEF Job
    <3>3. Rest
      <4>1. CoordinatorFrame /\ UNCHANGED <<tick, paused, budget, replies, storeVars, inStep>>
        BY <2>3, Zenon DEF AskNext
      <4> QED
        BY <4>1 DEF CoordinatorFrame, storeVars, counters, deviceVars
    <3> QED
      BY <3>2, <3>3
  <2> QED
    BY <2>1, <2>2, <2>3
<1>2. CASE AskAll
  <2>1. IsSave /\ job.at = "ready" /\ job'.todo = {} /\ inbox' = Sent(registered, SaveMsg(job.id))
    BY <1>0, <1>2 DEF AskAll, TypeInv, Job
  <2>2. SaveMsg(job.id) \in Message /\ SaveMsg(job.id).type = "SAVE" /\ SaveMsg(job.id).id = job.id
    BY <1>0, MessageCases DEF Job
  <2>3. \A d \in Devices : Unasked(d) /\ Has(d) /\ SaveMsg(job.id) = Demand(d)
    BY <2>1 DEF SliceInv, AskInv, Has, Demand, IsSave
  <2> QED
    BY <1>0, <1>1, <2>1, <2>2, <2>3, SliceAsk
<1>3. CASE ChooseTargets
  <2>1. job.at = "ready" /\ inbox' = inbox /\ job.op # "none"
    BY <1>3 DEF ChooseTargets, IsRestore
  <2> HIDE DEF ChooseTargets
  <2>2. \A d \in Devices : Unasked(d)'
    BY <1>1, <2>1 DEF SliceInv, AskInv, Unasked, Answered
  <2>3. (IsSave' <=> IsSave) /\ (IsRestore' <=> IsRestore) /\ (Undisturbed' <=> Undisturbed)
    BY <1>1 DEF IsSave, IsRestore, Undisturbed
  <2>4. FileInv' /\ IdInv' /\ AskInv'
    BY <1>1, <2>1, <2>2, <2>3 DEF SliceInv, FileInv, IdInv, AskInv
  <2>5. ASSUME NEW d \in Devices PROVE Following(d)' /\ Answering(d)'
    <3>1. Following(d)'
      BY <1>1, <2>1, <2>3, <2>5 DEF SliceInv, Following
    <3>2. Clean(inbox[d], job.id, Demand(d))' /\ Silent(inbox[d], job.id)'
      BY <2>2, <2>5 DEF Unasked, Silent, Clean
    <3>3. ~Answered(d)'
      BY <2>2, <2>5 DEF Unasked
    <3> QED
      BY <3>1, <3>2, <3>3 DEF Answering, Clear, Due, Told, Reached, Answered
  <2> QED
    BY <2>4, <2>5 DEF SliceInv
<1>4. ASSUME NEW d \in Devices, AskNext(d) PROVE SliceInv'
  <2> DEFINE m == RestoreMsg(job.id, job.doc.parts[d])
  <2>6. /\ IsRestore /\ job.at = "asking" /\ d \in job.todo
        /\ job' = [job EXCEPT !.todo = @ \ {d}, !.asked = {d} \cap registered]
        /\ inbox' = Sent({d} \cap registered, m)
    BY <1>4, Zenon DEF AskNext
  <2>7. job'.todo = job.todo \ {d}
    BY <1>0, <2>6 DEF Job
  <2>1. /\ IsRestore /\ job.at = "asking" /\ d \in job.todo /\ job'.todo = job.todo \ {d}
        /\ inbox' = Sent({d} \cap registered, m)
    BY <2>6, <2>7
  <2>2. job.doc \in Document /\ d \in DOMAIN job.doc.parts
    BY <2>1 DEF TypeInv
  <2>3. job.doc.parts[d] \in Part
    BY <2>2 DEF Document, Parts
  <2>4. m \in Message /\ m.type = "RESTORE" /\ m.id = job.id
    BY <1>0, <2>3, MessageCases DEF Job
  <2>5. Unasked(d) /\ Has(d) /\ m = Demand(d) /\ ~IsSave
    BY <2>1, <2>2 DEF SliceInv, AskInv, Has, Demand, IsSave, IsRestore
  <2> HIDE DEF m
  <2> QED
    BY <1>0, <1>1, <2>1, <2>4, <2>5, SliceAsk
<1> QED
  BY <1>2, <1>3, <1>4

LEMMA ReleaseAside ==
    ASSUME TypeInv, NEW go, Release(go)
    PROVE  Asides
<1>1. paused' \in BOOLEAN /\ inbox' = Announced(paused')
  BY DEF Release, TypeInv
<1> QED
  BY <1>1, AnnouncedAside

\* The parts of the devices in step are of the tick that goes with them.
LEMMA SliceSaved == TypeInv /\ SliceInv /\ FinishSave => SliceInv'
<1> SUFFICES ASSUME TypeInv, SliceInv, FinishSave PROVE SliceInv'
  OBVIOUS
<1>0. job \in Job /\ IsSave /\ job.op # "none"
  BY JobFacts DEF FinishSave, IsSave, TypeInv
<1>1. job' = NoJob /\ job'.op = "none" /\ ~IsRestore'
  BY NoJobFacts DEF FinishSave, Release, IsRestore
<1>2. Asides /\ UNCHANGED <<tick, state, replies, inStep, jobs>>
  <2>1. UNCHANGED <<tick, state, replies, inStep, jobs>>
    BY DEF FinishSave, CoordinatorFrame, counters, deviceVars
  <2>2. Release(~job.wasPaused)
    BY DEF FinishSave
  <2>3. ASSUME NEW go, Release(go) PROVE Asides
    BY <2>3, ReleaseAside
  <2> QED
    BY <2>1, <2>2, <2>3
<1> DEFINE missing == job.asked \ DOMAIN job.got
           whole   == IF job.disturbed THEN {} ELSE inStep \cap DOMAIN job.got
           doc     == [tick |-> tick, parts |-> job.got, complete |-> missing = {}, whole |-> whole]
<1>3. files' = [files EXCEPT ![job.name] = doc]
  BY DEF FinishSave
<1>4. Whole(doc)
  <2>1. ASSUME NEW d \in whole PROVE d \in DOMAIN job.got /\ job.got[d] = tick
    <3>1. d \in Devices /\ d \in inStep /\ d \in DOMAIN job.got /\ Undisturbed
      BY <1>0, <2>1 DEF TypeInv, Undisturbed
    <3>2. Told(d)
      BY <3>1 DEF SliceInv, Answering
    <3> QED
      BY <1>0, <3>1, <3>2 DEF Told, Aim
  <2> HIDE DEF whole, missing
  <2> QED
    BY <2>1 DEF Whole, doc
<1>5. FileInv'
  <2> HIDE DEF doc
  <2>1. \A n \in Names : files'[n] = files[n] \/ files'[n] = doc
    BY <1>3 DEF TypeInv
  <2> QED
    BY <1>1, <1>4, <2>1 DEF SliceInv, FileInv
<1>6. IdInv' /\ AskInv'
  <2>1. jobs' \in Nat /\ jobs' >= jobs
    BY <1>2 DEF TypeInv
  <2> QED
    BY <1>1, <1>2, <2>1, AsideIds DEF AskInv
<1>7. ASSUME NEW d \in Devices PROVE Following(d)' /\ Answering(d)'
  <2>1. ~IsRestore
    BY <1>0 DEF IsSave, IsRestore
  <2>2. \A n, x : Ends(n, x, inbox[d]) => Ends(n, x, inbox'[d])
    BY <1>2, AsidesFacts
  <2> QED
    BY <1>1, <1>2, <2>1, <2>2 DEF SliceInv, Following, Answering, Undisturbed
<1> QED
  BY <1>5, <1>6, <1>7 DEF SliceInv

LEMMA SliceRestored == TypeInv /\ SliceInv /\ FinishRestore => SliceInv'
<1> SUFFICES ASSUME TypeInv, SliceInv, FinishRestore PROVE SliceInv'
  OBVIOUS
<1>0. job \in Job /\ IsRestore /\ ~IsSave /\ job.op # "none"
  BY JobFacts DEF FinishRestore, IsRestore, IsSave, TypeInv
<1>1. job' = NoJob /\ job'.op = "none" /\ ~IsRestore'
  BY NoJobFacts DEF FinishRestore, Release, IsRestore
<1>2. Asides /\ UNCHANGED <<state, replies, files, jobs>> /\ tick' = job.doc.tick
  <2>1. UNCHANGED <<state, replies, files, jobs>> /\ tick' = job.doc.tick
    BY DEF FinishRestore, CoordinatorFrame, counters, storeVars, deviceVars
  <2>2. Release(job.resume)
    BY DEF FinishRestore
  <2>3. ASSUME NEW go, Release(go) PROVE Asides
    BY <2>3, ReleaseAside
  <2> QED
    BY <2>1, <2>2, <2>3
<1>3. FileInv' /\ IdInv' /\ AskInv'
  <2>1. jobs' \in Nat /\ jobs' >= jobs
    BY <1>2 DEF TypeInv
  <2>2. IdInv'
    BY <1>1, <1>2, <2>1, AsideIds
  <2> QED
    BY <1>1, <1>2, <2>2 DEF SliceInv, FileInv, AskInv
<1>4. ASSUME NEW d \in Devices, d \in inStep' PROVE Ends(tick', state'[d], inbox'[d])
  <2>1. d \in inStep /\ d \in DOMAIN job.got /\ d \in job.doc.whole /\ Undisturbed
    BY <1>0, <1>4 DEF FinishRestore, Undisturbed
  <2>2. Reached(d) /\ Answered(d)
    BY <2>1 DEF SliceInv, Answering, Answered
  <2>3. Ends(job.doc.parts[d], state[d], inbox[d])
    BY <1>0, <2>1, <2>2 DEF Reached, Aim
  <2>4. job.doc.parts[d] = job.doc.tick
    BY <1>0, <2>1 DEF SliceInv, FileInv, Whole
  <2>5. \A n, x : Ends(n, x, inbox[d]) => Ends(n, x, inbox'[d])
    BY <1>2, <1>4, AsidesFacts DEF TypeInv
  <2> QED
    BY <1>2, <2>3, <2>4, <2>5
<1> QED
  BY <1>1, <1>3, <1>4 DEF SliceInv, Following, Answering, Undisturbed

-----------------------------------------------------------------------------
(* What the devices do.                                                    *)

\* A step of the device d alone.
DeviceStep(d) ==
    /\ UNCHANGED <<tick, job, files, jobs>>
    /\ inbox' \in [Devices -> Seq(Message)]
    /\ \A x \in Devices \ {d} :
           /\ inbox'[x] = inbox[x] /\ state'[x] = state[x] /\ (x \in inStep' <=> x \in inStep)
           /\ \A r \in replies' : r.device = x => r \in replies

\* The other devices take no notice.
LEMMA OthersFollow ==
    ASSUME TypeInv, SliceInv, NEW d \in Devices, DeviceStep(d), NEW x \in Devices \ {d}
    PROVE  Following(x)' /\ Answering(x)' /\ (Unasked(x) => Unasked(x)')
<1>1. /\ UNCHANGED <<tick, job>> /\ inbox'[x] = inbox[x] /\ state'[x] = state[x]
      /\ x \in inStep' <=> x \in inStep
      /\ \A r \in replies' : r.device = x => r \in replies
  BY DEF DeviceStep
<1>2. Following(x) /\ Answering(x)
  BY DEF SliceInv
<1>3. Answered(x)' => Answered(x)
  BY <1>1 DEF Answered
<1>4. /\ (IsSave' <=> IsSave) /\ (IsRestore' <=> IsRestore) /\ (Undisturbed' <=> Undisturbed)
      /\ Demand(x)' = Demand(x) /\ Aim(x)' = Aim(x) /\ (Has(x)' <=> Has(x))
  BY <1>1 DEF IsSave, IsRestore, Undisturbed, Demand, Aim, Has
<1>5. Following(x)'
  BY <1>1, <1>2, <1>4 DEF Following
<1>6. Told(x) => Told(x)'
  BY <1>1, <1>4 DEF Told
<1>7. Answering(x)'
  BY <1>1, <1>2, <1>3, <1>4, <1>6 DEF Answering, Clear, Due, Reached
<1> QED
  BY <1>1, <1>3, <1>5, <1>7 DEF Unasked

LEMMA DeviceKeeps ==
    ASSUME TypeInv, SliceInv, NEW d \in Devices, DeviceStep(d),
           Following(d)', Answering(d)', Unasked(d) => Unasked(d)',
           \A r \in replies' : r.device = d => r.id <= jobs,
           \A i \in DOMAIN inbox'[d] : inbox'[d][i].type \in {"SAVE", "RESTORE"} => inbox'[d][i].id <= jobs,
           \A r \in replies' : r.device \in Devices
    PROVE  SliceInv'
<1>1. UNCHANGED <<tick, job, files, jobs>>
  BY DEF DeviceStep
<1>2. FileInv'
  BY <1>1 DEF SliceInv, FileInv, IsRestore
<1>3. \A r \in replies' : r.id <= jobs
  BY DEF DeviceStep, SliceInv, IdInv
<1>4. \A x \in Devices : \A i \in DOMAIN inbox'[x] : inbox'[x][i].type \in {"SAVE", "RESTORE"} => inbox'[x][i].id <= jobs
  BY DEF DeviceStep, SliceInv, IdInv
<1>5. IdInv'
  BY <1>1, <1>3, <1>4 DEF SliceInv, IdInv
<1>6. \A x \in Devices : Following(x)' /\ Answering(x)' /\ (Unasked(x) => Unasked(x)')
  BY OthersFollow
<1>7. AskInv'
  BY <1>1, <1>6 DEF SliceInv, AskInv
<1> QED
  BY <1>2, <1>5, <1>6, <1>7 DEF SliceInv

\* The state of a device with a TICK or a RESTORE under way is of no account.
LEMMA EndsPending ==
    ASSUME NEW q, NEW n, NEW s, NEW t, Ends(n, s, q), \E i \in DOMAIN q : q[i].type \notin Still
    PROVE  Ends(n, t, q)
BY DEF Ends

LEMMA SliceAlone ==
    ASSUME TypeInv, SliceInv, NEW d \in Devices, RunAlone(d)
    PROVE  SliceInv'
<1>1. /\ UNCHANGED <<tick, job, files, jobs, inbox, replies>>
      /\ \A x \in Devices \ {d} : state'[x] = state[x] /\ (x \in inStep' <=> x \in inStep)
  BY DEF RunAlone, busVars, storeVars, counters, TypeInv
<1>2. d \in inStep' => d \in inStep /\ \E i \in DOMAIN inbox[d] : inbox[d][i].type \notin Still
  <2>1. inStep' = IF \E i \in DOMAIN inbox[d] : inbox[d][i].type \in {"TICK", "RESTORE"}
                  THEN inStep ELSE inStep \ {d}
    BY DEF RunAlone
  <2> QED
    BY <2>1 DEF Still
<1>3. DeviceStep(d)
  BY <1>1 DEF DeviceStep, TypeInv
<1>4. d \in inStep' => \A n : Ends(n, state[d], inbox[d]) => Ends(n, state'[d], inbox[d])
  BY <1>2, EndsPending
<1>5. (IsSave' <=> IsSave) /\ (IsRestore' <=> IsRestore) /\ (Undisturbed' <=> Undisturbed)
  BY <1>1 DEF IsSave, IsRestore, Undisturbed
<1>6. Following(d)'
  BY <1>1, <1>2, <1>4, <1>5 DEF SliceInv, Following
<1>7. Unasked(d) => Unasked(d)'
  BY <1>1 DEF Unasked, Answered
<1>8. Answering(d)'
  <2> SUFFICES ASSUME Undisturbed PROVE Clear(d)' /\ Due(d)' /\ Told(d)' /\ Reached(d)'
    BY <1>5 DEF Answering
  <2>1. Clear(d) /\ Due(d) /\ Told(d) /\ Reached(d)
    BY DEF SliceInv, Answering
  <2>2. /\ Answered(d)' <=> Answered(d)
        /\ Demand(d)' = Demand(d) /\ Aim(d)' = Aim(d) /\ (Has(d)' <=> Has(d))
    BY <1>1, <1>5 DEF Answered, Demand, Aim, Has
  <2>3. Clear(d)' /\ Due(d)'
    BY <1>1, <2>1, <2>2 DEF Clear, Due
  <2>4. Told(d)'
    BY <1>1, <1>2, <1>5, <2>1, <2>2 DEF Told
  <2>5. Reached(d)'
    BY <1>1, <1>2, <1>4, <2>1, <2>2 DEF Reached
  <2> QED
    BY <2>3, <2>4, <2>5
<1> QED
  BY <1>1, <1>3, <1>6, <1>7, <1>8, DeviceKeeps DEF TypeInv, Reply, SliceInv, IdInv

LEMMA SliceLeave ==
    ASSUME TypeInv, SliceInv, NEW d \in Devices, NEW keep \in 0 .. Len(inbox[d]), NEW lost,
           Leave(d, keep, lost)
    PROVE  SliceInv'
<1>1. /\ UNCHANGED <<tick, job, files, jobs, state>> /\ replies' \subseteq replies
      /\ inStep' = inStep \ {d} /\ inbox' = [inbox EXCEPT ![d] = SubSeq(@, 1, keep)]
  BY DEF Leave, busVars, storeVars, deviceVars
<1>2. inbox[d] \in Seq(Message) /\ inbox'[d] = SubSeq(inbox[d], 1, keep)
  BY <1>1 DEF TypeInv
<1>3. \A i \in DOMAIN inbox'[d] : i \in DOMAIN inbox[d] /\ inbox'[d][i] = inbox[d][i]
  BY <1>2, CutFacts
<1>4. DeviceStep(d)
  <2>1. inbox' \in [Devices -> Seq(Message)]
    BY <1>1, <1>2, CutFacts DEF TypeInv
  <2> QED
    BY <1>1, <2>1 DEF DeviceStep, TypeInv
<1>5. Answered(d)' => Answered(d)
  BY <1>1 DEF Answered
<1>6. Following(d)' /\ (Unasked(d) => Unasked(d)')
  BY <1>1, <1>3, <1>5 DEF Following, Unasked, Silent
<1>7. Answering(d)'
  <2>1. Answering(d)
    BY DEF SliceInv
  <2>2. /\ (Undisturbed' <=> Undisturbed) /\ Demand(d)' = Demand(d) /\ Aim(d)' = Aim(d)
        /\ (Has(d)' <=> Has(d)) /\ (IsRestore' <=> IsRestore) /\ d \notin inStep'
    BY <1>1 DEF Undisturbed, Demand, Aim, Has, IsSave, IsRestore
  <2>3. Clean(inbox[d], job.id, Demand(d)) => Clean(inbox'[d], job.id, Demand(d))
    BY <1>2, CutFacts, CleanCut
  <2>4. Silent(inbox[d], job.id) => Silent(inbox'[d], job.id)
    BY <1>3 DEF Silent
  <2>5. Clear(d) => Clear(d)'
    BY <1>1, <2>2, <2>3, <2>4 DEF Clear
  <2>6. Told(d) => Told(d)'
    BY <1>1, <2>2 DEF Told
  <2> QED
    BY <1>5, <2>1, <2>2, <2>5, <2>6 DEF Answering, Due, Reached
<1> QED
  BY <1>1, <1>3, <1>4, <1>6, <1>7, DeviceKeeps DEF TypeInv, Reply, SliceInv, IdInv

LEMMA SliceHandle ==
    ASSUME TypeInv, SliceInv, NEW d \in Devices, Handle(d)
    PROVE  SliceInv'
<1> DEFINE q == inbox[d]
           h == Head(q)
           answer(n) == [device |-> d, id |-> h.id, part |-> n]
<1>1. /\ UNCHANGED <<tick, job, files, jobs, registered>>
      /\ inbox' = [inbox EXCEPT ![d] = Tail(@)] /\ q # <<>>
  BY DEF Handle, busVars, storeVars, counters, deviceVars
<1>2. q \in Seq(Message) /\ inbox'[d] = Tail(q) /\ Tail(q) \in Seq(Message) /\ h \in Message
  BY <1>1, TailFacts DEF TypeInv
<1>3. 1 \in DOMAIN q /\ h = q[1] /\ \A i \in DOMAIN Tail(q) : i + 1 \in DOMAIN q /\ Tail(q)[i] = q[i + 1]
  BY <1>1, <1>2, TailFacts
<1>4. h.type \in {"TICK", "SAVE", "RESTORE", "PAUSED"} /\ state[d] \in Part
  BY <1>2, MessageCases DEF TypeInv
\* The kinds of message.
<1>5. ASSUME h.type = "TICK"
      PROVE  state' = [state EXCEPT ![d] = Shows(h)] /\ UNCHANGED <<replies, inStep>>
  BY <1>5 DEF Handle, Shows
<1>6. ASSUME h.type = "SAVE"
      PROVE  /\ state' = state /\ inStep' = inStep
             /\ replies' = IF d \in registered THEN replies \cup {answer(state[d])} ELSE replies
  BY <1>6 DEF Handle, deviceVars
<1>7. ASSUME h.type = "RESTORE"
      PROVE  /\ state' = [state EXCEPT ![d] = Shows(h)]
             /\ replies' = IF d \in registered THEN replies \cup {answer(h.part)} ELSE replies
             /\ inStep' = IF IsRestore /\ h.id = job.id THEN inStep \cup ({d} \cap registered) ELSE inStep
  BY <1>7 DEF Handle, Shows
<1>22. ASSUME h.type = "PAUSED" PROVE UNCHANGED <<state, replies, inStep>>
  BY <1>22 DEF Handle
<1> HIDE DEF q, h, answer
<1>8. state'[d] = After(h, state[d])
  BY <1>4, <1>5, <1>6, <1>7, <1>22 DEF After, Still, TypeInv
<1>9. \A x \in Devices \ {d} : state'[x] = state[x] /\ (x \in inStep' <=> x \in inStep)
  BY <1>4, <1>5, <1>6, <1>7, <1>22 DEF TypeInv
<1>10. \A r \in replies' : r \in replies \/
          (/\ r.device = d /\ r.id = h.id /\ h.type \in {"SAVE", "RESTORE"} /\ d \in registered
           /\ r.part = IF h.type = "SAVE" THEN state[d] ELSE Shows(h))
  BY <1>4, <1>5, <1>6, <1>7, <1>22 DEF answer, Shows
<1>11. DeviceStep(d)
  <2>1. inbox' \in [Devices -> Seq(Message)] /\ \A x \in Devices \ {d} : inbox'[x] = inbox[x]
    BY <1>1, <1>2 DEF TypeInv, q
  <2>2. \A x \in Devices \ {d} : \A r \in replies' : r.device = x => r \in replies
    BY <1>10
  <2> QED
    BY <1>1, <1>9, <2>1, <2>2 DEF DeviceStep
<1>12. ASSUME h.type \in {"SAVE", "RESTORE"} PROVE h.id <= jobs
  BY <1>3, <1>12 DEF SliceInv, IdInv, q
<1>13. \A r \in replies' : r.device = d => r.id <= jobs
  BY <1>10, <1>12 DEF SliceInv, IdInv
<1>14. \A i \in DOMAIN inbox'[d] : inbox'[d][i].type \in {"SAVE", "RESTORE"} => inbox'[d][i].id <= jobs
  BY <1>2, <1>3 DEF SliceInv, IdInv, q
<1>15. \A r \in replies' : r.device \in Devices
  BY <1>10 DEF TypeInv, Reply
<1>16. Unasked(d) => Unasked(d)'
  <2> SUFFICES ASSUME Unasked(d) PROVE Unasked(d)'
    OBVIOUS
  <2>1. ~Of(h, job.id) /\ Silent(Tail(q), job.id)
    BY <1>1, <1>2, <1>3, SilentTail DEF Unasked, Silent, q
  <2>2. ~Answered(d)'
    BY <1>1, <1>10, <2>1 DEF Unasked, Answered, Of
  <2> QED
    BY <1>1, <1>2, <2>1, <2>2 DEF Unasked
<1>17. (IsSave' <=> IsSave) /\ (IsRestore' <=> IsRestore) /\ (Undisturbed' <=> Undisturbed)
  BY <1>1 DEF IsSave, IsRestore, Undisturbed
<1>18. ~IsRestore => (d \in inStep' <=> d \in inStep)
  BY <1>4, <1>5, <1>6, <1>7, <1>22
<1>19. Following(d)'
  <2> SUFFICES ASSUME ~IsRestore, d \in inStep PROVE Ends(tick, state'[d], Tail(q))
    BY <1>1, <1>2, <1>17, <1>18 DEF Following
  <2>1. Ends(tick, state[d], q)
    BY DEF SliceInv, Following, q
  <2> QED
    BY <1>1, <1>2, <1>8, <2>1, EndsTail DEF h
<1>20. ASSUME Undisturbed PROVE Clear(d)' /\ Due(d)' /\ Told(d)' /\ Reached(d)'
  <2>1. Clear(d) /\ Due(d) /\ Told(d) /\ Reached(d)
    BY <1>20 DEF SliceInv, Answering
  <2>2. Demand(d)' = Demand(d) /\ Aim(d)' = Aim(d) /\ (Has(d)' <=> Has(d))
    BY <1>1, <1>17 DEF Demand, Aim, Has
  <2>3. Clear(d)'
    <3>1. Clean(Tail(q), job.id, Demand(d))
      BY <1>1, <1>2, <2>1, CleanTail DEF Clear, q
    <3>2. Silent(q, job.id) => Silent(Tail(q), job.id)
      BY <1>1, <1>2, SilentTail
    <3> QED
      BY <1>1, <1>2, <2>1, <2>2, <3>1, <3>2 DEF Clear, q
  <2>4. ASSUME Of(h, job.id)
        PROVE  h = Demand(d) /\ Quiet(q, 1) /\ Has(d)
    BY <1>3, <2>1, <2>4 DEF Clear, Clean, Silent, q
  <2>5. Answered(d)' => Answered(d) \/ Of(h, job.id)
    BY <1>1, <1>10 DEF Answered, Of
  <2>6. Due(d)'
    BY <2>1, <2>2, <2>4, <2>5 DEF Due
  <2>7. job.op \in {"save", "restore"} /\ job.id \in Nat
    BY <1>20, JobFacts DEF Undisturbed, TypeInv, Job
  <2>8. ASSUME Of(h, job.id), IsRestore PROVE h.type = "RESTORE" /\ Shows(h) = Aim(d)
    BY <2>4, <2>8 DEF Demand, Aim, RestoreMsg, Shows, IsSave, IsRestore
  <2>9. ASSUME Of(h, job.id), IsSave PROVE h.type = "SAVE"
    BY <2>4, <2>9 DEF Demand, SaveMsg
  <2>10. ASSUME Of(h, job.id), IsSave, d \in inStep PROVE state[d] = Aim(d)
    <3>1. Ends(tick, state[d], q)
      BY <2>10 DEF SliceInv, Following, IsSave, IsRestore, q
    <3> QED
      BY <1>1, <1>2, <2>4, <2>9, <2>10, <3>1, EndsQuiet DEF Aim, Still, h
  <2>11. d \in inStep' => d \in inStep \/ (IsRestore /\ Of(h, job.id))
    BY <1>4, <1>5, <1>6, <1>7, <1>22 DEF Of
  <2>12. Told(d)'
    <3>1. IsSave \/ IsRestore
      BY <2>7 DEF IsSave, IsRestore
    <3>2. ASSUME d \in inStep \/ IsRestore, NEW r \in replies', r.device = d, r.id = job.id
          PROVE  r.part = Aim(d)
      <4>1. CASE r \in replies
        BY <2>1, <3>2, <4>1 DEF Told
      <4>2. CASE Of(h, job.id) /\ r.part = IF h.type = "SAVE" THEN state[d] ELSE Shows(h)
        <5>1. CASE IsRestore
          BY <2>8, <4>2, <5>1
        <5>2. CASE IsSave /\ d \in inStep
          BY <2>9, <2>10, <4>2, <5>2
        <5> QED
          BY <3>1, <3>2, <5>1, <5>2
      <4> QED
        BY <1>10, <3>2, <4>1, <4>2 DEF Of
    <3> QED
      BY <1>1, <1>17, <2>1, <2>2, <2>11, <3>2 DEF Told
  <2>13. ASSUME d \in inStep', Answered(d)' PROVE Ends(Aim(d), state'[d], Tail(q))
    <3>1. CASE Of(h, job.id) /\ IsRestore
      <4>1. h.type \notin Still /\ Shows(h) = Aim(d) /\ Quiet(q, 1)
        BY <2>4, <2>8, <3>1 DEF Still
      <4>2. Ends(Shows(h), After(h, state[d]), Tail(q))
        BY <1>1, <1>2, <4>1, EndsQuiet DEF h
      <4> QED
        BY <1>8, <4>1, <4>2
    <3>2. CASE Of(h, job.id) /\ IsSave
      <4>1. Ends(tick, state[d], q) /\ Aim(d) = tick
        BY <2>11, <2>13, <3>2 DEF SliceInv, Following, IsSave, IsRestore, q, Aim
      <4> QED
        BY <1>1, <1>2, <1>8, <4>1, EndsTail DEF h
    <3>3. CASE ~Of(h, job.id)
      <4>1. Ends(Aim(d), state[d], q)
        BY <2>1, <2>5, <2>11, <2>13, <3>3 DEF Reached, q
      <4> QED
        BY <1>1, <1>2, <1>8, <4>1, EndsTail DEF h
    <3> QED
      BY <2>7, <3>1, <3>2, <3>3 DEF IsSave, IsRestore
  <2>14. Reached(d)'
    BY <1>2, <2>2, <2>13 DEF Reached
  <2> QED
    BY <2>3, <2>6, <2>12, <2>14
<1>21. Answering(d)'
  BY <1>17, <1>20 DEF Answering
<1> QED
  BY <1>11, <1>13, <1>14, <1>15, <1>16, <1>19, <1>21, DeviceKeeps

-----------------------------------------------------------------------------
LEMMA SliceInductive == TypeInv /\ HaltInv /\ SliceInv /\ [Next]_vars => SliceInv'
<1> SUFFICES ASSUME TypeInv, HaltInv, SliceInv, [Next]_vars PROVE SliceInv'
  OBVIOUS
<1>0. job.op # "none" => job \in Job
  BY JobFacts DEF TypeInv
<1>1. CASE EndTick
  <2>1. paused' \in BOOLEAN
    BY TypeInductive DEF TypeInv
  <2>2. Asides
    BY <1>1, <2>1, AnnouncedAside DEF EndTick
  <2>3. SameJob
    BY <1>0, <1>1 DEF EndTick, Awake, SameJob, Job
  <2>4. SameData
    BY <1>1, <2>2 DEF EndTick, SameData, storeVars, counters, deviceVars
  <2> QED
    BY <2>3, <2>4, QuietStep
<1>2. ASSUME NEW kind, Request(kind) PROVE SliceInv'
  <2>1. (kind = "pause") \in BOOLEAN
    OBVIOUS
  <2>2. Asides
    BY <1>2, <2>1, AnnouncedAside DEF Request
  <2>3. SameJob
    BY <1>0, <1>2 DEF Request, SameJob, Job
  <2>4. SameData
    BY <1>2, <2>2 DEF Request, SameData, storeVars, deviceVars
  <2> QED
    BY <2>3, <2>4, QuietStep
<1>3. ASSUME NEW d \in Devices, Join(d) PROVE SliceInv'
  <2>1. \A x \in Devices : inbox'[x] = inbox[x] \/ inbox'[x] = Append(inbox[x], PausedMsg(paused))
    <3>1. PICK m \in Message : m = PausedMsg(paused)
      BY MessageCases DEF TypeInv
    <3>2. inbox' = Sent({d}, m) /\ inbox \in [Devices -> Seq(Message)]
      BY <1>3, <3>1 DEF Join, TypeInv
    <3>3. \A x \in Devices : inbox'[x] = IF x \in {d} THEN Append(inbox[x], m) ELSE inbox[x]
      BY <3>2, SentTyped
    <3> QED
      BY <3>1, <3>3
  <2>2. Asides
    BY <2>1 DEF Asides, Aside, TypeInv
  <2>3. SameJob
    BY <1>3 DEF Join, SameJob
  <2>4. SameData
    BY <1>3, <2>2 DEF Join, SameData, busVars, storeVars, counters, deviceVars
  <2> QED
    BY <2>3, <2>4, QuietStep
<1>4. CASE UNCHANGED vars
  <2>1. UNCHANGED <<tick, job, inbox, state, replies, inStep, files, jobs>>
    BY <1>4 DEF vars, busVars, storeVars, counters, deviceVars
  <2> QED
    BY <2>1, QuietStep DEF SameJob, SameData, Asides, Aside
<1>5. ASSUME NEW n \in Names, Save(n) PROVE SliceInv'
  BY <1>5, SliceBegin DEF Save
<1>6. ASSUME NEW n \in Names, NEW allowIncomplete, NEW resume, Restore(n, allowIncomplete, resume)
      PROVE  SliceInv'
  <2>1. Whole(files[n]) /\ StartJob("restore", n, files[n], resume)
    BY <1>6 DEF Restore, SliceInv, FileInv
  <2> QED
    BY <2>1, SliceBegin
<1>7. CASE Pause \/ Resume \/ \E n \in StepSizes : Step(n)
  BY <1>2, <1>7 DEF Pause, Resume, Step
<1>8. CASE Coordinator
  BY <1>8, SliceCoordinator, SliceSaved, SliceRestored DEF Coordinator
<1> QED
  BY <1>1, <1>3, <1>4, <1>5, <1>6, <1>7, <1>8, SliceTick, SliceResolve, SliceHandle, SliceAlone,
     SliceLeave DEF Next

LEMMA SliceAlways == Spec => [](TypeInv /\ SliceInv)
<1> QED
  BY TypeStart, TypeInductive, HaltStart, HaltInductive, SliceStart, SliceInductive, PTL DEF Spec

(***************************************************************************)
(* A snapshot is one slice of time: the parts of the devices that were in  *)
(* step when it was taken are of the tick the bus file says.               *)
(***************************************************************************)
THEOREM SnapshotsAreSlices == Spec => []WholeSlice
<1>1. TypeInv /\ SliceInv => WholeSlice
  BY DEF SliceInv, FileInv, Whole, WholeSlice
<1> QED
  BY <1>1, SliceAlways, PTL

(***************************************************************************)
(* A device in step with the bus is at the tick of the bus once it has     *)
(* read its messages, whatever was saved, restored, late or lost before.   *)
(***************************************************************************)
THEOREM PlantInStep == Spec => []LockStep
<1>1. TypeInv /\ SliceInv => LockStep
  <2> SUFFICES ASSUME TypeInv, SliceInv, ~IsRestore, NEW d \in inStep, inbox[d] = <<>>
               PROVE  state[d] = tick
    BY DEF LockStep
  <2>1. d \in Devices /\ DOMAIN inbox[d] = {}
    BY EmptyFacts DEF TypeInv
  <2>2. Ends(tick, state[d], inbox[d])
    BY <2>1 DEF SliceInv, Following
  <2> QED
    BY <2>1, <2>2 DEF Ends
<1> QED
  BY <1>1, SliceAlways, PTL

===============================================================================
