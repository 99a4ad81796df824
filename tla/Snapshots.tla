------------------------------- MODULE Snapshots -------------------------------
(***************************************************************************)
(* plant_bus/app/bus.py: the snapshot coordinator beside the tick loop and *)
(* the operator's requests, plant_bus/app/snapshot_store.py, and what the  *)
(* devices do with SNAPSHOT_SAVE and SNAPSHOT_RESTORE (base_device.py).    *)
(*                                                                         *)
(* The lock admits one save or restore at a time, but pause(), resume()    *)
(* and step() do not take it.  A device reads its messages in order; its   *)
(* state is abstracted to the number of the last tick it has run, or Own   *)
(* when it may have run on its own: without the bus, or with the bus when  *)
(* it hears no TICK for a while (a low speed, a tick loop that has died)   *)
(* and has not heard that the plant is paused.  Values, checksums and the  *)
(* automatic save's timer are left out.  Every peer reads what it is sent: *)
(* a drain() never blocks.                                                 *)
(***************************************************************************)
EXTENDS Integers, Sequences, FiniteSets

CONSTANTS
    Devices,
    Frail,         \* the devices whose connection may break
    Names,         \* names of snapshots
    NoName,
    StepSizes,     \* what an operator may ask of step()
    MaxTick,       \* bound on the ticks of the bus
    MaxRequests,   \* bound on pause, resume and step requests
    MaxJobs,       \* bound on saves and restores
    MaxLeaves      \* bound on connections that break

ASSUME SnapshotsAssumption ==
    /\ IsFiniteSet(Devices)
    /\ Frail \subseteq Devices
    /\ NoName \notin Names
    /\ StepSizes \subseteq Nat \ {0}
    /\ {MaxTick, MaxRequests, MaxJobs, MaxLeaves} \subseteq Nat

VARIABLES
    tick,
    paused,
    budget,        \* step_budget
    loop,          \* the tick loop: "top", "waiting", or "dead" once it has raised
    inFlight,      \* the key of the tick in flight in _tick_waiters, 0 for none
    registered,    \* the devices among the participants
    state,         \* the tick each device's state is of
    heardPaused,   \* BaseDevice.bus_paused
    inbox,         \* messages on their way to each device, oldest first
    replies,       \* SNAPSHOT_DATA and RESTORE_ACK on their way to the bus
    job,           \* the save or restore that holds the lock
    files,         \* the snapshot store
    last,          \* last_snapshot
    inStep,        \* history: devices that were there for the last tick, or have
                   \* acknowledged the restore, and have not run alone since
    jobs, requests, leaves

busVars   == <<tick, paused, budget, loop, inFlight>>
storeVars == <<files, last>>
deviceVars == <<state, heardPaused>>
counters  == <<jobs, requests, leaves>>
vars == <<busVars, registered, deviceVars, inbox, replies, job, storeVars, inStep, counters>>

Own      == -1
Ticks    == 0 .. MaxTick
Missing  == [none |-> TRUE]
NoParts  == [d \in {} |-> 0]

TickMsg(n)       == [type |-> "TICK", tick |-> n]
SaveMsg(id)      == [type |-> "SAVE", id |-> id]
RestoreMsg(id, n) == [type |-> "RESTORE", id |-> id, part |-> n]

(* PAUSE, RESUME and WELCOME: the device takes over what they say.         *)
PausedMsg(p) == [type |-> "PAUSED", value |-> p]

(* at: "pausing" waits in pause() for the tick in flight, "ready" has the  *)
(* wait behind it, "asking" waits for the devices in asked.  disturbed:    *)
(* resume() or step() came in and lets ticks run in the middle of the job. *)
NoJob == [op |-> "none"]
IsSave    == job.op = "save"
IsRestore == job.op = "restore"

-----------------------------------------------------------------------------
Init ==
    /\ tick = 0
    /\ paused = FALSE
    /\ budget = 0
    /\ loop = "top"
    /\ inFlight = 0
    /\ registered = Devices
    /\ state = [d \in Devices |-> Own]
    /\ heardPaused = [d \in Devices |-> FALSE]
    /\ inbox = [d \in Devices |-> <<>>]
    /\ replies = {}
    /\ job = NoJob
    /\ files = [n \in Names |-> Missing]
    /\ last = NoName
    /\ inStep = {}
    /\ jobs = 0 /\ requests = 0 /\ leaves = 0

Sent(targets, message) ==
    [d \in Devices |-> IF d \in targets THEN Append(inbox[d], message) ELSE inbox[d]]

(* pause() and resume() tell the devices of a change, and only of one.     *)
Announced(p) == IF p = paused THEN inbox ELSE Sent(registered, PausedMsg(p))

-----------------------------------------------------------------------------
(* The tick loop.                                                          *)

StartTick ==
    /\ loop = "top"
    /\ ~paused \/ budget > 0
    /\ tick < MaxTick
    /\ tick' = tick + 1
    /\ inFlight' = tick'
    /\ loop' = "waiting"
    /\ inbox' = Sent(registered, TickMsg(tick'))
    /\ inStep' = registered
    /\ UNCHANGED <<paused, budget, registered, deviceVars, replies, job, storeVars, counters>>

\* The event _tick_idle wakes a pause() that waits for it, whatever comes next.
Awake == IF job.op # "none" /\ job.at = "pausing" THEN [job EXCEPT !.at = "ready"] ELSE job

\* Mutant: a step that is over does not pause.
RunOn ==
    /\ loop = "waiting"
    /\ job' = Awake
    /\ loop' = IF tick # inFlight THEN "dead" ELSE "top"
    /\ budget' = IF budget > 0 THEN budget - 1 ELSE 0
    /\ inFlight' = 0
    /\ UNCHANGED <<tick, paused, registered, deviceVars, inbox, replies, storeVars, inStep, counters>>

(* The answers are in, or tick_timeout has passed.  The waiter is deleted  *)
(* under the tick the bus is at by then: when a restore has set that back, *)
(* there is none, and the KeyError ends the task of the loop.  Otherwise a *)
(* step whose budget is used up pauses.                                    *)
EndTick ==
    /\ loop = "waiting"
    /\ job' = Awake
    /\ IF tick # inFlight
       THEN loop' = "dead" /\ UNCHANGED <<paused, budget>>
       ELSE /\ loop' = "top"
            /\ budget' = IF budget > 0 THEN budget - 1 ELSE 0
            /\ paused' = IF budget = 1 THEN TRUE ELSE paused
    /\ inbox' = Announced(paused')
    /\ inFlight' = IF tick # inFlight THEN inFlight ELSE 0
    /\ UNCHANGED <<tick, registered, deviceVars, replies, storeVars, inStep, counters>>

-----------------------------------------------------------------------------
(* Operator requests.                                                      *)

Request(kind) ==
    /\ requests < MaxRequests
    /\ requests' = requests + 1
    /\ job' = IF job.op = "none" THEN job ELSE [job EXCEPT !.disturbed = @ \/ kind # "pause"]
    /\ inbox' = Announced(kind = "pause")
    /\ UNCHANGED <<tick, loop, inFlight, registered, deviceVars, replies, storeVars, inStep,
                   jobs, leaves>>

Pause ==
    /\ Request("pause")
    /\ paused' = TRUE
    /\ budget' = IF paused THEN budget ELSE 0

Resume ==
    /\ Request("resume")
    /\ paused' = FALSE
    /\ budget' = IF paused THEN 0 ELSE budget

Step(n) ==
    /\ Request("step")
    /\ paused' = FALSE
    /\ budget' = n

-----------------------------------------------------------------------------
(* The devices.                                                            *)

(* A broken connection loses the tail of what was on its way to the        *)
(* device, and perhaps what the device has answered.                       *)
Leave(d, keep, lost) ==
    /\ leaves < MaxLeaves
    /\ leaves' = leaves + 1
    /\ d \in Frail \cap registered
    /\ registered' = registered \ {d}
    /\ inbox' = [inbox EXCEPT ![d] = SubSeq(@, 1, keep)]
    /\ replies' = {r \in replies : r.device # d \/ ~lost}
    /\ inStep' = inStep \ {d}
    /\ UNCHANGED <<busVars, deviceVars, job, storeVars, jobs, requests>>

(* _handle_no_message: with no message for a while a device runs on by     *)
(* itself, unless it is connected and has heard that the plant is paused.  *)
(* One that is connected also waits for the last tick to be max(1 s, 10 dt)*)
(* old; what is under way to it may not have arrived, and a TICK or a      *)
(* RESTORE of it will make up for what it did alone.                       *)
RunAlone(d) ==
    /\ d \in registered => ~heardPaused[d]
    /\ d \notin registered => inbox[d] = <<>>
    /\ state' = [state EXCEPT ![d] = Own]
    /\ inStep' = IF \E i \in DOMAIN inbox[d] : inbox[d][i].type \in {"TICK", "RESTORE"}
                 THEN inStep ELSE inStep \ {d}
    /\ UNCHANGED <<busVars, registered, heardPaused, inbox, replies, job, storeVars, counters>>

Join(d) ==
    /\ d \notin registered
    /\ registered' = registered \cup {d}
    /\ inbox' = Sent({d}, PausedMsg(paused))
    /\ UNCHANGED <<busVars, deviceVars, replies, job, storeVars, inStep, counters>>

Handle(d) ==
    /\ inbox[d] # <<>>
    /\ inbox' = [inbox EXCEPT ![d] = Tail(@)]
    /\ LET message == Head(inbox[d])
           answer(n) == IF d \in registered
                        THEN replies \cup {[device |-> d, id |-> message.id, part |-> n]}
                        ELSE replies
       IN  \/ /\ message.type = "TICK"
              /\ state' = [state EXCEPT ![d] = message.tick]
              /\ heardPaused' = [heardPaused EXCEPT ![d] = FALSE]
              /\ UNCHANGED <<replies, inStep>>
           \/ /\ message.type = "PAUSED"
              /\ heardPaused' = [heardPaused EXCEPT ![d] = message.value]
              /\ UNCHANGED <<state, replies, inStep>>
           \/ /\ message.type = "SAVE"
              /\ replies' = answer(state[d])
              /\ UNCHANGED <<deviceVars, inStep>>
           \/ /\ message.type = "RESTORE"
              /\ state' = [state EXCEPT ![d] = message.part]
              /\ replies' = answer(message.part)
              /\ inStep' = IF IsRestore /\ message.id = job.id THEN inStep \cup ({d} \cap registered)
                          ELSE inStep
              /\ UNCHANGED heardPaused
    /\ UNCHANGED <<busVars, registered, job, storeVars, counters>>

-----------------------------------------------------------------------------
(* A save goes to name; doc, resume and todo are of a restore.             *)
NewJob(op, at, name, doc, resume) ==
    [op |-> op, id |-> jobs + 1, at |-> at, wasPaused |-> paused, disturbed |-> FALSE,
     asked |-> {}, got |-> NoParts, name |-> name, doc |-> doc, resume |-> resume, todo |-> {}]

AfterTick == IF loop = "waiting" THEN "pausing" ELSE "ready"

Begin ==
    /\ job = NoJob
    /\ jobs < MaxJobs
    /\ jobs' = jobs + 1
    /\ UNCHANGED <<tick, loop, inFlight, registered, deviceVars, replies, storeVars, inStep,
                   requests, leaves>>

\* Mutant: the plant is not paused.
StartJobRunning(op, name, doc, resume) ==
    /\ Begin
    /\ job' = NewJob(op, AfterTick, name, doc, resume)
    /\ UNCHANGED <<paused, budget, inbox>>

\* Mutant: pause() does not wait for the tick in flight.
StartJobAtOnce(op, name, doc, resume) ==
    /\ Begin
    /\ job' = NewJob(op, "ready", name, doc, resume)
    /\ paused' = TRUE
    /\ budget' = IF paused THEN budget ELSE 0
    /\ inbox' = Announced(TRUE)

(* The coordinator.  pause() does nothing to a plant that is paused, but   *)
(* waits for the tick in flight all the same.                              *)
StartJob(op, name, doc, resume) ==
    /\ Begin
    /\ job' = NewJob(op, AfterTick, name, doc, resume)
    /\ paused' = TRUE
    /\ budget' = IF paused THEN budget ELSE 0
    /\ inbox' = Announced(TRUE)

Save(n) == StartJob("save", n, Missing, FALSE)

(* store.load() finds the file, and an incomplete one needs                *)
(* allow_incomplete.  The HTTP handler fills in last_snapshot for a        *)
(* missing name and resume = TRUE for a missing option.                    *)
Restore(n, allowIncomplete, resume) ==
    /\ files[n] # Missing
    /\ files[n].complete \/ allowIncomplete
    /\ StartJob("restore", n, files[n], resume)

CoordinatorFrame == UNCHANGED <<loop, inFlight, registered, deviceVars, counters>>

(* save_snapshot: the participants of this moment are asked together.      *)
AskAll ==
    /\ IsSave
    /\ job.at = "ready"
    /\ job' = [job EXCEPT !.at = "asking", !.asked = registered]
    /\ inbox' = Sent(registered, SaveMsg(job.id))
    /\ CoordinatorFrame
    /\ UNCHANGED <<tick, paused, budget, replies, storeVars, inStep>>

Given(parts, d, n) == [x \in DOMAIN parts \cup {d} |-> IF x = d THEN n ELSE parts[x]]

(* _resolve_request: answers to a request that is over are dropped.        *)
Resolve(r) ==
    /\ r \in replies
    /\ replies' = replies \ {r}
    /\ IF job.op # "none" /\ job.id = r.id /\ r.device \in job.asked
       THEN job' = [job EXCEPT !.got = Given(job.got, r.device, r.part)]
       ELSE UNCHANGED job
    /\ CoordinatorFrame
    /\ UNCHANGED <<tick, paused, budget, inbox, storeVars, inStep>>

(* resume() in the finally clause, when there is something to resume.      *)
Release(go) ==
    /\ job' = NoJob
    /\ paused' = (paused /\ ~go)
    /\ budget' = IF paused /\ go THEN 0 ELSE budget
    /\ inbox' = Announced(paused')

\* Mutant: a save waits for every answer.
AwaitAllAnswers ==
    /\ IsSave
    /\ job.at = "asking"
    /\ job.asked \subseteq DOMAIN job.got
    /\ LET missing == job.asked \ DOMAIN job.got
           whole   == IF job.disturbed THEN {} ELSE inStep \cap DOMAIN job.got
       IN  /\ files' = [files EXCEPT ![job.name] =
                    [tick |-> tick, parts |-> job.got, complete |-> missing = {}, whole |-> whole]]
           /\ last' = IF missing = {} THEN job.name ELSE last
    /\ Release(~job.wasPaused)
    /\ CoordinatorFrame
    /\ UNCHANGED <<tick, replies, inStep>>

(* All answers are in, or the timeout has passed.  What is missing makes   *)
(* the snapshot incomplete; it replaces the file of that name all the same.*)
FinishSave ==
    /\ IsSave
    /\ job.at = "asking"
    /\ LET missing == job.asked \ DOMAIN job.got
           whole   == IF job.disturbed THEN {} ELSE inStep \cap DOMAIN job.got
       IN  /\ files' = [files EXCEPT ![job.name] =
                    [tick |-> tick, parts |-> job.got, complete |-> missing = {}, whole |-> whole]]
           /\ last' = IF missing = {} THEN job.name ELSE last
    /\ Release(~job.wasPaused)
    /\ CoordinatorFrame
    /\ UNCHANGED <<tick, replies, inStep>>

(* restore_snapshot: the participants of this moment that have a part.     *)
ChooseTargets ==
    /\ IsRestore
    /\ job.at = "ready"
    /\ job' = [job EXCEPT !.at = "asking", !.todo = registered \cap DOMAIN job.doc.parts]
    /\ CoordinatorFrame
    /\ UNCHANGED <<tick, paused, budget, inbox, replies, storeVars, inStep>>

(* One device after the other: the one before has answered, or its timeout *)
(* has passed.  One that has left since is passed over.                    *)
AskNext(d) ==
    /\ IsRestore
    /\ job.at = "asking"
    /\ d \in job.todo
    /\ job' = [job EXCEPT !.todo = @ \ {d}, !.asked = {d} \cap registered]
    /\ inbox' = Sent({d} \cap registered, RestoreMsg(job.id, job.doc.parts[d]))
    /\ CoordinatorFrame
    /\ UNCHANGED <<tick, paused, budget, replies, storeVars, inStep>>

\* Mutant: the bus keeps its own clock.
KeepClock ==
    /\ IsRestore
    /\ job.at = "asking"
    /\ job.todo = {}
    /\ inStep' = IF job.disturbed THEN {} ELSE inStep \cap DOMAIN job.got \cap job.doc.whole
    /\ Release(job.resume)
    /\ CoordinatorFrame
    /\ UNCHANGED <<tick, replies, storeVars>>

FinishRestore ==
    /\ IsRestore
    /\ job.at = "asking"
    /\ job.todo = {}
    /\ tick' = job.doc.tick
    /\ inStep' = IF job.disturbed THEN {} ELSE inStep \cap DOMAIN job.got \cap job.doc.whole
    /\ Release(job.resume)
    /\ CoordinatorFrame
    /\ UNCHANGED <<replies, storeVars>>

-----------------------------------------------------------------------------
Coordinator ==
    \/ AskAll
    \/ FinishSave
    \/ ChooseTargets
    \/ \E d \in Devices : AskNext(d)
    \/ FinishRestore

Next ==
    \/ StartTick
    \/ EndTick
    \/ Pause
    \/ Resume
    \/ \E n \in StepSizes : Step(n)
    \/ \E n \in Names : Save(n)
    \/ \E n \in Names, allowIncomplete, resume \in BOOLEAN : Restore(n, allowIncomplete, resume)
    \/ \E r \in replies : Resolve(r)
    \/ \E d \in Devices : Handle(d) \/ Join(d) \/ RunAlone(d)
    \/ \E d \in Devices : \E keep \in 0 .. Len(inbox[d]), lost \in BOOLEAN : Leave(d, keep, lost)
    \/ Coordinator

Spec == Init /\ [][Next]_vars

(* A tick ends and each wait of the coordinator has a timeout.  Nothing is *)
(* asked of the devices.                                                   *)
LiveSpec == Spec /\ WF_vars(EndTick) /\ WF_vars(Coordinator)

-----------------------------------------------------------------------------
(***************************************************************************)
(* A snapshot is one slice of time: the part of every device that was in   *)
(* step when it was taken is of the tick the bus file says, however slow   *)
(* the device, and whatever ticks, late answers, restores and broken       *)
(* connections came before.  In step is a device that was there for the    *)
(* last tick and has not run on by itself since, which it does not do once *)
(* it has heard of the pause.  Not so the parts of a save during which     *)
(* somebody resumed or stepped the plant (such a file has no whole parts): *)
(* the lock does not keep resume() and step() out.                         *)
(***************************************************************************)
WholeSlice ==
    \A n \in Names : files[n] # Missing =>
        \A d \in files[n].whole : files[n].parts[d] = files[n].tick

(***************************************************************************)
(* The plant is in step with the bus: a device that was there for the last *)
(* tick, or has acknowledged the last restore of a whole snapshot, and has *)
(* not run on by itself since, is at the tick of the bus once it has read  *)
(* its messages.  A restore that is not disturbed puts bus and devices     *)
(* back together, and a RESTORE that comes late never undoes a tick.       *)
(***************************************************************************)
LockStep ==
    ~IsRestore => \A d \in inStep : inbox[d] = <<>> => state[d] = tick

(***************************************************************************)
(* The clock is never set back under a tick in flight, which would end the *)
(* task of the tick loop with a KeyError: a restore waits for the tick,    *)
(* and only a resume() or step() during the restore lets another one start.*)
(***************************************************************************)
NoTickRewound ==
    [][ IsRestore /\ tick' < tick /\ ~job.disturbed => loop # "waiting" ]_vars

Halting == paused \/ budget > 0

(***************************************************************************)
(* A plant that is paused, or will be when its step is over, runs freely   *)
(* only after a resume, or after a save that found it running or a restore *)
(* that was to resume it.  (A save during a step finds it running: the     *)
(* step then never ends.)                                                  *)
(***************************************************************************)
RunsFreelyOnlyWhenAsked ==
    [][ Halting /\ ~Halting' =>
            \/ Resume
            \/ IsSave /\ job' = NoJob /\ ~job.wasPaused
            \/ IsRestore /\ job' = NoJob /\ job.resume ]_vars

(***************************************************************************)
(* A save or restore ends and gives the lock back, whatever devices are    *)
(* silent or gone and even when the tick loop has died.                    *)
(***************************************************************************)
JobEnds == job # NoJob ~> job = NoJob
===============================================================================
