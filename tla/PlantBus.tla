------------------------------- MODULE PlantBus -------------------------------
(***************************************************************************)
(* plant_bus/app/bus.py: the coordinator that keeps the devices in         *)
(* lockstep, and the part of each device that talks to it                  *)
(* (common/simbus/client.py and the message handlers of base_device.py).   *)
(*                                                                         *)
(* The bus is one asyncio thread, so what it does between two awaits is    *)
(* one step.  A tick is three steps: the TICKs go out, the wait for the    *)
(* answers ends (all are in, or the timeout), and the loop decides what to *)
(* do next.  Operator requests and messages come in between.               *)
(*                                                                         *)
(* A device is told about the pause by messages, in the order in which     *)
(* they were sent on its connection; its inbox outlives the connection.    *)
(* Connections of one device are numbered; one that breaks loses what was  *)
(* in flight to the device, and what it had sent may still arrive.         *)
(* Signal values, qualities, forcing and the listeners are left out.       *)
(*                                                                         *)
(* What is sent is written at once, but then waited for (writer.drain):    *)
(* a peer that keeps its connection and no longer reads it, once it has    *)
(* filled the buffers, holds up whoever sends, without any timeout.        *)
(***************************************************************************)
EXTENDS Integers, Sequences, FiniteSets, Functions

CONSTANTS
    Devices,
    StepSizes,     \* what an operator may ask of step()
    MaxTick,       \* bound on the ticks of the bus
    MaxConn,       \* bound on the connections of one device
    MaxRequests    \* bound on pause, resume and step requests

ASSUME BusAssumption ==
    /\ IsFiniteSet(Devices)
    /\ StepSizes \subseteq Nat \ {0}
    /\ MaxTick \in Nat
    /\ MaxConn \in Nat
    /\ MaxRequests \in Nat

VARIABLES
    tick,
    paused,
    budget,        \* step_budget
    loop,          \* where the tick loop is: "top", "waiting" or "tail"
    waiter,        \* _tick_waiters[tick]
    registered,    \* participants: the connection of each device, 0 for none
    signal,        \* the tick of the last outputs of each device
    conn,          \* the connection the device itself uses, 0 for none
    lastConn,      \* the number of the last connection of each device
    inbox,         \* messages on their way to the device, oldest first
    heardPaused,   \* BaseDevice.bus_paused
    outbox,        \* messages on their way to the bus, per connection
    requests,      \* operator requests so far
    clogged,       \* some peer takes nothing more, and the loop's sends wait for it
    step           \* the last accepted step(): its size and the tick it came at

busVars    == <<tick, paused, budget, loop, waiter, step>>
deviceVars == <<conn, lastConn, heardPaused>>
plantVars  == <<busVars, registered, signal, deviceVars, inbox, outbox, requests>>
vars == <<plantVars, clogged>>

Connections == 1 .. MaxConn
Hello       == [type |-> "HELLO"]
Tick(n)     == [type |-> "TICK", tick |-> n]
Done(n)     == [type |-> "TICK_DONE", tick |-> n]
Pausing(p)  == [type |-> IF p THEN "PAUSE" ELSE "RESUME"]
Welcome     == [type |-> "WELCOME", paused |-> paused]

NoWaiter == [expected |-> {}, received |-> {}]

Participants == {d \in Devices : registered[d] # 0}
Reachable    == {d \in Participants : registered[d] = conn[d]}

(* broadcast: a message written to a dead connection is lost.              *)
Sent(message) ==
    [d \in Devices |-> IF d \in Reachable THEN Append(inbox[d], message) ELSE inbox[d]]

-----------------------------------------------------------------------------
Init ==
    /\ tick = 0
    /\ paused = FALSE
    /\ budget = 0
    /\ loop = "top"
    /\ waiter = NoWaiter
    /\ registered = [d \in Devices |-> 0]
    /\ signal = [d \in Devices |-> -1]
    /\ conn = [d \in Devices |-> 0]
    /\ lastConn = [d \in Devices |-> 0]
    /\ inbox = [d \in Devices |-> <<>>]
    /\ heardPaused = [d \in Devices |-> FALSE]
    /\ outbox = [d \in Devices |-> [c \in Connections |-> <<>>]]
    /\ requests = 0
    /\ clogged = FALSE
    /\ step = [size |-> 0, at |-> 0]

-----------------------------------------------------------------------------
(* _tick_loop and _do_tick.  A tick without devices waits for nobody; the  *)
(* broadcast to the listeners still lies between it and its tail.  The     *)
(* wait for the answers begins when every TICK has been taken, so that a   *)
(* clogged peer keeps the loop in it, and the listeners keep it in the     *)
(* tail.                                                                   *)

StartTick ==
    /\ loop = "top"
    /\ ~paused \/ budget > 0
    /\ tick < MaxTick
    /\ tick' = tick + 1
    /\ waiter' = [expected |-> Participants, received |-> {}]
    /\ inbox' = Sent(Tick(tick'))
    /\ loop' = IF Participants = {} THEN "tail" ELSE "waiting"
    /\ UNCHANGED <<paused, budget, step, registered, signal, deviceVars, outbox, requests, clogged>>

(* Every device has answered, or tick_timeout has passed.                  *)
FinishTick ==
    /\ loop = "waiting"
    /\ ~clogged
    /\ waiter.expected \subseteq waiter.received
    /\ waiter' = NoWaiter
    /\ loop' = "tail"
    /\ UNCHANGED <<tick, paused, budget, step, registered, signal, deviceVars,
                   inbox, outbox, requests, clogged>>

\* Mutant: the wait ends early only for the devices that have left.
WaitForRegistered ==
    /\ loop = "waiting"
    /\ ~clogged
    /\ Participants \cap waiter.expected \subseteq waiter.received
    /\ waiter' = NoWaiter
    /\ loop' = "tail"
    /\ UNCHANGED <<tick, paused, budget, step, registered, signal, deviceVars,
                   inbox, outbox, requests, clogged>>

TickTimeout ==
    /\ loop = "waiting"
    /\ ~clogged
    /\ ~(waiter.expected \subseteq waiter.received)
    /\ waiter' = NoWaiter
    /\ loop' = "tail"
    /\ UNCHANGED <<tick, paused, budget, step, registered, signal, deviceVars,
                   inbox, outbox, requests, clogged>>

\* Mutant: the end of a step is not broadcast to the devices.
SilentTail ==
    /\ loop = "tail"
    /\ ~clogged
    /\ loop' = "top"
    /\ budget' = IF budget > 0 THEN budget - 1 ELSE 0
    /\ paused' = IF budget = 1 THEN TRUE ELSE paused
    /\ UNCHANGED <<tick, waiter, step, registered, signal, deviceVars, inbox, outbox, requests, clogged>>

\* Mutant: only a plant that is paused uses up the budget.
TailOfPaused ==
    /\ loop = "tail"
    /\ ~clogged
    /\ loop' = "top"
    /\ budget' = IF budget > 0 /\ paused THEN budget - 1 ELSE budget
    /\ UNCHANGED <<tick, paused, waiter, step, registered, signal, deviceVars, inbox,
                   outbox, requests, clogged>>

(* The last tick of a step goes through pause(), which does nothing when   *)
(* the simulation is paused already.                                       *)
LoopTail ==
    /\ loop = "tail"
    /\ ~clogged
    /\ loop' = "top"
    /\ IF budget = 1 /\ ~paused
       THEN paused' = TRUE /\ budget' = 0 /\ inbox' = Sent(Pausing(TRUE))
       ELSE budget' = (IF budget > 0 THEN budget - 1 ELSE 0) /\ UNCHANGED <<paused, inbox>>
    /\ UNCHANGED <<tick, waiter, step, registered, signal, deviceVars, outbox, requests, clogged>>

-----------------------------------------------------------------------------
(* Operator requests.  They do not wait for the tick in flight.            *)
Request ==
    /\ requests < MaxRequests
    /\ requests' = requests + 1
    /\ UNCHANGED <<tick, loop, waiter, registered, signal, deviceVars, outbox, clogged>>

Pause ==
    /\ Request
    /\ ~paused
    /\ paused' = TRUE
    /\ budget' = 0
    /\ inbox' = Sent(Pausing(TRUE))
    /\ UNCHANGED step

Resume ==
    /\ Request
    /\ paused
    /\ paused' = FALSE
    /\ budget' = 0
    /\ inbox' = Sent(Pausing(FALSE))
    /\ UNCHANGED step

Step(n) ==
    /\ Request
    /\ budget' = n
    /\ paused' = FALSE
    /\ step' = [size |-> n, at |-> tick]
    /\ inbox' = IF paused THEN Sent(Pausing(FALSE)) ELSE inbox

-----------------------------------------------------------------------------
(* What the bus does with the next message of a connection.                *)

(* HELLO: a device that connects again replaces its old connection, which  *)
(* the bus closes: what that one still had to say is lost.                 *)
Register(d, c) ==
    /\ registered' = [registered EXCEPT ![d] = c]
    /\ inbox' = [inbox EXCEPT ![d] = IF conn[d] = c THEN Append(@, Welcome) ELSE @]
    /\ outbox' = [outbox EXCEPT ![d] =
            [e \in Connections |-> IF e = registered[d] THEN <<>>
                                   ELSE IF e = c THEN Tail(@[e]) ELSE @[e]]]
    /\ UNCHANGED <<signal, waiter>>

\* Mutant: any TICK_DONE counts for the tick that is being waited for.
CountAnyAnswer(d, c, n) ==
    /\ signal' = [signal EXCEPT ![d] = n]
    /\ waiter' = IF loop = "waiting" /\ d \in waiter.expected
                 THEN [waiter EXCEPT !.received = @ \cup {d}] ELSE waiter
    /\ outbox' = [outbox EXCEPT ![d][c] = Tail(@)]
    /\ UNCHANGED <<registered, inbox>>

(* _on_tick_done: an answer to an earlier tick brings its outputs in but   *)
(* does not count for the tick that is being waited for.                   *)
OnTickDone(d, c, n) ==
    /\ signal' = [signal EXCEPT ![d] = n]
    /\ waiter' = IF loop = "waiting" /\ n = tick /\ d \in waiter.expected
                 THEN [waiter EXCEPT !.received = @ \cup {d}] ELSE waiter
    /\ outbox' = [outbox EXCEPT ![d][c] = Tail(@)]
    /\ UNCHANGED <<registered, inbox>>

(* The handlers of two connections start in the order of the connections.  *)
EarlierHellosRead(d, c) == \A e \in 1 .. c - 1 : Hello \notin Range(outbox[d][e])

Receive(d, c) ==
    /\ outbox[d][c] # <<>>
    /\ LET message == Head(outbox[d][c])
       IN  \/ message.type = "HELLO" /\ EarlierHellosRead(d, c) /\ Register(d, c)
           \/ message.type = "TICK_DONE" /\ OnTickDone(d, c, message.tick)
    /\ UNCHANGED <<tick, paused, budget, loop, step, deviceVars, requests, clogged>>

\* Mutant: the end of any connection removes the participant.
ForgetAnyway(d, c) == registered' = [registered EXCEPT ![d] = 0]

(* A connection that ends unregisters its device only if it is still the   *)
(* one that is registered.                                                 *)
Forget(d, c) ==
    registered' = [registered EXCEPT ![d] = IF @ = c THEN 0 ELSE @]

ConnectionEnds(d, c) ==
    /\ outbox[d][c] = <<>>
    /\ c <= lastConn[d]
    /\ conn[d] # c
    /\ Forget(d, c)
    /\ UNCHANGED <<busVars, signal, deviceVars, inbox, outbox, requests, clogged>>

-----------------------------------------------------------------------------
(* The device and its client.                                              *)

Connect(d) ==
    /\ conn[d] = 0
    /\ lastConn[d] < MaxConn
    /\ conn' = [conn EXCEPT ![d] = lastConn[d] + 1]
    /\ lastConn' = [lastConn EXCEPT ![d] = @ + 1]
    /\ outbox' = [outbox EXCEPT ![d][lastConn'[d]] = <<Hello>>]
    /\ UNCHANGED <<busVars, registered, signal, heardPaused, inbox, requests, clogged>>

(* The connection breaks: the tail of what was on its way to the device is *)
(* lost, and so is the tail of what it had sent.                           *)
Disconnect(d, keep, sent) ==
    /\ conn[d] # 0
    /\ keep <= Len(inbox[d])
    /\ sent <= Len(outbox[d][conn[d]])
    /\ conn' = [conn EXCEPT ![d] = 0]
    /\ inbox' = [inbox EXCEPT ![d] = SubSeq(@, 1, keep)]
    /\ outbox' = [outbox EXCEPT ![d][conn[d]] = SubSeq(@, 1, sent)]
    /\ UNCHANGED <<busVars, registered, signal, lastConn, heardPaused, requests, clogged>>

(* _handle_message: the answer to a TICK goes out on today's connection.   *)
Handle(d) ==
    /\ inbox[d] # <<>>
    /\ inbox' = [inbox EXCEPT ![d] = Tail(@)]
    /\ LET message == Head(inbox[d])
       IN  /\ heardPaused' = [heardPaused EXCEPT ![d] =
                    CASE message.type = "PAUSE"   -> TRUE
                      [] message.type = "WELCOME" -> message.paused
                      [] OTHER                    -> FALSE]
           /\ outbox' = IF message.type = "TICK" /\ conn[d] # 0
                        THEN [outbox EXCEPT ![d][conn[d]] = Append(@, Done(message.tick))]
                        ELSE outbox
    /\ UNCHANGED <<busVars, registered, signal, conn, lastConn, requests, clogged>>

(* A peer stops reading, or reads again or is gone.                        *)
Congestion ==
    /\ clogged' = ~clogged
    /\ UNCHANGED plantVars

-----------------------------------------------------------------------------
Loop == StartTick \/ FinishTick \/ TickTimeout \/ LoopTail

Next ==
    \/ StartTick
    \/ FinishTick
    \/ TickTimeout
    \/ LoopTail
    \/ Pause
    \/ Resume
    \/ \E n \in StepSizes : Step(n)
    \/ \E d \in Devices, c \in Connections : Receive(d, c) \/ ConnectionEnds(d, c)
    \/ \E d \in Devices : Connect(d) \/ Handle(d)
    \/ \E d \in Devices : \E keep \in 0 .. Len(inbox[d]) :
           \E sent \in 0 .. 2 : Disconnect(d, keep, sent)
    \/ Congestion

Spec == Init /\ [][Next]_vars

(* The tick loop never ends, and its waits for answers have a timeout.  A  *)
(* send that has been held up goes on when the peer reads again, and does  *)
(* not come to be held up a second time: hence strong fairness.            *)
LiveSpec == Spec /\ SF_vars(Loop)

-----------------------------------------------------------------------------
Messages ==
    {Hello, Pausing(TRUE), Pausing(FALSE)} \cup
    {Tick(n) : n \in 1 .. MaxTick} \cup {Done(n) : n \in 1 .. MaxTick} \cup
    {[type |-> "WELCOME", paused |-> p] : p \in BOOLEAN}

TypeOK ==
    /\ tick \in 0 .. MaxTick
    /\ paused \in BOOLEAN
    /\ \E n \in StepSizes \cup {0} : budget \in 0 .. n
    /\ loop \in {"top", "waiting", "tail"}
    /\ waiter \in [expected : SUBSET Devices, received : SUBSET Devices]
    /\ registered \in [Devices -> 0 .. MaxConn]
    /\ signal \in [Devices -> -1 .. MaxTick]
    /\ conn \in [Devices -> 0 .. MaxConn]
    /\ lastConn \in [Devices -> 0 .. MaxConn]
    /\ inbox \in [Devices -> Seq(Messages)]
    /\ heardPaused \in [Devices -> BOOLEAN]
    /\ clogged \in BOOLEAN
    /\ outbox \in [Devices -> [Connections -> Seq(Messages)]]

(***************************************************************************)
(* The pause is never split: once a registered device has read everything  *)
(* sent to it, it believes the simulation paused exactly when the bus has  *)
(* paused it, whatever pauses, steps, ticks and reconnections raced.  A    *)
(* device that believes otherwise runs on its own while the bus shows the  *)
(* plant standing still.                                                   *)
(***************************************************************************)
NoSplitPause ==
    \A d \in Reachable : inbox[d] = <<>> => heardPaused[d] = paused

(***************************************************************************)
(* A device that counts as having answered the tick has brought in its     *)
(* outputs of that tick: a late answer to an earlier tick never completes  *)
(* a later one, so the next tick is computed from confirmed outputs.       *)
(***************************************************************************)
AnswersAreOfThisTick ==
    loop = "waiting" => \A d \in waiter.received : signal[d] = tick

(***************************************************************************)
(* The end of an old connection never unregisters the device that has      *)
(* connected again: a device whose HELLO the bus has read stays registered *)
(* for as long as it keeps that connection.                                *)
(***************************************************************************)
ReconnectionSurvives ==
    [][ \A d \in Devices : conn[d] # 0 /\ registered[d] = conn[d] /\ conn'[d] = conn[d]
                           => registered'[d] = conn[d] ]_vars

(***************************************************************************)
(* A silent device cannot hold up the plant: a tick that has begun ends,   *)
(* whether or not every device that was asked ever answers, and whether or *)
(* not peers leave unread for a while what is sent to them.  Only one that *)
(* keeps its connection and never reads again can.                         *)
(***************************************************************************)
TickEnds == loop # "top" ~> (loop = "top" \/ []clogged)

(***************************************************************************)
(* A step ends: its budget runs out, by its own ticks or by a request,     *)
(* within the ticks that were asked for.  Only a step that was asked for   *)
(* more ticks than the bound of the model has left is let off, and one     *)
(* that is held up by a peer that never reads again.                       *)
(***************************************************************************)
StepEnds ==
    budget > 0 ~> (budget = 0 \/ step.at + step.size > MaxTick \/ []clogged)
===============================================================================
