# A specification of the simulated power plant

This directory holds a TLA+ development of the plant simulator: models of its
components, the TLC runs that check them on small instances, and theorems
about them that TLAPS proves for every value of the constants. Paths below are
relative to the repository.

## 1. The system

Eight devices (condenser, condensate pump, feedwater tank, feedwater pump,
boiler, steam valve, turbine, generator) each run as a process of their own. A
device is one asyncio thread that repeats a *scan*: it applies the commands it
was sent, checks its watchdog, decides whether to start or stop itself,
computes its physics and evaluates its protections. A coordinator, the plant
bus, keeps the devices in lockstep over TCP. Controllers and operators talk to
a device over Modbus. Everything inside a process is interleaved only at an
`await`; everything between processes is a message.

| component | state | operations | talks to |
| --- | --- | --- | --- |
| state machine (`common/device/state_machine.py`) | the phase | `to`, `force` | called by the scan and by the device's hooks |
| protection engine (`protection.py`) | per protection: active, latched, first_out, resettable, two timers; the first-out record | `evaluate`, `force_trip`, `can_reset`, `reset`, `clear_all_latches` | called by the scan |
| device (`base_device.py`) | the two above, command queue, registers, operator's stop, self-hold timers, watchdog, last command sequence | `_on_write`, `scan` and its stages, `_handle_message`, `snapshot_state`, `restore_state` | Modbus server (callbacks), bus (messages) |
| persistence (`persistence.py`, `base_device.py`) | one row of SQLite | save every second, at shutdown and after a restore; load at start | device |
| alarms (`alarm.py`), faults (`faults.py`) | active, unacknowledged; active faults, one cached reading per scan | `set`, `ack`, `words`, `to_dict`, `from_dict`; `inject`, `clear`, `sensor_sample` | called by the scan, the bus and a restore |
| regulators (`regulator.py`), governor, breaker, boiler sequence, pumps (`devices/*/main.py`) | output, integral; breaker; purge, flame, burner; speed | `update`, `track`, `hold`; the hooks `on_start`, `on_stop`, `on_reset`, `on_trip`, `step` | called by the scan |
| bus client (`common/simbus/client.py`) | the connection, a queue of received messages | connect, read, send, reconnect | bus |
| plant bus (`plant_bus/app/bus.py`) | tick, paused, step budget, participants, signals, waiters | tick loop, `pause`, `resume`, `step`, `_handle_conn`, `_on_message`, snapshots, faults, forcing | devices, HTTP interface |
| snapshot store (`snapshot_store.py`) | files | save (atomic), load and check | bus |
| Modbus server (`common/modbus/server.py`) | the lease of the single writer, communication faults | one request at a time per connection | device (queue, register image) |
| external PLC (`examples/external_plc.py`) | links, the edges it has acted on | poll, trip matrix, `reset_trip` | devices, over Modbus |
| gateway programs (generated by `tools/generate_openplc*_gateway.py`) | pulse counters, sequence, watchdog counter, supervision | one cyclic scan | devices, over a runtime that copies registers |
| HMI, historian, plantctl, HTTP interface | mostly none of the plant's | read, or call one of the operations above | bus, devices |

### What is hard about it, and what makes each part correct

* **Scan.** Several commands, an emergency stop, a lost watchdog and a trip can
  meet in one scan, and five stages write to the state machine or the latches.
  Correct means: latch, first-out and phase always agree; an emergency stop
  holds the device TRIPPED; only an authorised reset releases a latch; nothing
  starts that an operator has stopped or that is not permitted.
* **Restart.** The process may be killed between a change and its save. Correct
  means: what was saved comes back, no more and no less; a restart never
  produces a running device with a latched trip, or one tripped with nothing to
  reset.
* **Bus.** Ticks, requests, reconnections and late answers interleave at each
  `await`. Correct means: bus and devices agree on the pause, an answer counts
  for its own tick only, the end of an old connection does not unregister a
  device that came back, and a device that is silent or gone does not hold up the
  plant. (One that keeps its connection and does not read can: section 4.)
* **Signals.** Answers may be ticks late and a restore sets the clock back.
  Correct means: what is told to be GOOD is of this tick or the one before.
* **Snapshots.** The states of the devices must come from one tick, a restore
  should leave no mixture of old and new, and neither may hold the lock for ever
  when a device goes away.
* **Modbus access.** One writer at a time, except for the safety coils; no
  accepted write is lost or invented.
* **Commands from afar.** A reset is three writes over a client that repeats
  what was not answered, and a pulse lives in registers that are copied at
  intervals. Correct means: one request releases one trip, a pulse reaches the
  device, a trip commands every target of the matrix, silence is told from lag.
* **Device programs.** Several causes act on one breaker, burner, pump or valve
  in one scan, in a fixed order. Correct means: what is dangerous is opened or
  shut whatever else was asked, what was opened deliberately is not closed
  automatically, nothing is lit that was not purged, and regulators hand over
  without a jump.
* **Whole plant.** No program sequences the devices: each waits for conditions
  that others bring about. Correct means: they never wait in a circle.

`PROJECT.json` lists each hazard with the line at which it bites and the
properties that would catch it, or the reason why none does.

## 2. Modules

The device and what surrounds it:

| module | models | how it corresponds to the code |
| --- | --- | --- |
| `Lifecycle` | state machine and the device hooks that drive it | `To` is `StateMachine.to`; `OnStart`, `OnStop`, `PhysicsTarget` give the target each device program asks for. `SAFE_HOLD` and `MAINTENANCE` are declared in the code but never entered, so they are not phases |
| `ProtectionEngine` | `protection.py` | one record per engine; `Evaluate` is a whole pass, `ForceTrip`, `CanReset`, `Reset`, `ClearAllLatches` as in the code. A measured value is its zone: exceeded, band, cleared, or inhibited |
| `Device` | the scan cycle | `Scan` composes `ApplyCommands`, `UpdateCommStatus`, `SelfHoldStep`, `Physics`, `Protect`, `UpdateManual` in the order of `scan()`; `Write` is `_on_write` |
| `TripMemory` | the promise a device makes about the memory of a trip | abstract: memory in use, saved and in snapshots |
| `DurableDevice` | a device with its disk and its snapshot | `Persist`, `Crash`, `Shutdown`, `TakeSnapshot`, `Restore` around the actions of `Device`; implements `TripMemory` |
| `Alarms` | one alarm of `alarm.py` | `Set`, acknowledge, store and restore; the alarms of a list do not touch each other |
| `Faults` | fault injection | routing by the bus, LAB_MODE, one sample of a sensor per scan, snapshots; what a fault does to a number is "another reading". `Protecting`, `Showing` and `Publishing` name the devices whose protections, registers and published values ask `sensor_sample`: the programs differ (the boiler protects on the true value, the valve samples for its registers only, the pumps for what they publish) |
| `RegisterBank` | the promise made to the writers of registers, on which `Device` is built | abstract: a memory and one waiting value per register |
| `ModbusAccess` | the write functions of `server.py` and the command queue | `Answer` is the chain of checks of a request in the order of the code (address, access and lease, read part of function 23, values, queue); `LeaseAfter` the lease that `check_write` leaves behind, also for a request refused later; `Result` the mask write; `Scan` the part of `_apply_commands` that empties the queue; implements `RegisterBank` |

The bus:

| module | models | how it corresponds to the code |
| --- | --- | --- |
| `PlantBus` | the bus's connections, ticks, pause and step, with the client and the handlers of each device | `StartTick`, `FinishTick`, `TickTimeout`, `LoopTail` are the tick loop cut at its awaits; `Pause`, `Resume`, `Step` are the requests; `Receive` is `_handle_conn` and `_on_tick_done`; `ConnectionEnds` its `finally`; `Connect`, `Disconnect`, `Handle` are the device's side. `Congestion` is a peer that stops reading, or reads again: meanwhile the loop stands in `drain()` |
| `Signals` | the age and quality of one signal | the bus's table with its ages, late answers, forcing, the restore of a snapshot, and the quality a reader derives |
| `Snapshots` | `save_snapshot`, `restore_snapshot`, `_request`, `snapshot_store.py` beside ticks and operators | a job is a save or a restore; `StartJob` to `FinishSave` or `FinishRestore` are its stages cut at the awaits. A device's state is the number of the last tick it ran, or `Own` once it has scanned by itself: without the bus, or connected and not told of a pause, after a while without a TICK |

The programs of the devices:

| module | models | how it corresponds to the code |
| --- | --- | --- |
| `ScanFrame` | the part of `scan()` around a program, and `clamp` and `rate_limit` | one command before `step` and perhaps a trip after it. `Device` shows that a device is TRIPPED exactly while a trip is latched, so one phase stands for both here |
| `Regulator` | `regulator.py` in whole numbers | `update`, `track` and `hold`, `to_dict` and `from_dict`, with the mark `_track_pending` |
| `Generator` | breaker and synchronisation | `step` is the pulses, the reasons to open, the automatic synchronisation, in this order |
| `Boiler` | purge, ignition, flame, burner | `Sequence` is the head of `step`; the burner goes by the phase at its head |
| `Pump` | both pumps | `Target` is the chain of limits, floors and inhibition |
| `SteamValve` | governor and actuator | the two regulators are seen through what `Regulator` lets them put out |
| `PlantStart` | the eight devices at once | a device is its phase, the process a few zones; permissives, self hold and the protections whose values the zones show |

The controllers:

| module | models | how it corresponds to the code |
| --- | --- | --- |
| `ExternalPLC` | poll and trip matrix with its memory of edges | a poll is two reads with restores and trips in between; a command is taken, refused with an exception (the link stays up), or not answered (it goes down) |
| `ResetLink` | `reset_trip()` over a lossy connection | three writes, repeated when not answered; a delayed connection is read on beside the next one |
| `Gateway` | the pulses of a generated PLC program | in each slot the program scans; the coils and the registers are written at their own places in the write cycle; the device may scan in any slot, before, between or after the writes |
| `Supervision` | its watch over the echo of the watchdog | the counter comes round, the echo lags |

`MCDevice`, `MCDurable`, `MCPrograms` and `MCPlant` are the instances for TLC;
`PlantBus`, `Snapshots` and `Faults` need none. `DeviceProofs`,
`DurableProofs`, `StopProofs`, `BusProofs`, `SnapshotProofs`, `ModbusProofs`,
`ProgramProofs` and `LinkProofs` hold the theorems (section 5). `LinkProofs` is
about `Alarms`, `Faults`, `Signals`, `Supervision`, `ResetLink` and `Gateway`;
`ProgramProofs` is about the device programs and, by way of `MCPrograms` and
`LinkProofs`, about all the units of the run `programs` side by side.

The process (temperatures, levels, speeds) is the environment of `Device` and of
the modules of the programs: each scan chooses freely in which zone every
protected value lies, whether the permissives hold, whether the device is
needed and whether the next phase has been reached. So nothing that is shown of
a device depends on the physics. Only `PlantStart` ties the devices together
through the process, and there the zones move as `step` moves the values.

Time in `Device` is counted in scans and timers stop at the value they are
compared with, which is all the comparisons can see. Queued writes are kept as
the last value per register, because the queue is drained whole before
anything reads a register.

Some states carry a field marked *history*, for instance the ticks a value is
truly old, or the scans of purge a furnace really had. Nothing in a step
depends on it: it is there to state a property.

A definition that begins with the comment "Mutant" is a deliberate bug: it
stands for the definition after it when `PROJECT.json` asks whether a property
would notice.

## 3. Runs

| run | instance | shows |
| --- | --- | --- |
| `device_trip` | pump, one measured protection beside the three manual ones, delays of 2 scans, 3 registers written per scan | latch, first-out and phase agree (`LatchConsistent`), `EstopHoldsTrip`, `ReleasedOnlyByReset` |
| `device_hold` | pump with self hold, STOP and maintenance mode | `StopHoldsUntilStart`, `StartsOnlyWhenAllowed` |
| `device_comm` | policy TRIP, fair scans | `CommLossHoldsTrip`, `LostWatchdogTrips`, `SelfStarts` |
| `durable` | generator with disk and snapshot | `DurableConsistent`, `StopOutlivesProcess`, refinement `ImplementsMemory` |
| `bus` | 1 device, 2 connections, 2 ticks, 3 requests, steps of 1 and 2, fair loop | `NoSplitPause`, `AnswersAreOfThisTick`, `ReconnectionSurvives`, `TickEnds`, `StepEnds` |
| `snapshots` | 1 device that may vanish, be late or scan by itself, 2 jobs, 2 ticks, 1 request | `WholeSlice`, `LockStep`, `NoTickRewound`, `RunsFreelyOnlyWhenAsked`, `JobEnds` |
| `programs` | one instance of each program, of the alarms, faults, signals, gateway, supervision and reset link | `SafeMeansOpen`, `NoAutomaticReclose`, `PurgeBeforeFire`, `RunsDown`, `Bumpless`, `NoJumpOpen`, `OccurrencesStay`, `OneReadingPerScan`, `GoodIsFresh`, `PulseReaches`, `LostTellsSilence`, `OneReleasePerRequest`, and every type invariant (`TypeOK`) |
| `plant` | two controllers and a safety client, lease of 2, queue of 2; a trip matrix of one source and two targets; the eight devices with one trip | `OneWriter`, `BusyJustified`, `OutsidersReachSafetyOnly`, refinement `ImplementsBank`, `TripReachesTargets`, `PlantComesUp` |
| `stale_reset` | as `device_trip` | violated: section 4 |
| `turbine_stop` | turbine | violated: section 4 |
| `restart_loses_trip` | as `durable` | violated: section 4 |
| `restore_image` | two devices, one in LAB_MODE | violated: section 4 |

`programs` and `plant` check several units side by side: they share no
variable, `unit` says which of them moves, and the others keep their initial
state. The states of such a run are the sum of the states of its units, not
the product, and every property is a property of its unit alone.

**Bounds of the device.** `MaxPending` bounds the registers written between two
scans: three let a reset meet its key and another command in one scan
(`device_trip`), two are enough for every pair of commands to meet
(`device_hold`, and in `durable` for two to wait when the process is killed), and
with one a reset is still possible, because registers keep their values over
several scans. `durable` has one command sequence: a reset uses it up, and may
use it again only if a kill or a restore brings back a memory from before. One measured protection is enough for two
causes to compete: the manual protections latch and record a first-out like any
other. Delays of one and two scans distinguish "at once" from "after a while";
longer ones repeat the same comparisons. `durable` uses delays of zero, since
the timers are what a restart resets and nothing that is saved depends on them.

**Bounds of the bus.** `MaxTick`, `MaxConn` and `MaxRequests` bound the ticks,
the connections of a device and the requests: two ticks are enough for an
answer to be late, two connections for one to outlive the other, and three
requests for a pause, a step and a resume to overlap in any order. (With three
ticks, 1.1 million states, the run has been checked as well.) One device
is enough for what a device and the bus believe of each other; that several do
not disturb each other is proved (section 5). The same is true of `Snapshots`:
`WholeSlice` and `LockStep` compare each device with the clock of the bus, and not
with another device, so that a mixture of two devices shows as one of them being
off the clock. With a second device, two jobs and no operator's request (1.5
million states) both have been checked as well, and they are proved for any
number of devices. `Frail` names the devices that may leave. Two jobs let a restore follow a save, or
the save of another name overtake it; `MaxLeaves`, `MaxRequests` and `MaxTick`
let one connection end, one request arrive at any stage of a job, and a tick be
in flight when the job begins and another follow it.
The ticks of both models end at `MaxTick`, so these runs do not check for
deadlock.

**Bounds of the Modbus server.** `MaxTime` lets a lease of 2 be taken, renewed,
and run out after a renewal; `QueueLimit` of 2 lets two batches overlap and a
third be refused. A register has two bits, one that a mask keeps and one that
it sets, and one register has an illegal value. `now` is a clock that only
advances while nothing else happens, since a request is handled without a pause.

**Bounds of the programs.** Speeds, openings, burner output and regulator
output are counted in a handful of steps, with rates up and down that differ,
so that a value can stop short of a limit, reach it and overshoot the next
one; purge, ignition and the delays take two or three scans. Regulators have
both signs of error and of bias. The alarm list, `Faults` (two devices, one of
them in LAB_MODE), `Signals` (`BadAge` of 2, `MaxRound` ticks, `MaxLate`
answers under way), `ResetLink` (one retry, two connections, two requests,
three trips) and `Gateway` (a pulse of 6 scans over a write cycle of 4, both writes at every
place in it) have the fewest
that let a late answer, a second connection or a second pulse overlap the
first. `Supervision` counts to 12 instead of 65535: what matters is that the
turn is longer than the stale time and the lag. These units count rounds,
resets or pulses to a bound, so the run does not check for deadlock.

**Bounds of the plant.** `MaxTrips` is one in `plant`: one device trips at any
stage of the start, its trip pulls others with it, and all are reset in any
order. `PlantStart` by itself has been checked with two such trips as well (about
180 000 states). A process value has only the zones that a permissive or a
protection compares with.

**Fairness.** `Device` assumes weak fairness of `Scan`: a device that gets no
tick scans on its own after a timeout (`_handle_no_message`), so scans do not
stop. `SelfStarts` is asked with inputs that always permit and need the device.
`PlantBus` assumes strong fairness of the tick loop, which never ends. Its wait
for the answers has a timeout; its sends do not, so it moves only while no peer
holds it up. Strong rather than weak, because a `drain()` that was held up
returns when the peer reads again, and is not held up a second time; `TickEnds`
and `StepEnds` except the peer that never reads again. Nothing is assumed of
devices, operators or the network: a device may hang or be silent, a connection
may stay broken. `Snapshots` assumes weak fairness of the tick in flight and of
the job, whose waits have timeouts; there every peer reads, so `JobEnds` is about
devices that are silent, late or gone.
`ExternalPLC` assumes that its tasks go on and that a source that is asked
again and again is answered again and again (strong fairness of one read);
commands may fail for ever. `PlantStart` assumes weak fairness of every scan,
which `PlantBus` justifies; weak fairness of resets, since a trip that nobody
resets ends the start; and strong fairness of what moves a zone, since a vessel
that is filled again and again does fill. A zone moves only when the devices
have settled in this one, because a scan takes a tenth of a second and a zone
many seconds.

**Network.** In `PlantBus` and `Snapshots` messages of one connection arrive in
order. When it breaks, any tail of what was under way in either direction is
lost; what had arrived is still read, and what the device had received stays in
its queue. The HELLOs of two connections of one device are read in the order of
the connections: a client opens the second only after the first has broken, and
both reach the same listening process. In `ResetLink` a request or its answer
may be lost or delayed, and what was delayed is read after a later connection
was opened.

## 4. Where code and documentation disagree

Four runs show a disagreement:

* `stale_reset`: `evaluate` does not touch `resettable` while the value is
  beyond the trip threshold, and `active` is false until the trip delay has
  run out. In that window a reset is accepted, though the operating procedure
  asks that the value be beyond the reset threshold for `reset_delay`.
* `turbine_stop`: the physics of the turbine take it from OFF to STARTING above
  100 RPM whether or not an operator has stopped it. The other devices keep
  the promise (`device_hold`, and `StopHolds` in section 5).
* `restart_loses_trip`: a trip is on disk only after the next periodic save. A
  kill within that second clears it, though `persistence.py` promises that a
  restart never does. `ImplementsMemory` states what does hold: the restart
  brings back exactly the memory that was saved.
* `restore_image`: the register image that a restore rebuilds between two scans
  shows a sensor's reading of the scan before the restore, because the cache of
  readings is valid until the next scan.

The following were noticed while the modules were written. Each is behaviour
of the code, modelled as it is where its component is modelled. No run has a
property that says the contrary; where one of the properties has to except such a
behaviour, that is said here.

*Bus and snapshots.*

* A `step(n)` that arrives while a tick is in flight is charged for that tick, and
  n - 1 more are run (`bus.py:275`, `bus.py:379`). A resume requested during a step
  is ignored because `paused` is false, and the plant pauses when the step
  ends (`bus.py:371`).
* `resume` and `step` do not take the snapshot lock. During a save they let
  ticks run while devices send their states, so the parts of one file may come
  from two ticks (`docs/snapshot.md:32` says the simulation is paused; `WholeSlice`
  is about the saves nobody interferes with). During a restore they let a tick
  be in flight when `tick` is set back; the tick then looks up a waiter that is
  gone.
* A save during a `step(n)` ends with a resume that finds no step budget, and the
  plant runs freely afterwards; an operator's pause during a save is lost.
* An incomplete save overwrites the complete file of that name to which
  `last_snapshot` still points; a device that is not connected is not expected,
  so a save without it counts as complete.
* A tick sends to every device and waits for `drain()` without a timeout before
  the wait that has one (`bus.py:300`, `bus.py:173`). A device that keeps its
  connection and reads nothing stops the plant, though `docs/architecture.md:100`
  says that the others go on after `tick_timeout`. `TickEnds` and `StepEnds` except
  it; without the exception TLC finds the tick that never ends.
* A connected device that hears no TICK for max(1 s, 10 dt) scans by itself
  (`base_device.py:987`): at a low speed (`set_speed` allows 0.01, and
  `docs/operations-manual.md:486` advises a lower speed for slow devices), or after
  the tick loop has died. A complete snapshot then has parts of two moments, though
  `docs/snapshot.md:31` calls it one slice of time. `WholeSlice` and `LockStep` are
  about the devices that have not run by themselves.
* An answer that was computed before a restore and arrives after it is judged
  GOOD by its tick (`docs/operations-manual.md:467`). `GoodIsFresh` excepts it and
  `PlantBus` has no restore, so no property catches it. In
  `_handle_no_message` a device sets every input STALE, so the BAD of
  `protocol.py:72` is hardly reached.

*Device.*

* A refused START has already cleared the operator's stop (`base_device.py:539`).
* The command sequence is compared with that of the last accepted reset only
  (`base_device.py:578`), so of the sequences 1, 2, 1 the third is accepted.
  `docs/plc-integration.md:138` asks for a value that was never used, so that a
  packet sent again resets nothing. No property promises it. `COMMAND_LEASE_TIME`
  has no effect.
* The protections of the boiler go by the true pressure and level
  (`boiler/main.py:360`), its registers and published values by `sensor_sample`,
  whose docstring (`base_device.py:388`) says that all three must see one reading;
  the test of it looks at the turbine only. `OneReadingPerScan` is about those who
  ask `sensor_sample`.
* A clean restore of a snapshot taken under an emergency stop leaves the device
  OFF with the coil on until the next scan trips it: `EstopHoldsTrip` is a
  property of `Device`, not of `DurableDevice`.
* `apply_comm_loss` of condenser, boiler and turbine writes the device's own
  holding register, against the docstring at `base_device.py:467`.
* An alarm acknowledged while it is active stays in `ALARM_WORD` until the next
  acknowledgement after it clears (`docs/operations-manual.md:333`). A fault clear
  without a category ignores the name.
* A mask write reads the register image, not the queue, so of two writes
  between two scans one may be lost.

*Device programs.*

* A regulator that is restored loses `_track_pending`, so a snapshot does not
  restore its state exactly (`docs/snapshot.md:26`).
* Generator: START does not clear the block of a running generator's breaker; an
  OPEN while the breaker is open does not block; a forced safe state that is
  masked by a turbine trip does not block the automatic reclosing; `BREAKER_FAIL`
  is never cleared; STOP and `BREAKER_CLOSE` in one scan close the breaker of a
  generator that is OFF.
* Boiler: it may run without a flame while STOPPING; the mark of a finished
  pressure rise survives STOP and START; a runback hides a flame failure; the cap
  of the start-up does not hold in manual mode. The permissive that asks for a
  feedwater pump asks for a flow that is not negative, which every flow is.
* The valve stays RUNNING through a boiler trip and reopens when it is reset, so
  the comment at `steam_valve/main.py:148` holds on a cold start only, and a boiler
  restart waits for the steam flow to fall. After a high-high drum level only
  the blowdown lowers the level before the reset.
* The feedwater tank stays OFF after a trip and a reset
  (`feedwater_tank/main.py:88`).

*Controllers.*

* A target that answers the trip matrix with an exception is not commanded again
  while the trip lasts (`external_plc.py:235`, `external_plc.py:311`), though
  `docs/plc-integration.md:236` and the program's own comment say to try again. Nor
  is one that is offline when its edge is seen or does not answer, and a source
  that is reset and trips again between two polls shows no edge.
  `TripReachesTargets` therefore promises a command, and a stop only where the
  command is taken.
* The gateway writes the coils and the registers of a command apart, so the scan
  that drains the coil of a reset may come before its key: the reset is refused
  and the operator asks again. A pulse can be lost when the device lets a whole
  write cycle (100 ms) pass between two scans, as it does at a low speed, behind a
  late device and in a pause; the generator only checks that the pulse outlasts
  the write cycle. `PulseReaches` excepts the second and is not about the first.
* The supervision of the gateway programs clears `comm_lost` for a stale time
  when the counter comes round onto a frozen echo, about every 3.6 hours,
  against the comment at `tools/generate_openplc_gateway.py:571`;
  `LostTellsSilence` allows for it.

## 5. Proofs

Each theorem holds for every value of the module's constants that satisfies the
assumptions the module states about them (`ProtectionAssumption`,
`DeviceAssumption`, `AccessAssumption`, `BusAssumption` and so on), which TLC
evaluates in the runs. Nothing else is assumed.

| module | theorem | states |
| --- | --- | --- |
| `DeviceProofs` | `TypeCorrect` | `Spec => []TypeOK` |
| | `LatchesAgree` | `Spec => []LatchConsistent` |
| | `EstopTrips` | `Spec => []EstopHoldsTrip` |
| | `CommLossTrips` | `Spec => []CommLossHoldsTrip`, if the hold time is above zero |
| | `OnlyResetReleases` | `Spec => ReleasedOnlyByReset` |
| `DurableProofs` | `DurableTyped`, `ConsistentAcrossRestarts` | `DurableSpec => []DurableTypeOK`, `[]DurableConsistent` |
| | `MemoryImplemented` | `DurableSpec => ImplementsMemory`: the refinement of `TripMemory` |
| `StopProofs` | `StopHolds` | `Spec => StopHoldsUntilStart`, unless the device is the turbine |
| | `StartsAllowed` | `Spec => StartsOnlyWhenAllowed`, unless it is the turbine |
| | `StopSurvivesRestart` | `DurableSpec => StopOutlivesProcess`, unless it is the turbine or the feedwater tank |
| `BusProofs` | `BusTyped` | `Spec => []TypeOK` |
| | `ReconnectionKept` | `Spec => ReconnectionSurvives` |
| | `PauseKept` | `Spec => []NoSplitPause` |
| | `AnswersOfThisTick` | `Spec => []AnswersAreOfThisTick` |
| `SnapshotProofs` | `SnapshotsAreSlices` | `Spec => []WholeSlice` |
| | `PlantInStep` | `Spec => []LockStep` |
| | `ClockSetBackInPause` | `Spec => NoTickRewound` |
| | `FreeOnlyWhenAsked` | `Spec => RunsFreelyOnlyWhenAsked` |
| `ModbusProofs` | `OneController` | `Spec => []OneWriter` |
| | `BusyIsJustified` | `Spec => []BusyJustified` |
| | `OutsidersKeptOut` | `Spec => []OutsidersReachSafetyOnly` |
| | `AccessImplementsBank` | `Spec => ImplementsBank`: the refinement of `RegisterBank` |
| | `AccessTyped` | `Spec => []TypeOK` |
| `ProgramProofs` | `GeneratorTyped`, `BreakerOpensInDanger`, `NoReclose` | `[]GeneratorTypeOK`, `[]SafeMeansOpen`, `NoAutomaticReclose` |
| | `FireIsPurged` | `BoilerSpec => []PurgeBeforeFire` |
| | `PumpRunsDown` | `PumpSpec => []RunsDown` |
| | `RegulatorLimited`, `HandsOverSmoothly` | `[]RegulatorTypeOK`, `Bumpless` |
| | `OpensGradually` | `ValveSpec => NoJumpOpen` |
| | `UnitsTyped` | `Spec => []TypeOK` of `MCPrograms`: every unit keeps its type |
| `LinkProofs` | `OccurrencesKept` | `AlarmsSpec => []OccurrencesStay` |
| | `ReadsOnce`, `OnlyLabDevicesFail` | `FaultsSpec => []OneReadingPerScan`, `[]FaultsNeedLabMode` |
| | `GoodValuesFresh` | `SignalsSpec => []GoodIsFresh` |
| | `SilenceTold` | `SupervisionSpec => []LostTellsSilence` |
| | `OneRelease` | `ResetLinkSpec => []OneReleasePerRequest` |
| | `PulseSeen` | `GatewaySpec => []PulseReaches` |

**`Device`.** The inductive invariant is
`IInv == TypeOK /\ LatchConsistent /\ EstopHoldsTrip`. `LatchConsistent` alone is
not inductive: `Reset` needs "an active trip is latched" to leave no active
trip behind, `ForceTrip` needs "the first-out is itself a latched trip", and the
phase after a reset is right only because `TRIPPED` and "something is latched"
mean the same before it. `EstopHoldsTrip` needs `LatchConsistent`, since after
`HandleEstop` the device must stay TRIPPED through self hold and physics, and
those look at the phase and the latches. The proof follows the scan: one lemma
per engine operation says that it keeps `EngineConsistent`, one per stage of the
scan says that it keeps the type and `Consistent`, and one per stage that may
disturb the emergency stop says that it does not. The two action properties
follow from the same lemmas and from which latches each stage may remove: only
`HandleReset` removes one. `CommLossHoldsTrip` needs to be carried through the
scan as well: what holds after the stage that trips must hold after each later
stage, and a reset that comes before it in the scan must not leave the loss
behind.

**Restarts.** `DurableInv` says that the memory in use, the row on disk and each
state sent to a snapshot are sound, each by itself: latches, first-out and phase
agree. A boot from a sound row is sound again, and so is a restore. The
refinement needs more than the invariant: that a scan which replaces the cause
without a reset cannot exist, which is `ReleasedOnlyByReset` again, and that
neither a boot nor a restore invents a cause.

**Stop.** A scan is followed stage by stage with `Remembers`: a stage without a
START forgets no operator's stop and sets no stopped device in motion. The
stages that may move a device are self hold, which asks for the stop, and the
physics, which moves it on only from a phase that is not OFF; the turbine's are
the exception, and `turbine_stop` shows that it is a real one. `StartsAllowed`
follows the same stages in two parts. `AddsNoStart`: a stage other than a START
and the self hold puts no device in motion. `Started` and `Allowed`: a device that
the commands have put in motion was given a START outside maintenance, and one
that the self hold has put in motion had its permissives. That it is neither
tripped nor under emergency stop at the end of the scan is the invariant of
`Device` after the step.

**`PlantBus`.** What one device and its connections look like is said of that
device alone, so an action disturbs one device or gives each one message more. Held-up sends only
take steps away from the loop, so the safety theorems do not depend on them.
`LinkInv` relates the numbers of connections: the bus has registered at most the
newest, its end has not been read, and every message in flight belongs to a
connection that was opened. `PauseInv` is the heart of `NoSplitPause`: what a
device will believe once it has read what is under way (`Told`) is what the bus
believes; each pause, resume, step and the end of a step changes both sides. For
`AnswersAreOfThisTick`, `Sorted` says that the answers under way are in the order of
their ticks and none is of a future tick, and `Counted` that what the bus counts
for the tick in flight was computed in it.

**`Snapshots`.** `HaltInv` says that a job nobody has disturbed keeps the plant
paused, and that once its `pause()` has waited no tick is in flight; the two
action properties need no more. For `WholeSlice` and `LockStep` the state of a
device is looked at as it will be when the device has read its messages
(`Ends`); SAVE and the pause messages do not change it. A device that has a TICK or
a RESTORE to read may run by itself meanwhile and still ends where that message
puts it; one that has nothing of the kind to read is out of step. A device that is in step either ends at the tick of the bus or, during
a restore and once it has acknowledged, at the part it was given; what it has
told the bus in the job at hand is that value as well (`Following`,
`Answering`). An answer counts only for the job whose number it carries, so the
invariant also has to know that no number in use is of a job to come (`IdInv`)
and that a device is asked at most once in a job (`AskInv`). A file is then a
slice because the answers it was made of are.

**`ModbusAccess`.** The code keeps one owner and one expiry, the properties
speak of when every client was last let through. `LeaseInv` relates them: the
lease runs from a moment at which its owner was let through, and whoever was let
through within the lease time is the owner. `OneWriter` uses the second half,
`BusyJustified` the first. For the queue, `QueueInv` adds that it is a sequence of
commands; it holds whatever the memory contains, because a request takes from
the memory only the bits of its mask. In the refinement of `RegisterBank`, what
waits for a register is the queue drained onto nothing. The queue is drained by
a recursive function, and induction over data is out of the prover's reach; so
`Ordered`, part of the invariant, says of the queue at hand that it can be
drained onto every memory, with one result. It holds of the empty queue and of a
queue with one command more, which is all that a request does to it.

**Programs.** Each invariant adds to the property what the program keeps for
itself. Generator: what was opened deliberately is blocked (`heldOpen` implies
`blocked`), and what each stage of `step` does to the breaker. Boiler: in PURGING
the purge done and the time left add up to a whole purge, and OFF, PURGING and
TRIPPED burn nothing. Pump: the speed plus the rate times the scans it was told
to stand is at most the full speed. Regulator: after a `track` the mark is set, so
the next update takes the integral from the output. Valve: both regulators put
out the same, and with power not more than the command, so the one that takes
over starts from there.

**Links.** Alarms: what has not been seen is unacknowledged, in use and in the
copy. Faults: what was sampled in this scan is in the cache, and every reader that
samples is answered from it. Signals: in the table, in the copy and in every answer under
way, the age by ticks is the true age or the signal is marked as lost by a
restore.

*Supervision.* The echo is the counter of a tick at most `Lag` ago while the
device answers, and does not move when it does not. `EchoDated`, `StaleSince` and
`StaleSoon` tie the count of stale ticks to the number of ticks the echo has
stood still; the assumption that the turn of the counter is longer than the
stale time and the lag together is where the rest follows from.

*Reset link.* The writes of `reset_trip` are numbered: the sequence and, within
it, key, sequence register and pulse make a rank. `InOrder`: what is on the
connections is in the order of rank, along each connection and from an older to
a newer one, and nothing outranks what the master does now. `Sequenced`: unless a
write of a closed connection has overtaken a newer one (`counts.overtaken`), the
device has taken no more resets than the sequence it last saw, and whatever it
may still read outranks what it has. A scan that accepts a reset must find
another sequence than the last one, so each release costs a request.

*Gateway.* `Due` counts the slots until the coils are written next. A pulse that
has not been seen is either not written yet, and will be before it is over,
because it outlasts the write cycle; or it waits in the device (`Waits`), which
has then not scanned since, so that by the next write a whole write cycle
without a scan will have passed and the pulse counts as `late`. Nothing is
assumed of the places of the two writes or of when the device scans.

**Composition.** `MCPrograms` lets one unit move at a time. `UnitsStart` and
`UnitsMove` show that its behaviours are behaviours of every unit's own
specification, which is what the theorems about the units are about; so
`UnitsTyped` follows from the units' types, and so does whatever else is proved
of a unit.

**Only model-checked.** Every invariant and every action property that a
passing run checks is stated by one of these theorems. What stays with TLC is
liveness, since fairness and `ENABLED` are out of the proof system's reach:
`LostWatchdogTrips`, `SelfStarts`, `TickEnds`, `StepEnds`, `JobEnds`,
`TripReachesTargets`, `PlantComesUp`. So do the four violations of section 4.

## 6. Not modelled

* The physics: floating point without a discrete state to protect. Where a
  device program depends on it, the value is an input in zones.
* The register map and its encoding: tables and byte packing.
* Historian, HMI, `plantctl`, the reading routes of the HTTP interface, the
  scenario runner, the other generators of gateway files: they call operations
  that are modelled, only read, or write configuration.
* Trends, events, totalizers and logging: no property is about them.
* Reads over Modbus and malformed frames. `_busy` is never seen set: it is TRUE
  only inside a scan, which does not pause.
* The limit of the client's queue (2000 messages), the listeners, and the speed of
  the simulation but for what `Snapshots` lets a device do when it is low.
* The timeout of `pause()` itself (`bus.py:367`), which is longer than a tick can
  last while peers read.
* Of the external PLC its overspeed rule and operator console; of the gateway
  programs the addresses and files around the cyclic program. `Supervision` does
  not restore devices, which sets an echo back for a scan.
* Of the plant's start the hotwell, which the makeup valve holds, the blowdown,
  which needs hours, and what the regulators do within a zone.

## 7. What could follow

1. A model of `PlantStart` in which a scan is that of `Device`, so that emergency
   stop, operators' stops and lost connections take part in the start.
2. The safety half of the liveness properties: for a pending tick, step or job, a
   measure that every step of the bus keeps or lowers, as an action property that
   can be proved.
3. Reads over Modbus beside the scan, with a property of what a client may see.
