# Wall-pad MQTT bridge: TLA+ models and proofs

The bridge connects the RS485 bus of a Korean apartment ("wall pad", Kocom protocol) and a
heat-exchange ventilator (Grex protocol) with Home Assistant (HA) over MQTT. It is one Python
process with two threads: paho's network thread, which runs every MQTT callback, and an asyncio
event loop, which runs the RS485 readers and the state synchronizer. The two share mutable
dictionaries without a lock. Python sources are under `src/src/wallpad/`.

## 1. Inventory

### Components, their state and their operations

| Component | State | Operations |
|---|---|---|
| `StateSynchronizer` (`apps/panel/synchronizer.py`) | per sub-device `state`, `set`, `last`, `count`; per room `scan.tick/count/last`; the place in the sweep | every 0.2 s, if the bus is idle: for each room `poll_room` (a burst of queries) or `reconcile_device` (send, wait, retry, give up) |
| Category controllers (`apps/panel/devices/*.py`) | own the rooms' states | `apply_ha_command`, `reflect_rs485` with `recover_if_confirmed`, `make_packet`, `get_optimistic_state` |
| `Panel` (`apps/panel/panel.py`) | receive buffer, maps | routes commands, scan requests and debug frames from MQTT; frames the byte stream; `process_packet`; `send_packet` |
| Discovery (`ha/discovery.py`) | `expected_echo_topic`, `ha_ready` | `publish`, `handle_echo`, restart, remove |
| MQTT client (`mqtt/client.py`) | session, callbacks | `connect`, `_on_connect` (subscribe, then publish), `_on_message` |
| `BusArbitrationTransport` | time of the last bus activity, write lock | `is_idle`, `write_if_idle` |
| `ReconnectingTransport`, socket, serial | connection | `read`, `write`, `_reconnect` |
| `Ventilator` (`apps/ventilator/`) | `desired`, `controller_status`, `ventilator_status` | fan command, status of the wall controller, status of the unit |
| Codecs (`protocol/kocom`, `protocol/grex`) | none | frame <-> fields, checksum |
| Factory, configuration, naming, `main.py` | none after start-up | build the rooms; parse options; start transport, tasks and MQTT in this order |

### Interactions

* MQTT thread -> controllers: a command sets `set` and marks `last = "set"`; HA may be answered at
  once ("optimistic" state).
* Reader task -> controllers: a status frame sets `state`, ends the poll burst and settles a pending
  `set` that it confirms; HA is told what was read.
* Synchronizer -> `Panel.send_packet` -> `write_if_idle`: the only path by which commands and
  queries reach the bus. A frame that meets a busy bus is dropped without notice.
* Discovery -> synchronizer and command path: the event `ha_ready`; the synchronizer waits for it
  once, the command path looks at it for each command.

### What is hard

Commands, reports and sweeps interleave: a task suspended in a write wakes up to other wanted values;
marks are set before what they stand for has happened (a frame counts as sent before it is written);
reports may be older than the command they seem to answer; the retry count is written by three
parties; an exception ends a sweep in the middle; a gate opened through a callback of another thread
may be opened for a publication that is no longer the newest; connections are lost with what was on
its way. `PROJECT.json` lists each hazard at its line, with the properties that cover it or the
reason why none does.

### What makes each component correct

* Synchronizer and controllers: no retransmission beyond the limit; no command withdrawn without a
  confirmation or its retries; a frame never carries less than the newest command it stands for;
  bounded poll bursts; every command and every due room is eventually served.
* Discovery: one echo must vouch for the whole publication; the gate opens again after any loss,
  restart or removal; commands and polling stay behind it.
* Transport: reader and writer agree on one live connection; writes do not overlap; whatever waits for
  the connection or the lock is served; the bus is not called idle when it is not.
* Ventilator: what HA is shown, what HA wished and what is forwarded agree.
* Codecs: parsing inverts building; a broken stream is resynchronised.

## 2. Modules

| Module | Models |
|---|---|
| `Synchronizer` | synchronizer, controllers, command, report and send path, bus as the synchronizer sees it |
| `MCSynchronizer` | small homes for TLC |
| `Synchronizer_proofs` | theorems about `Synchronizer` |
| `Discovery` | discovery handshake, MQTT session, broker, the gate |
| `MCDiscovery` | a panel with two entities for TLC |
| `Discovery_proofs` | theorems about `Discovery` |
| `Transport` | socket, reconnection and bus arbitration under one reader and several writers |
| `MCTransport` | three writers for TLC |
| `Transport_proofs` | theorems about `Transport` |
| `Ventilator` | the bridge between wall controller and ventilator unit, HA's commands |
| `MCVentilator` | a wall controller with all kinds of settings for TLC |
| `Ventilator_proofs` | theorems about `Ventilator` |
| `CommandDelivery` | abstract specification: what HA may expect of a command |
| `Delivery_proofs` | `Synchronizer` implements `CommandDelivery` |
| `WallPad`, `MCWallPad` | `Synchronizer` in a closed loop with the devices it controls |
| `WallPad_proofs` | what HA and people did is not undone, and HA is shown what is |
| `Framing`, `MCFraming` | how the readers find frames in the byte stream |
| `Framing_proofs` | theorems about `Framing` |
| `Addressing` | rooms, addresses, builder, parser, factory and controller map |
| `Startup`, `MCStartup` | `main.py`: options, lines, broker, sessions; with the exchanges of `Addressing` |
| `Startup_proofs` | theorems about `Addressing` and `Startup` |

### `Synchronizer`

A *room* is one `RoomState` (category x room), its members the `SubDeviceState`s in dictionary
order. `Kind[r]` says which controller owns it. The variables `state`, `set`, `last`, `count`,
`scanTick`, `scanCount`, `scanLast` are the fields of the code; `shown` is what HA was told last.

*Time.* The code compares timestamps only with the `now` its sweep sampled. Each timestamp is kept
as its age at that sample (`age`, `scanTick`, `scanLast`); ages grow only when a sweep (or a skipped
one) samples `now`, by a member of `Steps`, and stop one past the last threshold they are compared
with. A gas command is stamped in the future by the code (`GAS_CONFIRM_EXTRA_DELAY`): its age starts
negative. A timestamp of 0 is an age past every threshold (`Ancient`).

*Steps.* The task's program counter `pc` stands at its suspension points: asleep between sweeps, the
sleep after a query (`polled`), a write (`writing`); the loop over rooms and sub-devices
(`visiting`, `reconciling`) is cut at every room and sub-device, because the MQTT thread can run
between them. `MarkSent` is the bookkeeping before a send; then the frame is built (`SendRaises` when
the target temperature does not fit its byte), dropped on a busy bus (`SendDropped`) or written
(`Send`, `Written`). Every callback of the MQTT thread (`HaCommand`, `HaScan`) and every processed
frame (`Report`) is one step. `Readings(r)` is what the parser can make of a status frame; values
are abstract, the couplings in the code (mode and speed, mode and target, lamp 0 and the lamps) are
kept. `Noise` and `Quiet` are bus activity and the silence that makes the bus idle; a frame handed
in over the debug topic is a `Report` that leaves the bus idle. The current temperature of a
thermostat is never commanded and is left out. `inputs` counts HA's inputs up to `MaxInputs`.

`attempts` and `commands` are history variables: sends decided and commands received since a
sub-device was last settled.

### `CommandDelivery`, implemented by `Synchronizer`

An account of commands and nothing else: a thing is wanted at a value, its command is pending, it was
asked for and tried so often, HA was told so much. No room, sweep, poll, clock, frame or bus. Three
sentences are in it: a pending command is tried at most `Limit` times more than it was asked for; the
command of a lamp, socket, fan or thermostat (`Firm`) stops waiting only when HA is told the very value
it wants, or when the tries are used up; an elevator (`Once`) is called once. `Synchronizer` maps its
variables (`Delivery`, an `INSTANCE ... WITH`): `wanted` is `set`, `pending` the sub-devices whose
`last` is `"set"` or a timestamp, `told` what was published. `DeliversCommands` is `Delivery!Spec`.

### `WallPad`

In `Synchronizer` any status frame may be heard at any time, which is right for what must hold whatever
the devices do, and says nothing about whether the devices do what HA wants. Here `device` is what they
are; a device answers a query or a frame with what it is (`Queried`, `Obeyed`, `Heard`), people use
switches and remote controls (`Press`), frames and answers get lost (`FrameLost`, `AnswerLost`); the
last three are counted up to `MaxFaults`. The actions of `Synchronizer` are used as they stand,
`Inside` collects those that touch no device. `due` is the history of what HA or the devices
themselves last set; `sight` marks a room about which nothing is promised any more, because something was
lost, pressed or given up on, or because its first burst of queries went unanswered. Devices start in
any state, of which the program knows nothing; it initially believes everything off.

### `Discovery`

Publications are numbered; 0 stands for what an earlier run left at the broker: `leftover`, one of the
sets of topics in `Leftovers`, which stays what it was. `toBroker` and
`toClient` are the two directions of the MQTT connection, in order and lost with it. `Publish` is
`HandshakeHaDiscoveryCoordinator.publish`; `Connect` is `_on_connect`, which subscribes before it
publishes; `Receive` routes a message to `HandleConfig` (the echo), `HandleRequest` (restart, remove)
or `HandleCommand`; `OpenGate` is the event loop running one posted `ha_ready.set`. The broker
(external) answers a subscription with what it retains, in any order (`Resends`), keeps the newest
config message of a topic and echoes it to a subscriber; a removal is an empty retained message,
which is echoed but not kept. `NeverConnect` is the one attempt of `MqttClient.connect` failing.
`confirmed`, `swept` and `accepted` are history variables. `poller` tells whether the synchronizer
has passed its only wait for the gate.

### `Transport`

One task reads (`Panel.receive_packets`), several write (`write_if_idle`, called by the synchronizer
and for debug frames); `at` tells where each is suspended, `queue` is the FIFO lock with its holder
first. All share `link`, the one connection that `SocketTransport` holds. A pending read is woken when
its connection is lost, ended, closed or replaced: with an exception (`failed`) or with no bytes
(`eof`), as asyncio's streams do. Then the reader asks for the next byte of whatever connection is
current by now (`NextRead`): an ended or closed one returns no bytes without suspending, again and
again (`spinning`), and nothing else runs on the event loop any more. `Lost` is `_reconnect` up to its
sleep, `ReconnectFails` its next round, which closes the current connection, be it the other task's
fresh one. `WriterReconnects` sends the frame right after connecting, without a second look at the bus.
A write on a connection that was reset raises at once; on a closed one, or one that turns out to be
broken, after a suspension (`draining`). `quiet` is `is_idle()`; the history variable `bus` is what
really was on the bus last, `Unheard` the traffic while nobody reads. Which bytes are read, and the
back-off's length, are left out. The order of timers and of woken tasks matters in one place: a task
that sleeps for seconds wakes after a reader that was woken (`SleepOver`).

### `Ventilator`

`desired`, `controllerStatus` and `ventilatorStatus` are the code's; `pc`, `response` and `control` the
locals of `handle_controller_status` at its two awaits. `HandleControllerStatus` is the handler up to its
first write: it compares, tells HA, computes both packets; `Respond` and `ControlArrives` or `ControlLost`
are the writes, during which commands and the unit's frames are handled. A mode or speed that the codec
does not know is a value outside `Modes` or `Speeds`; no control packet can be built from it (`NoPacket`).
The wall controller (`Settings`), the unit (`UnitSpeeds`) and HA, whose payloads nobody checks
(`ModePayloads`, `SpeedPayloads`), may all come up with one. `fan` and `sensor` are what HA was told last.
External: the wall controller, whose setting `wall` people change (`Press`), the unit, which does what it
is told, and their status frames, sampled when sent and read later; a frame that gets lost is one that is
not sent. The ventilator's own use of the reconnecting transport is left out.

### `Framing`

`buf` is the buffer of `receive_packets`, of the panel and of the ventilator, which differ in their
tables of starts and lengths only (`FrameLength`, one length for Kocom, two for Grex). `Read` appends what
a read returned while the inner loop has too little to decide (`Waiting`); `NoStart` drops a byte that
begins no frame, `Handle` takes a frame whose checksum is right, `Broken` drops one byte of one whose
checksum is wrong. `read` and `handled` are history variables: the stream, and where the handled frames
lie in it. The checksum is a parameter. A connection that ends leaves an empty element in the buffer of
the code, which begins no frame: it is one more byte of the alphabet here.

### `Addressing` and `Startup`

`house` is a configuration: `RoomConfig`s and which devices without a room exist. Lamps and sockets share
an address, a room's thermostat has another one, and in the default wiring those of two rooms cross. The
four dictionaries of `AppConfig` keep the last of equal keys (`LastOf`). `Ask` is a query or command the
panel builds, `AskForHa` one that HA hands in over the debug topic, `Answer` the device, `Overhear`
anybody else on the bus, `Hear` the reader: decode, look the controller up, update. `asked` and `heard`
are history variables. What the values in a frame say is modelled in `Synchronizer`; here only which
sub-devices they are for.

`Startup` extends it by `main.py`: `stage` is where `main` stands. Options are checked (`Validate`), the
panel built and its line opened, then the ventilator's two lines, then the broker tried once
(`ConnectBroker`). Parts register their topics when they are built (`routes`), their tasks start when
their last line is open (`running`); `SessionUp` is `_on_connect`, which subscribes to what is registered
by then; `Echo` is dropped when the panel has no event loop. `PanelWorks` are the exchanges of
`Addressing`, which need the tasks, the gate or a subscription.

## 3. Runs

| Run | Question | Properties |
|---|---|---|
| `sync_lights` | Switches, sweeps faster and slower than the retry interval | `FreshFrame`, `RetriesBounded`, `DeliversCommands` |
| `sync_gas_elevator` | Never polled and never retried elevator, delayed gas | `IInv`, `BurstBounded`, `EventuallySettled`, `DeliversCommands` |
| `sync_thermostat` | A frame that cannot be built | `NoEarlyWithdrawal`, `NoGroundLost`, `EventuallySettled`, `ScanServed` |
| `wallpad_lights` | Frames that repeat what siblings were | `InForce` |
| `wallpad_fan` | Coupled mode and speed, a fan that obeys and answers | `InForce`, `ShownHonest`, `ShownConverges` |
| `discovery` | Outages, restarts, removals, commands; a first run or a later one | `IInv`, `EchoSpeaksForAll`, `GateHolds`, `GateReopens` |
| `transport` | Resets, ends of file, overlapping and failing reconnections | `IInv`, `OneWriter`, `IdleIsQuiet`, `ReadsAgain`, `WritesEnd`, `CutsInOnlyLate` |
| `ventilator` | Settings, commands, late and lost frames | `IInv`, `ShownTrue`, `WallDecides`, `UnitObeys`, `ProxyShown` |
| `framing` | Noise, broken frames, frames inside frames | `IInv`, `NoFrameSkipped`, `NoFrameDelayed` |
| `startup` | Options, lines, sessions; crossed addresses | `SessionComplete`, `PollingStarts`, `EveryPartStarts`, `ComesHome`, `FromItsOwnAddress` |

Violations, each a disagreement between the code and a sentence of its documentation (quoted in
`PROJECT.json`):

| Run | What TLC finds |
|---|---|
| `transport_starved` | an end of file makes the reader spin: the event loop stands still |
| `discovery_gated` | polling goes on after a restart, removal or reconnection, before the echo |

*Bounds.* `RetryLimit = 1` lets a command be sent, retried and given up on (0, sent and given up on,
where coupled values or devices make up for it: thermostat and the closed loops); `RetryInterval`,
`PollStep` = 0 and `ScanInterval` = 1 with steps of 1 (0 and 1 for the lights) make every threshold
comparison come out both ways; `GasDelay = 1` delays the first retry of the gas valve by one sweep.
Two inputs are the least with which a command overtakes another one, or a scan request a burst; the
state space is finite without bounding time, sweeps, reports or noise. Homes have one or two rooms:
rooms interact only through the bus, the order of the sweep and exceptions that end it. Three lights
(the group and two lamps) are the smallest room with siblings; HA commands the group and the first
lamp, the other lamp is the sibling. The discovery run has two entities,
on the panel's first run and after a run that left the last topic at the broker (`FirstOrNot`), two outages
and two requests. Its behaviours end when
nothing is on its way and the bounds are used up, hence `CHECK_DEADLOCK FALSE` there; the
synchronizer never stops. `Transport` needs no bound: faults and reconnections may go on for ever;
three writers are a holder and two that wait. It stops where the code does, when the reader spins.
`Ventilator`: two commands turn the fan on and off or change its speed, one change at the wall
controller meets them in any order, from any initial setting, so that the parties alternate in charge.
The wall controller, the unit and HA each have a value that the codec does not know. One frame may wait
per line besides the one being handled; with two, and known values only, the outcome was the same.

`Framing`: two kinds of frames, of three and four bytes, each of which can begin inside the other, over
four symbols, and streams of eight, long enough for a broken frame with an intact one inside, followed
by another. `WallPad`: two lamps and their group, two commands of HA to single lamps, one loss or press;
the fan with one command to either of its two parts. Its rooms answer all there is to know of them at once, hence
no thermostat, whose frame carries a temperature that is never commanded. `Startup`: a home with crossed
addresses, one with gaps (rooms without lamps, address or heating, a switch at the address of another
room's heating), one with a name twice, to which the properties about addresses do not apply; seven sets
of options, complete ones and ones with an entry missing. There `CHECK_DEADLOCK FALSE` stands because
`main` ends when options are refused or there is nothing to run, and `Framing` ends with its stream.

`discovery_gated` is a first run (`First`) and stops at a sweep, the shortest way; a command can pass as well, as a late
`ha_ready.set` opens the gate of a publication that is not confirmed.

*Fairness.* `Synchronizer`: the event loop keeps running the task (`WF` on `Work`); the bus falls
silent again and again, and the task looks at it while it is silent (`SF` on `Quiet` and `Wake`):
the code looks five times a second and idle means 0.1 s of silence. The last two conjuncts say that
this also happens before a room that was just polled is due again, as `scan_interval` is minutes and
not fractions of a second; without them polling could starve the retries for ever. Nothing is assumed
of HA, of the devices (they may never answer) or of reports. `Discovery`: paho connects or gives up,
the loop runs its callbacks, messages that are not lost arrive. Nothing is assumed of users or of the
connection except the bound on outages. `Transport`: what is ready or due runs, and a gateway that is
tried again and again accepts a connection some time (`SF`); `ReadsAgain` and `WritesEnd` hold up to
the starvation of the loop, which `transport_starved` shows. The order that `SleepOver` observes
disables it for moments, hence `SF` for a timer that is due. `WallPad`: as for `Synchronizer`; besides,
an answer that is not lost arrives, and of the queries that are sent again and again some find the bus
idle (`SF` on `Queried`: a query follows within 50 ms of a look at an idle bus; losses are bounded by
`MaxFaults`, as is what people do). `Startup`: `main` goes on, a line that is tried again and again
opens some time (`SF`), an echo on its way arrives unless the session is lost. Nothing is assumed of the
broker. `Ventilator`: both devices report again and
again, and of packets sent again and again some arrive.

## 4. Proofs

For every home, limit and step size (`LimitsAssumption`, `HomeAssumption`: rooms have disjoint
members, the gas valve and the elevator one, fan and thermostat two, and the default speed, "on",
"off", "heat", "fan_only" are values), `Synchronizer_proofs` shows:

* `LedgerInvariant`: `[]IInv`. `RetriesBounded` is not inductive: that an attempt is within its
  bound depends on why the next send is allowed. `Ledger(s)` balances the account: a send needs a
  command or a retry before it (`attempts + due <= commands + count`), a retry needs a send before it
  (`count + sent <= attempts`), and the count passes the limit only while a retry is due. It needs
  `QueueOfRoom` (what is reconciled belongs to the current room) and `ElevatorNeverSent` (an elevator
  never waits for a confirmation, hence is never retried).
* `BoundedRetries`, `WithdrawalIsEarned`: from the ledger; a sub-device stops waiting in `Report`
  (confirmed) or `Abandon` (count exhausted, hence attempts exhausted).
* `FrameIsFresh`: with an invariant that links the frame to the marks; a command during the write
  re-marks the values it changes, so they have a send of their own coming.
* `BurstIsBounded`: a burst ends in the visit in which it reaches its limit.
* `NothingStartsOver` (`NoGroundLost`): what stands behind the liveness properties. Of a pending
  sub-device, `Effort` (a send and its time-out count one each) is never lowered unless HA sends another
  command, and a burst that is due never starts over unless HA asks for a scan; a step that would reset
  either settles the sub-device or ends the burst. `EffortEnds`: the effort is at most
  `2 * RetryLimit + 2`, by the ledger. That each further step of it is taken in time is what fairness
  must give, and only TLC checks (`EventuallySettled`, `ScanServed`).

For any number of entities, outages and requests (`TopicsAssumption`: the topics are distinct and
there is one), `Discovery_proofs` shows:

* `HandshakeInvariant`: `[]IInv`. What is on its way to the broker ends with the newest publication
  in topic order and its arrived part has arrived (`InOrder`); everything ahead is older and the last
  topic has not arrived while anything is on its way (`OlderAhead`); so its arrival, and any echo of
  it, tells that all the rest arrived (`LastTells`).
* `EchoIsEnough`: `[]EchoSpeaksForAll`, a consequence.
* `GateIsHeld`: `[]GateHolds`. Its hypothesis, that no earlier run left the awaited topic behind, is that
  of a first run; what happens without it is among the observations. `GateInv` is inductive together with
  `IInv`: the awaited message follows one of every topic the broker does not have (`AwaitedLast`), so the
  broker, when it has the awaited topic, has them all (`AwaitedTells`); every echo of it is of this run
  (`EchoesAreOurs`), as the broker resends only what it has; and nothing else opens the gate
  (`OpenedByEcho`, `FirstIsGated`). Losing what is on its way keeps all of it.

For any number of writers (`WritersAssumption`: none of them is the reader), `Transport_proofs` shows:

* `TransportInvariant`: `[]IInv`: whoever is inside the transport holds the lock, through any number of
  failed writes and reconnections (`LostStep`, `Release`); a pending read waits on the open connection;
  `is_idle` never overlooks what this program has read or written.
* `WritesExclude` (`[]OneWriter`), `IdleIsTruthful` (`[]IdleIsQuiet`): consequences.
* `NothingElseCutsIn` (`CutsInOnlyLate`): between a byte of another party and a frame of this program there
  is a pause, except for a write that waited for a reconnection, the one path on which the bus is not looked
  at again.

For any settings, payloads and codec tables (`VentilatorAssumption`: "off" is a setting, modes and speeds
are told from the markers, the unit can do and HA can send what the codec knows), `Ventilator_proofs` shows

* `PacketsInvariant`: the unit is sent complete packets only, and nothing of a frame is left when the next
  one is handled; the three values of `pc` and the two packets are tied to each other, which is what makes
  it inductive.
* `WallIsHeard` (`WallDecides`): while the wall controller is on, the unit changes only to its speed, and
  only in a mode the codec knows; while it is off, nothing but HA sets the unit going. The packet was worked
  out two writes earlier; it still is what was asked for (`ControlAsked`) because one task reads the wall
  controller's line, so its status cannot change in between, and what HA sends meanwhile has no part in
  the packet while the wall controller is on.
* `TruthIsShown` (`[]ShownTrue`): the sensor is always of the wall controller's mode, and fan and sensor
  show a speed that one of the lines has reported last. Both handlers publish through `PublishTrue`; HA's
  own "off" is the one exception, for the fan only.

`Delivery_proofs` shows `Delivers` (`Spec => DeliversCommands`), on top of the invariants of
`Synchronizer_proofs`: each action is one abstract step or a stutter. What is not immediate: `MarkSent` is a
`Try` because the ledger says that a further attempt has been bought; `Abandon` is a `GiveUp` because
the count is exhausted only if the attempts are; `Report` is a `Tell` because a `Firm` sub-device is
settled only by the value that HA is told in the same step, although fan and thermostat reflect a frame
one value at a time.

For every home of switches and fans (`WallPadAssumption`: HA addresses single lamps or sockets and sends
what the devices can be), `WallPad_proofs` shows `PadIsSynchronizer`: the closed loop is a behaviour of
`Synchronizer`, so all that is proved of it holds there; `NothingUndone` (`[]InForce`) and `NothingMadeUp`
(`[]ShownHonest`), from one invariant (`PadInvariant`). A room keeps
its promise (`Promised`) because nobody writes while an answer is on its way (`Orderly`), so a frame is
built from what the devices are and not from what they were; because an answer tells what is (`Truthful`)
and the panel does not reconcile a room before its first one (`Known`); because what is pending is the
newest wish, of a fan both parts (`Newest`); and because a frame differs from what is in force only where
HA is waiting (`Harmless`). `Untouched` says that rooms do not disturb each other.
What HA is shown is honest (`Honest`) because an answer tells HA what the device is, not what the panel makes
of it, and because the one wish that HA is shown before a device knows, of a fan, is the newest. Together
they give `AllAgreeAtRest`: where nothing is on its way and nothing waits, what HA asked for, what the device
is and what HA shows are the same.

For any table of frame lengths and any checksum (`FramingAssumption`: a frame has at least two bytes and
the lengths are bounded), `Framing_proofs` shows `FramingInvariant`, `NothingSkipped` and
`NothingDelayed`. Inductive is what is behind the buffer: every byte there belongs to a handled frame or
could not have begun one (`EveryByteDecided`), for a reason that no later byte changes.

For any configurations and options (`AddressingAssumption`, `OptionsAssumption`), `Startup_proofs` shows
`AnswersComeHome` (`[]ComesHome`), `AnswersKeepTheirAddress` (`FromItsOwnAddress`) and
`SessionsAreComplete` (`[]SessionComplete`). Under `Unambiguous` (no two rooms share a name, an address of
lamps or an address of heating, none is called "wallpad") the dictionaries are inverse to each other
(`LastOfOne`: of a single entry the last is that one); the invariant follows what is on its way between
question and answer. For sessions it says what is registered and running at each stage of `main`.

Only model-checked: the liveness properties (`EventuallySettled`, `ScanServed`, `GateReopens`,
`ReadsAgain`, `WritesEnd`, `UnitObeys`, `ProxyShown`, `ShownConverges`, `PollingStarts`,
`EveryPartStarts`; liveness under fairness is beyond the prover), and the two violations.

## 5. Observations

What the models show of the code besides what is checked. None of them contradicts a property above.

* What an earlier run left at the broker opens the gate (`discovery.py:84`): the broker answers the
  subscription with the retained messages, and the one of the awaited topic is taken for the echo of the
  publication that follows it. After a restart of the program commands and polling may therefore precede
  its new discovery; HA knows the entities from the run before. `GateHolds` excludes it.
* Frames dropped on a busy bus use up the retries (`synchronizer.py:91`, `panel.py:295`): a command can be
  given up on that never was on the wire.
* A frame can go out on a busy bus. `bus_arbitration.py:50` and `docs/architecture.md:41` promise that a
  write is let through only while the bus is quiet; `write_if_idle` looks once, before `write`, and when
  that write has to reconnect first, seconds later the frame is sent without another look, however busy
  the bus is by then and whatever is wanted meanwhile. `CutsInOnlyLate` names this as its one exception;
  without the exception it is false.
* A lamp that was switched by hand, without the bridge hearing of it, is switched back by the next frame
  for one of its siblings: `controller.py:103` repeats the last reported states. `InForce` leaves rooms
  out in which something was pressed or lost.
* Any report of the gas valve settles the close command (`gas.py:26`), one that says "open" and was sent
  before the command included; the command is then withdrawn before its first send.
* HA may go on showing another speed than the ventilator runs at: `ventilator.py:151` and `:201` publish
  when a reported status differs from the one before. HA turns the fan on while the unit, about to stop,
  runs at that speed; or HA's "off" is answered with off while the wall controller keeps it running.
  Without HA's interference HA is shown what is (`ProxyShown`).
* What HA sends for the fan is not checked (`ventilator.py:87`). With a mode other than on and off, or a
  speed the codec does not know, there is no control packet and the unit goes on as it was, as it does for
  an unknown mode of the wall controller; nothing tells HA so. `UnitObeys` leaves these settings out (`Known`,
  `Heeded`).
* `docs/sequences.md:26` lets `mqtt.connect()` precede `panel.start()`; `main.py:106` connects last. The
  code's order is what `SessionComplete` and `PollingStarts` need: the mutant with the other order fails both.
* `run_panel` returns an empty list on failure (`main.py:50`), but an unreachable gateway is no failure: it
  waits, and with it the ventilator and MQTT.
* The wall pad's options are validated even when the wall pad is disabled, the socket port never is
  (`config.py:193`): the one stops the program for a part nobody asked for, the other leaves it running
  without the panel.
* Two rooms with one name or address are accepted; the later one wins (`config.py:208`).
* A thermostat query handed in over the debug topic is decoded with the lamps' addresses
  (`parser.py:76`, the source is the wall pad): with crossed addresses another room's heating is asked.
  The answer is filed under the room that gave it.
* Two threads share dictionaries without a lock: a command that arrives between the test and the assignment
  of `synchronizer.py:91` or `controller.py:59` is lost with the old one's mark. Callbacks are atomic
  here, between the sub-devices of a sweep; the window is a few bytecodes.

## 6. Not modelled

* The serial transport's way to lose a port (another stream library under the same code), and the
  ventilator's two transports, which are written without a lock: the frames of both lines are modelled
  in `Ventilator`, their reconnection is not.
* The bytes inside a frame (field offsets, hex digits, temperature and speed tables). What a frame means is
  modelled, how it is found is (`Framing`), whom it is for is (`Addressing`); the rest is data of the
  vendor's protocol, for which the unit tests hold recorded frames.
* Topic names, discovery payloads, defaults of numeric options, logging: sequential handling of strings,
  without state.
* Statement-level interleaving of the two threads (see above).
* Real time: ages are measured at the sample a sweep takes, so a sweep that takes long is modelled as the
  code sees it, and not by a second clock.

## 7. How the modules build on each other

`Synchronizer` came first; `CommandDelivery` abstracts it, `WallPad` closes it. `Discovery` and `Transport`
stand for what it assumes: that the gate opens, that a write returns. `Startup` shows that there is a
panel with its gate and its subscriptions at all, and composes that with `Addressing`. `Framing` stands between
`Transport`, which gives bytes, and `Synchronizer` and `Ventilator`, which take frames. Each invariant was checked
by TLC before it was proved. A next step would be the reconnection of the ventilator's two lines, and a second
clock for the age of a sweep's sample.
