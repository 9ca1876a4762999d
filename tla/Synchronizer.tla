---------------------------- MODULE Synchronizer ----------------------------
(***************************************************************************)
(* The state synchronizer of the wall-pad panel: one asyncio task that     *)
(* sweeps over every room controller, polls the rooms whose state is old   *)
(* and retransmits the commands Home Assistant (HA) is waiting for, while  *)
(* the MQTT thread applies new commands and the RS485 reader reflects the  *)
(* status frames it hears.                                                 *)
(*                                                                         *)
(* A room is one RoomState of the program (category x room); its members   *)
(* are its SubDeviceStates, in dictionary order.  Every callback of the    *)
(* MQTT thread is one atomic step here; the synchronizer task is cut at    *)
(* the points where it can be suspended.                                   *)
(*                                                                         *)
(* Time is the synchronizer's own: a sweep samples `now` once, and each    *)
(* timestamp is kept as its age relative to that sample.  Ages grow only   *)
(* between sweeps, and stop at the first value past the last threshold the *)
(* code compares them with.                                                *)
(***************************************************************************)
EXTENDS Integers, Sequences, Functions

CONSTANTS
    Rooms,          \* the RoomStates
    Subs,           \* the SubDeviceStates of all rooms
    Values,         \* every value a sub-device can have
    Kind,           \* Kind[r]: which controller owns room r
    Members,        \* Members[r]: the sub-devices of r, in dictionary order
    Sweep,          \* the rooms in the order the synchronizer visits them
    Payloads,       \* Payloads[s]: what HA may send to s
    InitState,      \* InitState[s]: the state the factory gives s
    DefaultSpeed,   \* config.kocom_default_speed
    Unencodable,    \* target temperatures that do not fit the frame's byte
    RetryLimit,     \* RECONCILE_RETRY_LIMIT
    RetryInterval,  \* RECONCILE_RETRY_INTERVAL
    GasDelay,       \* GAS_CONFIRM_EXTRA_DELAY
    PollLimit,      \* POLL_BURST_LIMIT
    PollStep,       \* POLL_STEP_INTERVAL
    ScanInterval,   \* config.scan_interval
    Steps,          \* how much time may pass between two samples of `now`
    MaxInputs       \* bound: how many commands and scans HA sends

Kinds == {"switch", "gas", "elevator", "fan", "thermostat"}
OnOff == {"on", "off"}

ASSUME LimitsAssumption ==
    /\ RetryLimit \in Nat /\ RetryInterval \in Nat /\ GasDelay \in Nat
    /\ PollLimit \in Nat /\ PollStep \in Nat /\ ScanInterval \in Nat
    /\ Steps \subseteq Nat /\ MaxInputs \in Nat

ASSUME HomeAssumption ==
    /\ Kind \in [Rooms -> Kinds]
    /\ Members \in [Rooms -> Seq(Subs)]
    /\ Sweep \in Seq(Rooms)
    /\ Payloads \in [Subs -> SUBSET Values]
    /\ InitState \in [Subs -> Values]
    /\ OnOff \cup {"heat", "fan_only", DefaultSpeed} \subseteq Values
    /\ \A r \in Rooms :
          /\ Kind[r] \in {"gas", "elevator"} => Len(Members[r]) = 1
          /\ Kind[r] \in {"fan", "thermostat"} => Len(Members[r]) = 2
          /\ Kind[r] = "switch" => Len(Members[r]) > 1
          /\ \A i, j \in DOMAIN Members[r] : Members[r][i] = Members[r][j] => i = j
    /\ \A q, r \in Rooms : q # r => Range(Members[q]) \cap Range(Members[r]) = {}

VARIABLES
    state,          \* SubDeviceState.state: what the bus last said
    set,            \* SubDeviceState.set: what HA wants
    last,           \* SubDeviceState.last: "state", "set", or "sent" for a timestamp
    age,            \* the age of that timestamp, 0 unless last = "sent"
    count,          \* SubDeviceState.count: retries so far
    scanTick,       \* age of ScanState.tick
    scanCount,      \* ScanState.count
    scanLast,       \* age of ScanState.last
    pc,             \* where the synchronizer task is
    rooms,          \* the rooms this sweep has still to finish, current one first
    subs,           \* the sub-devices of the current room still to reconcile
    frame,          \* the values carried by the frame being written
    idle,           \* BusArbitrationTransport.is_idle()
    shown,          \* what HA was last told about each sub-device
    inputs,         \* how many inputs HA has sent
    attempts,       \* history: sends decided for s since it was last settled
    commands        \* history: commands for s since it was last settled

subVars   == <<state, set, last, age, count>>
scanVars  == <<scanTick, scanCount, scanLast>>
taskVars  == <<pc, rooms, subs, frame>>
history   == <<attempts, commands>>
vars      == <<subVars, scanVars, taskVars, idle, shown, inputs, history>>

SubsOf(r) == Range(Members[r])
All(r)    == Members[r][1]      \* light0, plug0: the whole room
Lamps(r)  == SubsOf(r) \ {All(r)}
Mode(r)   == Members[r][1]      \* fan and thermostat
Level(r)  == Members[r][2]      \* fan speed, thermostat target

None      == [s \in {} |-> "off"]
Cap(a, top) == IF a > top THEN top ELSE a
Ancient(limit) == limit + 1     \* the age of a timestamp of 0

Pending(s) == last[s] # "state"
ScanDue(r) == scanTick[r] > ScanInterval

ExhaustedLate(s) == count[s] > RetryLimit + 1   \* mutant: one retry too many
Exhausted(s) == count[s] > RetryLimit

BurstOverLate(r) == scanCount[r] > PollLimit + 1    \* mutant: one query too many
BurstOver(r) == scanCount[r] > PollLimit

Init ==
    /\ state = InitState
    /\ set = InitState
    /\ last = [s \in Subs |-> "state"]
    /\ age = [s \in Subs |-> 0]
    /\ count = [s \in Subs |-> 0]
    /\ scanTick = [r \in Rooms |-> Ancient(ScanInterval)]
    /\ scanCount = [r \in Rooms |-> 0]
    /\ scanLast = [r \in Rooms |-> Ancient(PollStep)]
    /\ pc = "asleep" /\ rooms = <<>> /\ subs = <<>> /\ frame = None
    /\ idle = FALSE
    /\ shown = InitState
    /\ inputs = 0
    /\ attempts = [s \in Subs |-> 0]
    /\ commands = [s \in Subs |-> 0]

EndBurstUnticked(r) ==  \* mutant: the room stays due
    /\ scanCount' = [scanCount EXCEPT ![r] = 0]
    /\ scanLast' = [scanLast EXCEPT ![r] = Ancient(PollStep)]
    /\ UNCHANGED scanTick

\* A burst ends, with or without an answer: the room is left alone until
\* ScanInterval has passed.
EndBurst(r) ==
    /\ scanTick' = [scanTick EXCEPT ![r] = 0]
    /\ scanCount' = [scanCount EXCEPT ![r] = 0]
    /\ scanLast' = [scanLast EXCEPT ![r] = Ancient(PollStep)]

-----------------------------------------------------------------------------
(* The MQTT thread: commands and scan requests from HA *)

Pair(r, mode, level) == [m \in SubsOf(r) |-> IF m = Mode(r) THEN mode ELSE level]

FanWanted(r, s, v) ==
    IF s = Mode(r) THEN Pair(r, v, IF v = "on" THEN DefaultSpeed ELSE "off")
    ELSE Pair(r, "on", v)

ThermostatWanted(r, s, v) ==
    IF s = Level(r) THEN Pair(r, "heat", v) ELSE [m \in {s} |-> v]

\* What a command makes HA want: the fan and the thermostat couple their
\* mode with their level.
Wanted(r, s, v) ==
    CASE Kind[r] = "fan" -> FanWanted(r, s, v)
      [] Kind[r] = "thermostat" -> ThermostatWanted(r, s, v)
      [] OTHER -> [m \in {s} |-> v]

\* Switching an elevator call off needs no frame; a gas valve is not opened.
CommandMark(r, v) == IF Kind[r] = "elevator" /\ v = "off" THEN "state" ELSE "set"
Refused(r, v) == Kind[r] = "gas" /\ v = "on"

\* What HA is told before the bus has answered.
Optimistic(r, want) ==
    CASE Kind[r] \in {"fan", "thermostat"} ->
            [m \in Subs |-> IF m \in DOMAIN want THEN want[m]
                            ELSE IF m \in SubsOf(r) THEN set[m] ELSE shown[m]]
      [] Kind[r] = "elevator" /\ want[Members[r][1]] = "off" ->
            [shown EXCEPT ![Members[r][1]] = "off"]
      [] OTHER -> shown

HaCommand(r, s, v) ==
    LET want == Wanted(r, s, v)
        mark == CommandMark(r, v)
    IN  /\ inputs < MaxInputs
        /\ s \in SubsOf(r) /\ v \in Payloads[s]
        /\ ~Refused(r, v)
        /\ inputs' = inputs + 1
        /\ set' = [m \in Subs |-> IF m \in DOMAIN want THEN want[m] ELSE set[m]]
        /\ last' = [m \in Subs |-> IF m \in DOMAIN want THEN mark ELSE last[m]]
        /\ age' = [m \in Subs |-> IF m \in DOMAIN want THEN 0 ELSE age[m]]
        /\ shown' = Optimistic(r, want)
        /\ commands' = [m \in Subs |->
              IF m \notin DOMAIN want THEN commands[m]
              ELSE IF mark = "set" THEN commands[m] + 1 ELSE 0]
        /\ attempts' = [m \in Subs |->
              IF m \in DOMAIN want /\ mark = "state" THEN 0 ELSE attempts[m]]
        /\ UNCHANGED <<state, count, scanVars, taskVars, idle>>

\* bridge/scan: every room is due again.
HaScan ==
    /\ inputs < MaxInputs
    /\ inputs' = inputs + 1
    /\ scanTick' = [r \in Rooms |-> Ancient(ScanInterval)]
    /\ scanCount' = [r \in Rooms |-> 0]
    /\ scanLast' = [r \in Rooms |-> Ancient(PollStep)]
    /\ UNCHANGED <<subVars, taskVars, idle, shown, history>>

-----------------------------------------------------------------------------
(* The RS485 reader: status frames of the wall pad *)

\* light0 is lit when any lamp is.
SwitchReadings(r) ==
    {[m \in SubsOf(r) |->
        IF m # All(r) THEN lit[m]
        ELSE IF \E l \in Lamps(r) : lit[l] = "on" THEN "on" ELSE "off"] :
     lit \in [Lamps(r) -> OnOff]}

FanReadings(r) == {Pair(r, mode, speed) : mode \in OnOff, speed \in Payloads[Level(r)]}

\* A thermostat that does not heat keeps the stored target.
ThermostatReadings(r) ==
    {Pair(r, "heat", temp) : temp \in Payloads[Level(r)] \ Unencodable}
    \cup {Pair(r, mode, state[Level(r)]) : mode \in {"off", "fan_only"}}

\* What the parser can make of a status frame of room r.
Readings(r) ==
    CASE Kind[r] = "switch" -> SwitchReadings(r)
      [] Kind[r] = "gas" -> [SubsOf(r) -> OnOff]
      [] Kind[r] = "elevator" -> [SubsOf(r) -> {"off"}]
      [] Kind[r] = "fan" -> FanReadings(r)
      [] Kind[r] = "thermostat" -> ThermostatReadings(r)

\* The level, reflected second, overwrites what the mode said.
FanReflected(r, reading, m) ==
    IF m # Mode(r) THEN reading[m]
    ELSE IF reading[Level(r)] = "off" THEN "off" ELSE "on"

ThermostatReflected(r, reading, m) == IF m = Mode(r) THEN "heat" ELSE reading[m]

\* The state a reading leaves behind.
Reflected(r, reading, m) ==
    CASE Kind[r] = "fan" -> FanReflected(r, reading, m)
      [] Kind[r] = "thermostat" -> ThermostatReflected(r, reading, m)
      [] OTHER -> reading[m]

\* Any report of the gas valve or the elevator settles it.
SettledByAny(r) == Kind[r] \in {"gas", "elevator"}

SettledUnseen(r, reading) ==    \* mutant: any reading settles what is pending
    {m \in SubsOf(r) : SettledByAny(r) \/ Pending(m)}

SettledByReflection(r, reading) ==  \* mutant: compares after reflecting the level
    {m \in SubsOf(r) : SettledByAny(r) \/ (Pending(m) /\ set[m] = Reflected(r, reading, m))}

\* The sub-devices a reading settles: the others by showing what HA wants.
Settled(r, reading) ==
    {m \in SubsOf(r) : SettledByAny(r) \/ (Pending(m) /\ set[m] = reading[m])}

\* Sub-devices M stop waiting for the bus.
Settle(M) ==
    /\ last' = [m \in Subs |-> IF m \in M THEN "state" ELSE last[m]]
    /\ age' = [m \in Subs |-> IF m \in M THEN 0 ELSE age[m]]
    /\ count' = [m \in Subs |-> IF m \in M THEN 0 ELSE count[m]]
    /\ attempts' = [m \in Subs |-> IF m \in M THEN 0 ELSE attempts[m]]
    /\ commands' = [m \in Subs |-> IF m \in M THEN 0 ELSE commands[m]]

AnnouncedNew(r, reading, m) ==  \* mutant: HA is told only what is new to the panel
    IF reading[m] = state[m] THEN shown[m] ELSE reading[m]

AnnouncedReflected(r, reading, m) ==    \* mutant: HA is told what reflection leaves
    Reflected(r, reading, m)

\* HA is told what was read, whatever the reflection makes of it.
Announced(r, reading, m) == reading[m]

\* Heard on the bus, or handed in by HA over the debug topic, which makes no
\* noise on the bus.
Report(r, reading) ==
    /\ reading \in Readings(r)
    /\ EndBurst(r)
    /\ state' = [m \in Subs |-> IF m \in SubsOf(r) THEN Reflected(r, reading, m)
                                ELSE state[m]]
    /\ Settle(Settled(r, reading))
    /\ shown' = [m \in Subs |-> IF m \in SubsOf(r) THEN Announced(r, reading, m)
                                ELSE shown[m]]
    /\ idle' \in {FALSE, idle}
    /\ UNCHANGED <<set, taskVars, inputs>>

\* Bytes that update nothing, and the silence that makes the bus idle again.
Noise ==
    /\ idle /\ idle' = FALSE
    /\ UNCHANGED <<subVars, scanVars, taskVars, shown, inputs, history>>

Quiet ==
    /\ ~idle /\ idle' = TRUE
    /\ UNCHANGED <<subVars, scanVars, taskVars, shown, inputs, history>>

-----------------------------------------------------------------------------
(* The synchronizer task *)

\* A new sample of `now`, dt after the previous one.
Elapse(dt) ==
    /\ age' = [s \in Subs |-> IF last[s] = "sent"
                              THEN Cap(age[s] + dt, RetryInterval + 1) ELSE age[s]]
    /\ scanTick' = [r \in Rooms |-> Cap(scanTick[r] + dt, Ancient(ScanInterval))]
    /\ scanLast' = [r \in Rooms |-> Cap(scanLast[r] + dt, Ancient(PollStep))]

StartSweep(dt) ==
    /\ pc = "asleep" /\ idle
    /\ Elapse(dt)
    /\ pc' = "visiting" /\ rooms' = Sweep
    /\ UNCHANGED <<state, set, last, count, scanCount, subs, frame, idle, shown,
                   inputs, history>>

SkipSweep(dt) ==
    /\ pc = "asleep" /\ ~idle
    /\ Elapse(dt)
    /\ UNCHANGED <<state, set, last, count, scanCount, taskVars, idle, shown,
                   inputs, history>>

EndSweep ==
    /\ pc = "visiting" /\ rooms = <<>>
    /\ pc' = "asleep"
    /\ UNCHANGED <<subVars, scanVars, rooms, subs, frame, idle, shown, inputs, history>>

EnterRoomDue ==     \* mutant: a room is reconciled even if it is due
    /\ pc = "visiting" /\ rooms # <<>>
    /\ pc' = "reconciling" /\ subs' = Members[Head(rooms)]
    /\ UNCHANGED <<subVars, scanVars, rooms, frame, idle, shown, inputs, history>>

\* sync_room: an elevator is never polled; any other room that is due is
\* polled instead of reconciled.
EnterRoom ==
    /\ pc = "visiting" /\ rooms # <<>>
    /\ Kind[Head(rooms)] = "elevator" \/ ~ScanDue(Head(rooms))
    /\ pc' = "reconciling" /\ subs' = Members[Head(rooms)]
    /\ UNCHANGED <<subVars, scanVars, rooms, frame, idle, shown, inputs, history>>

LeaveRoom ==
    /\ pc = "reconciling" /\ subs = <<>>
    /\ pc' = "visiting" /\ rooms' = Tail(rooms)
    /\ UNCHANGED <<subVars, scanVars, subs, frame, idle, shown, inputs, history>>

PollDue ==
    /\ pc = "visiting" /\ rooms # <<>>
    /\ Kind[Head(rooms)] # "elevator" /\ ScanDue(Head(rooms))

\* The query is written if the bus is idle and lost otherwise: either way the
\* bus is busy afterwards and the task sleeps for packet_delay.
Poll ==
    /\ PollDue /\ scanLast[Head(rooms)] > PollStep
    /\ scanCount' = [scanCount EXCEPT ![Head(rooms)] = @ + 1]
    /\ scanLast' = [scanLast EXCEPT ![Head(rooms)] = 0]
    /\ idle' = FALSE
    /\ pc' = "polled"
    /\ UNCHANGED <<subVars, scanTick, rooms, subs, frame, shown, inputs, history>>

SkipPoll ==
    /\ PollDue /\ scanLast[Head(rooms)] <= PollStep
    /\ pc' = "polled"
    /\ UNCHANGED <<subVars, scanVars, rooms, subs, frame, idle, shown, inputs, history>>

FinishPoll ==
    /\ pc = "polled"
    /\ IF BurstOver(Head(rooms)) THEN EndBurst(Head(rooms)) ELSE UNCHANGED scanVars
    /\ pc' = "visiting" /\ rooms' = Tail(rooms)
    /\ UNCHANGED <<subVars, subs, frame, idle, shown, inputs, history>>

-----------------------------------------------------------------------------
(* reconcile_device, for the sub-device at the head of the queue *)

Reconciling(s) == pc = "reconciling" /\ subs # <<>> /\ s = Head(subs)

AbandonMarked(s) ==     \* mutant: the count starts over, the command stays
    /\ Reconciling(s) /\ Exhausted(s)
    /\ count' = [count EXCEPT ![s] = 0] /\ attempts' = [attempts EXCEPT ![s] = 0]
    /\ subs' = Tail(subs)
    /\ UNCHANGED <<state, set, last, age, scanVars, pc, rooms, frame, idle, shown,
                   inputs, commands>>

Abandon(s) ==
    /\ Reconciling(s) /\ Exhausted(s)
    /\ Settle({s})
    /\ subs' = Tail(subs)
    /\ UNCHANGED <<state, set, scanVars, pc, rooms, frame, idle, shown, inputs>>

SwitchFrameSingle(r, s) ==  \* mutant: light0 treated like a single lamp
    [m \in Lamps(r) |-> IF s = m THEN set[s] ELSE state[m]]

\* A single lamp's frame repeats for its siblings what the bus last said.
SwitchFrame(r, s) ==
    [m \in Lamps(r) |-> IF s \in {m, All(r)} THEN set[s] ELSE state[m]]

PairFrameStale(r, s) ==     \* mutant: the bundled value is what the bus last said
    [m \in SubsOf(r) |-> IF m = s THEN set[m] ELSE state[m]]

\* Fan and thermostat frames carry both wanted values.
PairFrame(r, s) == [m \in SubsOf(r) |-> set[m]]

\* The gas valve can only be closed, the elevator only be called.
GasFrame(r) == [m \in SubsOf(r) |-> "off"]
ElevatorFrame(r) == [m \in SubsOf(r) |-> "on"]

FrameFor(r, s) ==
    CASE Kind[r] = "switch" -> SwitchFrame(r, s)
      [] Kind[r] \in {"fan", "thermostat"} -> PairFrame(r, s)
      [] Kind[r] = "gas" -> GasFrame(r)
      [] Kind[r] = "elevator" -> ElevatorFrame(r)

Encodable(r) == Kind[r] = "thermostat" => set[Level(r)] \notin Unencodable

SentMarkUniform(r) == "sent"    \* mutant: an elevator call is retried
SentMark(r) == IF Kind[r] = "elevator" THEN "state" ELSE "sent"

\* The bookkeeping that precedes every send: the command counts as sent
\* before anything is written, and an elevator call as settled.
MarkSent(s) ==
    LET r == Head(rooms) IN
    /\ Reconciling(s) /\ ~Exhausted(s) /\ last[s] = "set"
    /\ last' = [last EXCEPT ![s] = SentMark(r)]
    /\ age' = [age EXCEPT ![s] = IF Kind[r] = "gas" THEN -GasDelay ELSE 0]
    /\ attempts' = [attempts EXCEPT ![s] = IF Kind[r] = "elevator" THEN 0 ELSE @ + 1]
    /\ commands' = [commands EXCEPT ![s] = IF Kind[r] = "elevator" THEN 0 ELSE @]
    /\ UNCHANGED <<state, set, count, scanVars, rooms, idle, shown, inputs>>

Send(s) ==
    /\ MarkSent(s) /\ Encodable(Head(rooms)) /\ idle
    /\ pc' = "writing" /\ frame' = FrameFor(Head(rooms), s)
    /\ UNCHANGED subs

\* write_if_idle finds the bus busy: the frame is dropped and nobody told.
SendDropped(s) ==
    /\ MarkSent(s) /\ Encodable(Head(rooms)) /\ ~idle
    /\ subs' = Tail(subs)
    /\ UNCHANGED <<pc, frame>>

SendRaisesUnmarked(s) ==    \* mutant: marked as sent only after the send
    /\ Reconciling(s) /\ ~Exhausted(s) /\ last[s] = "set"
    /\ ~Encodable(Head(rooms))
    /\ pc' = "asleep" /\ subs' = <<>>
    /\ UNCHANGED <<subVars, scanVars, rooms, frame, idle, shown, inputs, history>>

\* Building the frame raises, which ends the whole sweep.
SendRaises(s) ==
    /\ MarkSent(s) /\ ~Encodable(Head(rooms))
    /\ pc' = "asleep" /\ subs' = <<>>
    /\ UNCHANGED frame

\* The write completes; the MQTT thread and, when the write had to wait, the
\* reader may have run since it began.  HA sees an elevator call only now.
Written ==
    /\ pc = "writing"
    /\ idle' = FALSE
    /\ pc' = "reconciling" /\ subs' = Tail(subs) /\ frame' = None
    /\ shown' = IF Kind[Head(rooms)] = "elevator"
                THEN [shown EXCEPT ![Head(subs)] = "on"] ELSE shown
    /\ UNCHANGED <<subVars, scanVars, rooms, inputs, history>>

\* RetryInterval passed without a confirmation.
Retry(s) ==
    /\ Reconciling(s) /\ ~Exhausted(s)
    /\ last[s] = "sent" /\ age[s] > RetryInterval
    /\ last' = [last EXCEPT ![s] = "set"]
    /\ age' = [age EXCEPT ![s] = 0]
    /\ count' = [count EXCEPT ![s] = @ + 1]
    /\ subs' = Tail(subs)
    /\ UNCHANGED <<state, set, scanVars, pc, rooms, frame, idle, shown, inputs, history>>

Pass(s) ==
    /\ Reconciling(s) /\ ~Exhausted(s)
    /\ last[s] = "sent" => age[s] <= RetryInterval
    /\ last[s] # "set"
    /\ subs' = Tail(subs)
    /\ UNCHANGED <<subVars, scanVars, pc, rooms, frame, idle, shown, inputs, history>>

-----------------------------------------------------------------------------

Wake == \E dt \in Steps : StartSweep(dt)

Reconcile ==
    \E s \in Subs : \/ Abandon(s) \/ Retry(s) \/ Pass(s)
                    \/ Send(s) \/ SendDropped(s) \/ SendRaises(s)

\* The synchronizer between two sleeps.
Work ==
    \/ EndSweep \/ EnterRoom \/ LeaveRoom
    \/ Poll \/ SkipPoll \/ FinishPoll
    \/ Reconcile \/ Written

Environment ==
    \/ \E r \in Rooms, s \in Subs : \E v \in Payloads[s] : HaCommand(r, s, v)
    \/ HaScan
    \/ \E r \in Rooms : \E reading \in Readings(r) : Report(r, reading)
    \/ Noise \/ Quiet

Next == Wake \/ (\E dt \in Steps : SkipSweep(dt)) \/ Work \/ Environment

Spec == Init /\ [][Next]_vars

\* The event loop keeps running the task, and the bus keeps falling silent.
\* scan_interval is hundreds of seconds and the task looks at the bus five
\* times a second: it also finds the bus silent before a room is due again.
Fairness ==
    /\ WF_vars(Work) /\ SF_vars(Quiet) /\ SF_vars(Wake)
    /\ \A r \in Rooms :
          /\ SF_vars(Quiet /\ pc = "asleep" /\ scanTick[r] < ScanInterval)
          /\ SF_vars(Wake /\ ~ScanDue(r)')

FairSpec == Spec /\ Fairness

-----------------------------------------------------------------------------
(* Safety *)

\* Every variable has its type; a timestamp has an age only while it is one.
TypeOK ==
    /\ state \in [Subs -> Values] /\ set \in [Subs -> Values]
    /\ shown \in [Subs -> Values]
    /\ last \in [Subs -> {"state", "set", "sent"}]
    /\ age \in [Subs -> Int]
    /\ \A s \in Subs : last[s] # "sent" => age[s] = 0
    /\ count \in [Subs -> Nat]
    /\ scanTick \in [Rooms -> Nat] /\ scanCount \in [Rooms -> Nat]
    /\ scanLast \in [Rooms -> Nat]
    /\ pc \in {"asleep", "visiting", "polled", "reconciling", "writing"}
    /\ rooms \in Seq(Rooms) /\ subs \in Seq(Subs)
    /\ pc \in {"polled", "reconciling", "writing"} => rooms # <<>>
    /\ pc = "writing" => subs # <<>>
    /\ idle \in BOOLEAN /\ inputs \in 0 .. MaxInputs
    /\ attempts \in [Subs -> Nat] /\ commands \in [Subs -> Nat]

\* A command that keeps failing is sent RetryLimit + 1 times, and every
\* further command HA sends meanwhile buys exactly one more frame: a mute
\* device never makes the panel flood the bus (reconcile_device).
RetriesBounded == \A s \in Subs : attempts[s] <= commands[s] + RetryLimit

\* The ledger behind it: each retry was preceded by its own send, each send
\* by a command or a retry, and the count is at its end only in between.
Ledger(s) ==
    LET sent == IF last[s] = "sent" THEN 1 ELSE 0
        due  == IF last[s] = "set" THEN 1 ELSE 0
    IN  /\ count[s] + sent <= attempts[s]
        /\ attempts[s] + due <= commands[s] + count[s]
        /\ count[s] <= RetryLimit + due
        /\ ~Pending(s) => attempts[s] = 0 /\ commands[s] = 0

RetryLedger == \A s \in Subs : Ledger(s)

\* The queue of a room being reconciled holds sub-devices of that room only,
\* and an elevator never waits for a confirmation.
QueueOfRoom ==
    pc \in {"reconciling", "writing"} => Range(subs) \subseteq SubsOf(Head(rooms))

ElevatorNeverSent ==
    \A r \in Rooms : Kind[r] = "elevator" =>
        \A s \in SubsOf(r) : last[s] # "sent" /\ count[s] = 0

\* The inductive invariant of the retry bookkeeping.
IInv == TypeOK /\ RetryLedger /\ QueueOfRoom /\ ElevatorNeverSent

\* Reconciliation may stop early only because the bus showed what HA wants:
\* a lamp, fan or thermostat value HA is waiting for is withdrawn by a
\* confirming report or after more than RetryLimit sends, whatever the order
\* of commands, reports and sweeps (recover_if_confirmed, reconcile_device).
Confirmation(s) ==
    \E r \in Rooms : \E reading \in Readings(r) :
        s \in SubsOf(r) /\ reading[s] = set[s] /\ Report(r, reading)

Withdrawn(s) == Pending(s) /\ ~Pending(s)'

NoEarlyWithdrawal ==
    [][\A r \in Rooms : Kind[r] \in {"switch", "fan", "thermostat"} =>
          \A s \in SubsOf(r) :
              Withdrawn(s) => attempts[s] > RetryLimit \/ Confirmation(s)]_vars

\* A frame on its way out carries the newest wanted value of the sub-device
\* it is for, and of every value a fan or thermostat frame bundles with it,
\* unless that value has a send of its own coming or is already settled: a
\* command that arrives during the write is never taken for sent.
FreshFrame ==
    pc = "writing" =>
        LET r == Head(rooms)
            s == Head(subs)
        IN  /\ Kind[r] = "switch" /\ last[s] = "sent" =>
                  \A m \in Lamps(r) : s \in {m, All(r)} => frame[m] = set[s]
            /\ Kind[r] \in {"fan", "thermostat"} =>
                  \A m \in SubsOf(r) : last[m] = "sent" => frame[m] = set[m]

\* A burst of queries belongs to one due period: it never exceeds PollLimit +
\* 1 queries, and a room that has answered, or been given up on, starts its
\* next due period with a full burst (poll_room against reset_scan).
BurstBounded ==
    \A r \in Rooms :
        /\ scanCount[r] <= PollLimit + 1
        /\ scanCount[r] = PollLimit + 1 => pc = "polled" /\ Head(rooms) = r
        /\ ~ScanDue(r) => scanCount[r] = 0 /\ scanLast[r] > PollStep

\* How far reconciliation has come with a command: a send and the time-out
\* that follows it are a step each.
Effort(s) == 2 * count[s] + (IF last[s] = "sent" THEN 1 ELSE 0)

\* Nothing starts over that must come to an end: short of a further command
\* the effort for a pending sub-device, and short of a scan request the burst
\* of a room that is due, never shrinks, whatever is reported, dropped or
\* raised meanwhile; with RetryLedger and BurstBounded, both run out.
NoGroundLost ==
    [][/\ \A s \in Subs : Pending(s) /\ Pending(s)' =>
              Effort(s)' >= Effort(s) \/ commands'[s] > commands[s]
       /\ \A r \in Rooms : ScanDue(r) /\ ScanDue(r)' =>
              scanCount'[r] >= scanCount[r] \/ HaScan]_vars

-----------------------------------------------------------------------------
(* Liveness *)

\* No command waits forever: polling a room that is due postpones its
\* retries, and neither that nor dropped frames nor a sweep ended by an
\* exception can keep a sub-device pending for ever (sync_room, sync_once).
EventuallySettled == \A s \in Subs : Pending(s) ~> ~Pending(s)

\* A room that is due is polled until it answers or its burst is over.
ScanServed ==
    \A r \in Rooms : Kind[r] # "elevator" => (ScanDue(r) ~> ~ScanDue(r))

-----------------------------------------------------------------------------
(* What HA is promised *)

RoomsOf(kinds) == {r \in Rooms : Kind[r] \in kinds}

Delivery == INSTANCE CommandDelivery WITH
    Things  <- Subs,
    Firm    <- UNION {SubsOf(r) : r \in RoomsOf({"switch", "fan", "thermostat"})},
    Once    <- UNION {SubsOf(r) : r \in RoomsOf({"elevator"})},
    Limit   <- RetryLimit,
    wanted  <- set,
    pending <- {s \in Subs : Pending(s)},
    asked   <- commands,
    tried   <- attempts,
    told    <- shown

\* Sweeps, polls, clocks and dropped frames aside, the panel keeps the
\* abstract account of commands: it tries a pending command boundedly often,
\* and it forgets one only when HA has been told the wanted value, a valve
\* reported, an elevator was called, or the tries are used up.
DeliversCommands == Delivery!Spec
=============================================================================
