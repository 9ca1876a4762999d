----------------------------- MODULE Ventilator -----------------------------
(***************************************************************************)
(* The heat-exchange ventilator: the bridge sits between the wall          *)
(* controller and the unit in the ceiling, answers the one in the name of  *)
(* the other, and lets Home Assistant (HA) run the unit while the wall     *)
(* controller is off. One task reads each line, the MQTT thread brings     *)
(* commands; a task suspends in its writes only.                           *)
(***************************************************************************)
EXTENDS Naturals, Sequences

CONSTANTS
  Settings,      \* what the wall controller can report: records of mode and speed
  Modes, Speeds, \* the modes and speeds the codec knows, "off" included
  UnitSpeeds,    \* what the unit can run at and report
  ModePayloads, SpeedPayloads,    \* what HA can send
  DefaultSpeed,  \* config.ventilator_default_speed
  MaxPending,    \* bound: status frames that wait to be read, per line
  MaxPresses,    \* bound: changes made at the wall controller
  MaxCommands    \* bound: commands from HA

Setting(mode, speed) == [mode |-> mode, speed |-> speed]
Off == Setting("off", "off")
NoPacket == Setting("none", "none")
ErrorFrame == Setting("error", "off")    \* E1 of the wall controller

ASSUME VentilatorAssumption ==
  /\ Off \in Settings /\ {"off", "manual"} \subseteq Modes
  /\ "off" \in Speeds /\ DefaultSpeed \in Speeds /\ Speeds \subseteq UnitSpeeds
  /\ {"on", "off"} \subseteq ModePayloads /\ Speeds \subseteq SpeedPayloads
  /\ {"none", "error", "on"} \cap Modes = {} /\ "none" \notin Speeds
  /\ ErrorFrame \notin Settings
  /\ MaxPending \in Nat /\ MaxPresses \in Nat /\ MaxCommands \in Nat

VARIABLES
  desired, controllerStatus, ventilatorStatus,    \* VentilatorState
  pc, response, control,    \* handle_controller_status and its two packets
  fan, sensor,              \* what HA was told last, Setting("none", "none") before
  wall, unit,               \* what the wall controller shows and the unit does
  fromWall, fromUnit,       \* status frames that wait to be read
  presses, commands

state == <<desired, controllerStatus, ventilatorStatus>>
handler == <<pc, response, control>>
shown == <<fan, sensor>>
vars == <<state, handler, shown, wall, unit, fromWall, fromUnit, presses, commands>>

(* The bridge starts in a system that is running.                         *)
Init ==
  /\ desired = Off /\ controllerStatus = Off /\ ventilatorStatus = "off"
  /\ pc = "reading" /\ response = "none" /\ control = NoPacket
  /\ fan = NoPacket /\ sensor = NoPacket
  /\ wall \in Settings /\ unit \in UnitSpeeds
  /\ fromWall = <<>> /\ fromUnit = <<>>
  /\ presses = 0 /\ commands = 0

-----------------------------------------------------------------------------
(* What HA is told                                                        *)

RunningForHa(cont) == desired.mode = "on"    \* mutant: the wall controller is forgotten
Running(cont) == cont.mode # "off" \/ desired.mode = "on"

FanShown(cont, speed) == IF Running(cont) THEN Setting("on", speed) ELSE Off

(* The label of a mode the codec does not know stays "off".               *)
SensorShown(cont, speed) ==
  IF Running(cont)
  THEN Setting(CASE cont.mode = "off" -> "HA"
                 [] cont.mode \in Modes -> cont.mode
                 [] OTHER -> "off",
               IF speed \in Speeds THEN speed ELSE "off")
  ELSE Off

Publish(cont, speed) ==
  /\ fan' = FanShown(cont, speed)
  /\ sensor' = SensorShown(cont, speed)

-----------------------------------------------------------------------------
(* Packets                                                                *)

ControlPacket(mode, speed) ==
  IF mode \in Modes /\ speed \in Speeds THEN Setting(mode, speed) ELSE NoPacket

ResponsePacket(speed) == IF speed \in Speeds THEN speed ELSE "off"

ControlForHa(cont) ==    \* mutant: HA's wish goes first
  IF desired.mode = "on" THEN ControlPacket("manual", desired.speed)
  ELSE ControlPacket(cont.mode, cont.speed)
ControlFor(cont) ==
  IF cont.mode # "off" THEN ControlPacket(cont.mode, cont.speed)
  ELSE IF desired.mode = "on" /\ desired.speed # "off"
  THEN ControlPacket("manual", desired.speed)
  ELSE IF desired.mode \in {"on", "off"} THEN ControlPacket("off", "off") ELSE NoPacket

-----------------------------------------------------------------------------
(* Home Assistant                                                         *)

(* Turning the fan on without a speed takes the default one. HA is        *)
(* answered only when nothing is wished for any more.                     *)
Wished(key, payload) ==
  IF key = "speed" THEN [desired EXCEPT !.speed = payload]
  ELSE IF desired = Off /\ payload = "on" THEN Setting("on", DefaultSpeed)
  ELSE [desired EXCEPT !.mode = payload]

HandleFanCommand(key, payload) ==
  /\ commands < MaxCommands
  /\ commands' = commands + 1
  /\ desired' = Wished(key, payload)
  /\ fan' = IF desired' = Off THEN Off ELSE fan
  /\ UNCHANGED <<controllerStatus, ventilatorStatus, handler, sensor, wall, unit,
                 fromWall, fromUnit, presses>>

(* Any payload is taken; what the codec does not know of it makes no      *)
(* packet.                                                                *)
HaCommand ==
  \/ \E payload \in ModePayloads : HandleFanCommand("mode", payload)
  \/ \E payload \in SpeedPayloads : HandleFanCommand("speed", payload)

-----------------------------------------------------------------------------
(* The line of the wall controller                                        *)

HandleControllerError ==
  /\ pc = "reading" /\ fromWall # <<>> /\ Head(fromWall) = ErrorFrame
  /\ fromWall' = Tail(fromWall)
  /\ response' = ResponsePacket("off")
  /\ pc' = "responding"
  /\ UNCHANGED <<state, control, shown, wall, unit, fromUnit, presses, commands>>

NoticedMode(s) == s.mode # controllerStatus.mode    \* mutant: a change of speed goes unnoticed
Noticed(s) == s # controllerStatus

HandleControllerStatus ==
  /\ pc = "reading" /\ fromWall # <<>> /\ Head(fromWall) # ErrorFrame
  /\ fromWall' = Tail(fromWall)
  /\ LET s == Head(fromWall)
         now == IF Noticed(s) THEN s ELSE controllerStatus
     IN  /\ controllerStatus' = now
         /\ IF Noticed(s) THEN Publish(s, s.speed) ELSE UNCHANGED shown
         /\ response' = ResponsePacket(IF now.mode = "off" THEN "off" ELSE now.speed)
         /\ control' = ControlFor(now)
  /\ pc' = "responding"
  /\ UNCHANGED <<desired, ventilatorStatus, wall, unit, fromUnit, presses, commands>>

(* An empty packet is not written.                                        *)
RespondAlways ==    \* mutant: the packet is written even if it is empty
  /\ pc = "responding"
  /\ response' = "none"
  /\ pc' = "controlling"
  /\ UNCHANGED <<state, control, shown, wall, unit, fromWall, fromUnit, presses, commands>>
Respond ==
  /\ pc = "responding"
  /\ response' = "none"
  /\ pc' = IF control = NoPacket THEN "reading" ELSE "controlling"
  /\ UNCHANGED <<state, control, shown, wall, unit, fromWall, fromUnit, presses, commands>>

Controlled ==
  /\ pc = "controlling"
  /\ control' = NoPacket
  /\ pc' = "reading"
  /\ UNCHANGED <<state, response, shown, wall, fromWall, fromUnit, presses, commands>>

(* The write returns; the line may have lost the packet.                  *)
ControlArrives == Controlled /\ unit' = control.speed
ControlLost == Controlled /\ UNCHANGED unit

-----------------------------------------------------------------------------
(* The line of the unit                                                   *)

HandleVentilatorStatus ==
  /\ fromUnit # <<>>
  /\ fromUnit' = Tail(fromUnit)
  /\ ventilatorStatus' = Head(fromUnit)
  /\ IF Head(fromUnit) # ventilatorStatus
     THEN Publish(controllerStatus, Head(fromUnit))
     ELSE UNCHANGED shown
  /\ UNCHANGED <<desired, controllerStatus, handler, wall, unit, fromWall, presses, commands>>

-----------------------------------------------------------------------------
(* The devices. A frame that is lost is one that is not sent here.        *)

Press ==
  /\ presses < MaxPresses
  /\ presses' = presses + 1
  /\ wall' \in Settings
  /\ UNCHANGED <<state, handler, shown, unit, fromWall, fromUnit, commands>>

WallSends(frame) ==
  /\ Len(fromWall) < MaxPending
  /\ fromWall' = Append(fromWall, frame)
  /\ UNCHANGED <<state, handler, shown, wall, unit, fromUnit, presses, commands>>

UnitSends ==
  /\ Len(fromUnit) < MaxPending
  /\ fromUnit' = Append(fromUnit, unit)
  /\ UNCHANGED <<state, handler, shown, wall, unit, fromWall, presses, commands>>

-----------------------------------------------------------------------------
Bridge == HandleControllerError \/ HandleControllerStatus \/ Respond

Next ==
  \/ HaCommand
  \/ Bridge \/ ControlArrives \/ ControlLost
  \/ HandleVentilatorStatus
  \/ Press \/ WallSends(wall) \/ WallSends(ErrorFrame) \/ UnitSends

Spec == Init /\ [][Next]_vars

(* Both devices report again and again, the tasks run, and of packets     *)
(* sent again and again some arrive.                                      *)
Fairness ==
  /\ WF_vars(Bridge) /\ WF_vars(HandleVentilatorStatus)
  /\ WF_vars(Controlled /\ unit' \in {unit, control.speed}) /\ SF_vars(ControlArrives)
  /\ SF_vars(WallSends(wall)) /\ SF_vars(UnitSends)

FairSpec == Spec /\ Fairness

-----------------------------------------------------------------------------
(* Properties                                                             *)

Frames == Settings \cup {ErrorFrame}

TypeOK ==
  /\ desired \in [mode : ModePayloads, speed : SpeedPayloads]
  /\ controllerStatus \in Settings
  /\ ventilatorStatus \in UnitSpeeds
  /\ pc \in {"reading", "responding", "controlling"}
  /\ response \in Speeds \cup {"none"}
  /\ control \in [mode : Modes, speed : Speeds] \cup {NoPacket}
  /\ wall \in Settings /\ unit \in UnitSpeeds
  /\ fromWall \in Seq(Frames) /\ fromUnit \in Seq(UnitSpeeds)
  /\ presses \in Nat /\ commands \in Nat

(* The packets of a frame are gone before the next frame is taken up, and *)
(* the unit is sent a packet only if there is one: a mode that the codec  *)
(* does not know leaves the unit alone.                                   *)
NothingEmptySent ==
  /\ pc = "reading" => control = NoPacket
  /\ pc = "responding" <=> response # "none"
  /\ pc = "controlling" => control # NoPacket

IInv == TypeOK /\ NothingEmptySent

(* Between the frame of the wall controller and the packet for the unit   *)
(* lie two writes, in which HA and the other line are heard. Still, while *)
(* the wall controller is on, the unit changes only to what it says, and  *)
(* while it is off only HA can have set the unit going.                   *)
WallDecides ==
  [][unit' # unit =>
       IF controllerStatus.mode # "off"
       THEN controllerStatus.mode \in Modes /\ unit' = controllerStatus.speed
       ELSE unit' = "off" \/ commands > 0]_vars

(* What HA is shown is made of two lines' reports and shown when one of   *)
(* them changes. The sensor is always of the wall controller's mode; with *)
(* it on, fan and sensor show one speed, the last of either line, and the *)
(* fan is shown off only if HA has sent something; with it off, only HA   *)
(* can have caused anything else to be shown than off.                    *)
ShownTrue ==
  IF controllerStatus.mode # "off"
  THEN /\ sensor.mode = IF controllerStatus.mode \in Modes THEN controllerStatus.mode ELSE "off"
       /\ \E speed \in {controllerStatus.speed, ventilatorStatus} :
             /\ sensor.speed = IF speed \in Speeds THEN speed ELSE "off"
             /\ fan = Setting("on", speed) \/ (fan = Off /\ commands > 0)
  ELSE /\ sensor.mode \in {"none", "off", "HA"}
       /\ commands = 0 => {fan, sensor} \subseteq {NoPacket, Off}

(* The wall controller decides while it is on, HA while it is off.        *)
Wish ==
  IF wall.mode # "off" THEN wall.speed
  ELSE IF desired.mode = "on" THEN desired.speed ELSE "off"

Known == wall.mode \in Modes /\ wall.speed \in Speeds

(* A wish that a packet can be made of, if HA is the one to decide.       *)
Heeded ==
  wall.mode = "off" =>
    desired.mode = "off" \/ (desired.mode = "on" /\ desired.speed \in Speeds)

(* Once nobody changes a setting any more, the unit ends up doing what    *)
(* they say, whatever packets were lost, late or overtaken before:        *)
(* handle_controller_status works the wish out anew for every frame. For  *)
(* a setting or a payload that the codec does not know no packet is made: *)
(* the unit then goes on as it was.                                       *)
UnitObeys == <>[](Known /\ Heeded => unit = Wish)

(* As long as HA sends nothing, the bridge is a faithful window: the fan  *)
(* and the sensor come to show what the wall controller and the unit do.  *)
ProxyShown ==
  [](commands = 0) =>
    <>[](Known /\ fan # NoPacket =>
           /\ fan = IF wall.mode = "off" THEN Off ELSE Setting("on", unit)
           /\ sensor = Setting(wall.mode, unit))
=============================================================================
