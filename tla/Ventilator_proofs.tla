-------------------------- MODULE Ventilator_proofs --------------------------
(***************************************************************************)
(* The packets of the ventilator bridge: the unit is sent nothing but      *)
(* complete packets, one per frame of the wall controller, and changes     *)
(* only to what the wall controller says while that is on; and HA is shown *)
(* what the two lines have reported. For any codec and any settings the    *)
(* wall controller may report.                                             *)
(***************************************************************************)
EXTENDS Ventilator, SequenceTheorems, TLAPS

\* A built packet is complete, or there is none.
LEMMA ControlForType ==
    ASSUME TypeOK, NEW cont
    PROVE  ControlFor(cont) \in [mode : Modes, speed : Speeds] \cup {NoPacket}
  <1>1. "off" \in Modes /\ "manual" \in Modes /\ "off" \in Speeds
    BY VentilatorAssumption
  <1>2. \A mode, speed : ControlPacket(mode, speed) \in [mode : Modes, speed : Speeds] \cup {NoPacket}
    BY DEF ControlPacket, Setting
  <1> QED BY <1>2 DEF ControlFor

\* There always is something to answer the wall controller.
LEMMA ResponseType ==
    ASSUME NEW speed
    PROVE  ResponsePacket(speed) \in Speeds /\ ResponsePacket(speed) # "none"
  BY VentilatorAssumption DEF ResponsePacket

\* HA's wish stays a wish whatever HA sends.
LEMMA WishedType ==
    ASSUME TypeOK, NEW key \in {"mode", "speed"}, NEW payload,
           payload \in IF key = "mode" THEN ModePayloads ELSE SpeedPayloads
    PROVE  Wished(key, payload) \in [mode : ModePayloads, speed : SpeedPayloads]
  <1>1. /\ desired \in [mode : ModePayloads, speed : SpeedPayloads]
        /\ "on" \in ModePayloads /\ DefaultSpeed \in SpeedPayloads
    BY VentilatorAssumption DEF TypeOK
  <1>2. CASE key = "speed"
    BY <1>1, <1>2 DEF Wished
  <1>3. CASE key = "mode" /\ desired = Off /\ payload = "on"
    BY <1>1, <1>3 DEF Wished, Setting
  <1>4. CASE key = "mode" /\ ~(desired = Off /\ payload = "on")
    BY <1>1, <1>4 DEF Wished
  <1> QED BY <1>2, <1>3, <1>4

LEMMA IInvInit == Init => IInv
  <1> SUFFICES ASSUME Init PROVE IInv
    OBVIOUS
  <1>1. /\ Off \in Settings /\ "off" \in Speeds /\ Speeds \subseteq UnitSpeeds
        /\ "off" \in ModePayloads /\ "off" \in SpeedPayloads
    BY VentilatorAssumption
  <1>2. desired \in [mode : ModePayloads, speed : SpeedPayloads]
    BY <1>1 DEF Init, Off, Setting
  <1>3. fromWall \in Seq(Frames) /\ fromUnit \in Seq(UnitSpeeds)
    BY DEF Init
  <1> QED BY <1>1, <1>2, <1>3 DEF Init, IInv, TypeOK, NothingEmptySent

LEMMA IInvNext == IInv /\ [Next]_vars => IInv'
  <1> SUFFICES ASSUME IInv, [Next]_vars PROVE IInv'
    OBVIOUS
  <1>0. TypeOK /\ NothingEmptySent
    BY DEF IInv
  <1>1. CASE HaCommand
    <2>1. PICK key \in {"mode", "speed"}, payload \in ModePayloads \cup SpeedPayloads :
            /\ payload \in IF key = "mode" THEN ModePayloads ELSE SpeedPayloads
            /\ HandleFanCommand(key, payload)
      BY <1>1 DEF HaCommand
    <2>2. desired' \in [mode : ModePayloads, speed : SpeedPayloads]
      BY <1>0, <2>1, WishedType DEF HandleFanCommand
    <2>3. UNCHANGED <<controllerStatus, ventilatorStatus, handler, wall, unit, fromWall, fromUnit, presses>>
          /\ commands' = commands + 1
      BY <2>1 DEF HandleFanCommand
    <2> QED BY <1>0, <2>2, <2>3 DEF IInv, TypeOK, NothingEmptySent, handler
  <1>2. CASE HandleControllerError
    <2>1. fromWall' \in Seq(Frames)
      BY <1>0, <1>2 DEF HandleControllerError, TypeOK
    <2>2. response' \in Speeds /\ response' # "none"
      BY <1>2, ResponseType DEF HandleControllerError
    <2> QED BY <1>0, <1>2, <2>1, <2>2 DEF HandleControllerError, IInv, TypeOK, NothingEmptySent, state
  <1>3. CASE HandleControllerStatus
    <2>1. fromWall' \in Seq(Frames) /\ Head(fromWall) \in Settings
      BY <1>0, <1>3 DEF HandleControllerStatus, TypeOK, Frames
    <2>2. controllerStatus' \in Settings
      BY <1>0, <1>3, <2>1 DEF HandleControllerStatus, TypeOK
    <2>3. response' \in Speeds /\ response' # "none"
      BY <1>3, ResponseType DEF HandleControllerStatus
    <2>4. control' \in [mode : Modes, speed : Speeds] \cup {NoPacket}
      BY <1>0, <1>3, ControlForType DEF HandleControllerStatus
    <2>5. /\ pc' = "responding"
          /\ UNCHANGED <<desired, ventilatorStatus, wall, unit, fromUnit, presses, commands>>
      BY <1>3 DEF HandleControllerStatus
    <2> QED BY <1>0, <2>1, <2>2, <2>3, <2>4, <2>5 DEF IInv, TypeOK, NothingEmptySent
  <1>4. CASE Respond
    BY <1>0, <1>4 DEF Respond, IInv, TypeOK, NothingEmptySent, state
  <1>5. CASE ControlArrives \/ ControlLost
    <2>1. Controlled /\ unit' \in {unit, control.speed}
      BY <1>5 DEF ControlArrives, ControlLost
    <2>2. unit' \in UnitSpeeds
      BY <1>0, <2>1, VentilatorAssumption DEF Controlled, TypeOK, NothingEmptySent
    <2> QED BY <1>0, <2>1, <2>2 DEF Controlled, IInv, TypeOK, NothingEmptySent, state
  <1>6. CASE HandleVentilatorStatus
    <2>1. ventilatorStatus' \in UnitSpeeds /\ fromUnit' \in Seq(UnitSpeeds)
      BY <1>0, <1>6 DEF HandleVentilatorStatus, TypeOK
    <2>2. UNCHANGED <<desired, controllerStatus, handler, wall, unit, fromWall, presses, commands>>
      BY <1>6 DEF HandleVentilatorStatus
    <2> QED BY <1>0, <2>1, <2>2 DEF IInv, TypeOK, NothingEmptySent, handler
  <1>7. CASE Press
    BY <1>0, <1>7 DEF Press, IInv, TypeOK, NothingEmptySent, state, handler
  <1>8. ASSUME NEW frame \in Frames, WallSends(frame)
        PROVE  IInv'
    <2>1. fromWall' \in Seq(Frames)
      BY <1>0, <1>8 DEF WallSends, TypeOK
    <2> QED BY <1>0, <1>8, <2>1 DEF WallSends, IInv, TypeOK, NothingEmptySent, state, handler
  <1>9. CASE UnitSends
    <2>1. fromUnit' \in Seq(UnitSpeeds)
      BY <1>0, <1>9 DEF UnitSends, TypeOK
    <2> QED BY <1>0, <1>9, <2>1 DEF UnitSends, IInv, TypeOK, NothingEmptySent, state, handler
  <1>10. CASE UNCHANGED vars
    BY <1>0, <1>10 DEF vars, IInv, TypeOK, NothingEmptySent, state, handler
  <1>11. wall \in Frames /\ ErrorFrame \in Frames
    BY <1>0 DEF TypeOK, Frames
  <1> QED
    BY <1>1, <1>2, <1>3, <1>4, <1>5, <1>6, <1>7, <1>8, <1>9, <1>10, <1>11 DEF Next, Bridge

\* Nothing but complete packets goes to the unit, and nothing of one frame is
\* left when the next one is taken up.
THEOREM PacketsInvariant == Spec => []IInv
  BY IInvInit, IInvNext, PTL DEF Spec

-----------------------------------------------------------------------------
(* Who decides, and what HA is shown *)

\* Before HA's first command nothing is wished for.
QuietHa == commands = 0 => desired = Off

\* A packet under way is what the wall controller says, or HA's doing.
ControlAsked ==
  \/ control = NoPacket
  \/ IF controllerStatus.mode # "off"
     THEN controllerStatus.mode \in Modes /\ control.speed = controllerStatus.speed
     ELSE control.speed = "off" \/ commands > 0

AskedInv == QuietHa /\ ControlAsked /\ ShownTrue

\* The packet that is worked out for a frame is asked for.
LEMMA ControlForAsked ==
    ASSUME TypeOK, QuietHa, NEW cont
    PROVE  LET c == ControlFor(cont)
           IN  \/ c = NoPacket
               \/ IF cont.mode # "off" THEN cont.mode \in Modes /\ c.speed = cont.speed
                  ELSE c.speed = "off" \/ commands > 0
  <1>1. CASE cont.mode # "off"
    BY <1>1 DEF ControlFor, ControlPacket, Setting
  <1>2. CASE cont.mode = "off" /\ desired.mode = "on" /\ desired.speed # "off"
    <2>1. commands > 0
      BY <1>2 DEF QuietHa, TypeOK, Off, Setting
    <2> QED BY <1>2, <2>1
  <1>3. CASE cont.mode = "off" /\ ~(desired.mode = "on" /\ desired.speed # "off")
    BY <1>3 DEF ControlFor, ControlPacket, Setting
  <1> QED BY <1>1, <1>2, <1>3

\* Publishing keeps ShownTrue, whichever line has brought the speed.
LEMMA PublishTrue ==
    ASSUME TypeOK, QuietHa, NEW speed, Publish(controllerStatus', speed),
           speed \in {controllerStatus'.speed, ventilatorStatus'},
           UNCHANGED <<desired, commands>>
    PROVE  ShownTrue'
  <1> DEFINE cont == controllerStatus'
  <1>1. /\ fan' = FanShown(cont, speed) /\ sensor' = SensorShown(cont, speed)
        /\ commands' = commands /\ desired' = desired
    BY DEF Publish
  <1>2. CASE cont.mode # "off"
    <2>1. Running(cont)
      BY <1>2 DEF Running
    <2>2. /\ fan' = Setting("on", speed)
          /\ sensor'.mode = IF cont.mode \in Modes THEN cont.mode ELSE "off"
          /\ sensor'.speed = IF speed \in Speeds THEN speed ELSE "off"
      BY <1>1, <1>2, <2>1 DEF FanShown, SensorShown, Setting
    <2> QED BY <1>2, <2>2 DEF ShownTrue
  <1>3. CASE cont.mode = "off"
    <2>1. sensor'.mode \in {"off", "HA"}
      BY <1>1, <1>3 DEF SensorShown, Setting, Off
    <2>2. ASSUME commands = 0
          PROVE  fan' = Off /\ sensor' = Off
      <3>1. ~Running(cont)
        BY <1>3, <2>2 DEF QuietHa, Running, Off, Setting
      <3> QED BY <1>1, <3>1 DEF FanShown, SensorShown
    <2> QED BY <1>1, <1>3, <2>1, <2>2 DEF ShownTrue
  <1> QED BY <1>2, <1>3

LEMMA AskedInit == Init => AskedInv
  <1> SUFFICES ASSUME Init PROVE AskedInv
    OBVIOUS
  <1>1. controllerStatus.mode = "off" /\ sensor.mode = "none"
    BY DEF Init, Off, NoPacket, Setting
  <1> QED BY <1>1 DEF Init, AskedInv, QuietHa, ControlAsked, ShownTrue

LEMMA AskedNext == IInv /\ AskedInv /\ [Next]_vars => AskedInv'
  <1> SUFFICES ASSUME IInv, AskedInv, [Next]_vars PROVE AskedInv'
    OBVIOUS
  <1>0. TypeOK /\ NothingEmptySent /\ QuietHa /\ ControlAsked /\ ShownTrue
    BY DEF IInv, AskedInv
  <1>1. CASE HaCommand
    <2>1. /\ UNCHANGED <<controllerStatus, ventilatorStatus, control, sensor>>
          /\ commands' = commands + 1 /\ fan' \in {Off, fan}
      BY <1>1 DEF HaCommand, HandleFanCommand, handler
    <2>2. commands' > 0 /\ (commands > 0 => commands' > 0) /\ commands' # 0
      BY <1>0, <2>1 DEF TypeOK
    <2> QED BY <1>0, <2>1, <2>2 DEF AskedInv, QuietHa, ControlAsked, ShownTrue
  <1>2. CASE HandleControllerStatus
    <2> DEFINE s == Head(fromWall)
    <2>1. /\ controllerStatus' = IF Noticed(s) THEN s ELSE controllerStatus
          /\ IF Noticed(s) THEN Publish(s, s.speed) ELSE UNCHANGED shown
          /\ control' = ControlFor(controllerStatus')
          /\ UNCHANGED <<desired, ventilatorStatus, commands>>
      BY <1>2 DEF HandleControllerStatus
    <2>2. ControlAsked'
      BY <1>0, <2>1, ControlForAsked DEF ControlAsked
    <2>3. ShownTrue'
      <3>1. CASE Noticed(s)
        <4>1. Publish(controllerStatus', controllerStatus'.speed)
          BY <2>1, <3>1
        <4> QED BY <1>0, <2>1, <4>1, PublishTrue
      <3>2. CASE ~Noticed(s)
        BY <1>0, <2>1, <3>2 DEF ShownTrue, shown
      <3> QED BY <3>1, <3>2
    <2> QED BY <1>0, <2>1, <2>2, <2>3 DEF AskedInv, QuietHa
  <1>3. CASE HandleVentilatorStatus
    <2>1. /\ ventilatorStatus' = Head(fromUnit)
          /\ IF Head(fromUnit) # ventilatorStatus
             THEN Publish(controllerStatus, Head(fromUnit)) ELSE UNCHANGED shown
          /\ UNCHANGED <<desired, controllerStatus, control, commands>>
      BY <1>3 DEF HandleVentilatorStatus, handler
    <2>2. ShownTrue'
      <3>1. CASE Head(fromUnit) # ventilatorStatus
        <4>1. Publish(controllerStatus', Head(fromUnit))
          BY <2>1, <3>1
        <4> QED BY <1>0, <2>1, <4>1, PublishTrue
      <3>2. CASE Head(fromUnit) = ventilatorStatus
        BY <1>0, <2>1, <3>2 DEF ShownTrue, shown
      <3> QED BY <3>1, <3>2
    <2> QED BY <1>0, <2>1, <2>2 DEF AskedInv, QuietHa, ControlAsked
  <1>4. CASE ControlArrives \/ ControlLost
    BY <1>0, <1>4 DEF ControlArrives, ControlLost, Controlled, AskedInv, QuietHa,
       ControlAsked, ShownTrue, state, shown
  <1>5. CASE HandleControllerError \/ Respond \/ Press \/ UnitSends
             \/ WallSends(wall) \/ WallSends(ErrorFrame) \/ UNCHANGED vars
    BY <1>0, <1>5 DEF HandleControllerError, Respond, Press, UnitSends, WallSends, vars,
       AskedInv, QuietHa, ControlAsked, ShownTrue, state, handler, shown
  <1> QED BY <1>1, <1>2, <1>3, <1>4, <1>5 DEF Next, Bridge

\* The unit changes by a packet that has arrived, and that was asked for.
LEMMA DecidesStep ==
    ASSUME IInv, AskedInv, [Next]_vars, unit' # unit
    PROVE  IF controllerStatus.mode # "off"
           THEN controllerStatus.mode \in Modes /\ unit' = controllerStatus.speed
           ELSE unit' = "off" \/ commands > 0
  <1>1. Controlled /\ unit' = control.speed
    BY DEF Next, HaCommand, HandleFanCommand, Bridge, HandleControllerError,
       HandleControllerStatus, Respond, ControlArrives, ControlLost,
       HandleVentilatorStatus, Press, WallSends, UnitSends, vars
  <1>2. control # NoPacket
    BY <1>1 DEF IInv, NothingEmptySent, Controlled
  <1> QED BY <1>1, <1>2 DEF AskedInv, ControlAsked

\* HA is shown what one of the two lines has reported, in the mode of the wall
\* controller; and off, unless HA itself has wished for something else, while
\* that is off.
THEOREM TruthIsShown == Spec => []ShownTrue
  <1>1. AskedInv => ShownTrue
    BY DEF AskedInv
  <1> QED BY <1>1, IInvInit, IInvNext, AskedInit, AskedNext, PTL DEF Spec

\* HA, whose commands are taken at any time, does not reach the unit while the
\* wall controller is on.
THEOREM WallIsHeard == Spec => WallDecides
  <1>1. IInv /\ AskedInv /\ [Next]_vars =>
          [unit' # unit =>
             IF controllerStatus.mode # "off"
             THEN controllerStatus.mode \in Modes /\ unit' = controllerStatus.speed
             ELSE unit' = "off" \/ commands > 0]_vars
    BY DecidesStep
  <1> QED BY <1>1, IInvInit, IInvNext, AskedInit, AskedNext, PTL DEF Spec, WallDecides

=============================================================================
