--------------------------- MODULE WallPad_proofs ---------------------------
(***************************************************************************)
(* The closed loop of the synchronizer and its devices, for every home of  *)
(* switches and fans: what HA has set is in force, and what it has not set *)
(* is left alone.                                                          *)
(***************************************************************************)
EXTENDS WallPad, Synchronizer_proofs

\* What a room of devices d can tell of itself.
Plausible(r, d) ==
    IF Kind[r] = "switch" THEN \A m \in Lamps(r) : d[m] \in OnOff
    ELSE d[Mode(r)] \in OnOff /\ d[Level(r)] \in Payloads[Level(r)]

PadType ==
    /\ device = [m \in Devices |-> device[m]]
    /\ due = [m \in Devices |-> due[m]]
    /\ answer = [r \in Rooms |-> answer[r]]
    /\ sight \in [Rooms -> {"none", "clear", "lost"}]

\* Frames stay in their room; the group of a switch is never commanded; and
\* nobody writes while an answer is on its way.
Orderly ==
    /\ \A r \in Rooms : Plausible(r, due)
    /\ \A r \in Rooms : Kind[r] = "switch" => ~Pending(All(r))
    /\ pc = "writing" => DOMAIN frame \subseteq SubsOf(Head(rooms))
    /\ idle \/ pc = "writing" => \A r \in Rooms : answer[r] = Nothing

\* An answer tells what the devices of the room are, and they can tell it.
Truthful(r) ==
    /\ Plausible(r, device)
    /\ answer[r] # Nothing => \A m \in Physical(r) : answer[r][m] = device[m]

\* What HA waits for is what it wants newest, of a fan both parts.
Newest(r) ==
    \A m, n \in Physical(r) :
        Pending(m) /\ (n = m \/ Kind[r] = "fan") => set[n] = due[n]

Settles(r) == \A m \in Physical(r) : ~Pending(m) => device[m] = due[m]

\* A room is not reconciled before its first answer, and the panel knows the
\* lamps once the answer is there.
Known(r) ==
    /\ sight[r] = "none" /\ (~ScanDue(r) \/ (pc = "reconciling" /\ Head(rooms) = r)) =>
          answer[r] # Nothing
    /\ sight[r] = "clear" /\ answer[r] = Nothing /\ Kind[r] = "switch" =>
          \A m \in Lamps(r) : state[m] = device[m]

\* The frame being written changes nothing but what HA waits for.
Harmless(r) ==
    pc = "writing" /\ Head(rooms) = r =>
        /\ sight[r] = "clear"
        /\ DOMAIN frame = Physical(r) /\ Plausible(r, frame)
        /\ \A m \in Physical(r) : ~Pending(m) => frame[m] = due[m]

\* What HA shows is true, or its own newest wish on its way to come true.
Honest(r) ==
    sight[r] = "clear" /\ answer[r] = Nothing =>
        \A m \in Physical(r) :
            \/ shown[m] = device[m]
            \/ Kind[r] = "fan" /\ Pending(m) /\ shown[m] = due[m]

Promised(r) ==
    Truthful(r) /\ Newest(r) /\ Settles(r) /\ Known(r) /\ Harmless(r) /\ Honest(r)

PadInv ==
    /\ PadType /\ Orderly
    /\ \A r \in Rooms : sight[r] # "lost" => Promised(r)

-----------------------------------------------------------------------------
(* Rooms that tell all there is *)

LEMMA PadRoom ==
    ASSUME NEW r \in Rooms
    PROVE  /\ Kind[r] \in {"switch", "fan"}
           /\ Physical(r) \subseteq SubsOf(r) /\ Physical(r) \subseteq Devices
           /\ SubsOf(r) \subseteq Subs /\ All(r) \in SubsOf(r)
           /\ Kind[r] = "switch" => Physical(r) = Lamps(r) /\ SubsOf(r) = Lamps(r) \cup {All(r)}
           /\ Kind[r] = "fan" => /\ Physical(r) = {Mode(r), Level(r)}
                                 /\ SubsOf(r) = {Mode(r), Level(r)}
                                 /\ Mode(r) # Level(r)
  BY RoomFacts, WallPadAssumption DEF Physical, Devices, Lamps

\* No device is in two rooms.
LEMMA OnePlace ==
    ASSUME NEW q \in Rooms, NEW r \in Rooms, NEW m \in Physical(r), m \in SubsOf(q)
    PROVE  q = r
  BY OneRoom, PadRoom

\* A plausible room can tell what it is.
LEMMA Tells ==
    ASSUME NEW r \in Rooms, NEW d, Plausible(r, d)
    PROVE  /\ Status(r, d) \in Readings(r)
           /\ Status(r, d) # Nothing
           /\ \A m \in Physical(r) : Status(r, d)[m] = d[m]
  <1>1. \E reading \in Readings(r) : \A m \in Physical(r) : reading[m] = d[m]
    <2>1. CASE Kind[r] = "switch"
      <3> DEFINE lit == [l \in Lamps(r) |-> d[l]]
                 reading == [m \in SubsOf(r) |->
                    IF m # All(r) THEN lit[m]
                    ELSE IF \E l \in Lamps(r) : lit[l] = "on" THEN "on" ELSE "off"]
      <3>1. lit \in [Lamps(r) -> OnOff]
        BY <2>1 DEF Plausible
      <3>2. reading \in Readings(r)
        BY <2>1, <3>1 DEF Readings, SwitchReadings
      <3>3. \A m \in Physical(r) : reading[m] = d[m]
        BY <2>1, PadRoom DEF Lamps
      <3> QED BY <3>2, <3>3
    <2>2. CASE Kind[r] = "fan"
      <3> DEFINE reading == Pair(r, d[Mode(r)], d[Level(r)])
      <3>1. d[Mode(r)] \in OnOff /\ d[Level(r)] \in Payloads[Level(r)]
        BY <2>2 DEF Plausible
      <3>2. reading \in Readings(r)
        BY <2>2, <3>1 DEF Readings, FanReadings
      <3>3. \A m \in Physical(r) : reading[m] = d[m]
        BY <2>2, PadRoom DEF Pair
      <3> QED BY <3>2, <3>3
    <2> QED BY <2>1, <2>2, PadRoom
  <1>2. /\ Status(r, d) \in Readings(r)
        /\ \A m \in Physical(r) : Status(r, d)[m] = d[m]
    BY <1>1 DEF Status
  <1>3. DOMAIN Status(r, d) = SubsOf(r)
    <2>1. CASE Kind[r] = "switch"
      BY <1>2, <2>1 DEF Readings, SwitchReadings
    <2>2. CASE Kind[r] = "fan"
      BY <1>2, <2>2 DEF Readings, FanReadings, Pair
    <2> QED BY <2>1, <2>2, PadRoom
  <1>4. SubsOf(r) # {} /\ DOMAIN Nothing = {}
    BY PadRoom DEF Nothing
  <1> QED BY <1>2, <1>3, <1>4

\* And what it tells is plausible.
LEMMA Told ==
    ASSUME NEW r \in Rooms, NEW reading \in Readings(r)
    PROVE  Plausible(r, reading)
  <1>1. CASE Kind[r] = "switch"
    BY <1>1, PadRoom DEF Readings, SwitchReadings, Plausible, Lamps
  <1>2. CASE Kind[r] = "fan"
    <2>1. PICK mode \in OnOff, speed \in Payloads[Level(r)] : reading = Pair(r, mode, speed)
      BY <1>2 DEF Readings, FanReadings
    <2> QED BY <1>2, <2>1, PadRoom DEF Pair, Plausible
  <1> QED BY <1>1, <1>2, PadRoom

\* HA wants what a device can be, of a fan both parts at once.
LEMMA Wishes ==
    ASSUME NEW r \in Rooms, NEW s \in SubsOf(r), NEW v \in Payloads[s]
    PROVE  /\ s # All(r) \/ Kind[r] = "fan"
           /\ DOMAIN Wanted(r, s, v) \subseteq Physical(r)
           /\ Kind[r] = "switch" => /\ DOMAIN Wanted(r, s, v) = {s}
                                    /\ Wanted(r, s, v)[s] \in OnOff
           /\ Kind[r] = "fan" => /\ DOMAIN Wanted(r, s, v) = Physical(r)
                                 /\ Plausible(r, Wanted(r, s, v))
  <1>1. CASE Kind[r] = "switch"
    <2>1. s \in Lamps(r) /\ v \in OnOff
      BY <1>1, PadRoom, WallPadAssumption
    <2> QED BY <1>1, <2>1, PadRoom DEF Wanted, Lamps
  <1>2. CASE Kind[r] = "fan"
    <2>1. /\ s = Mode(r) => v \in OnOff
          /\ {DefaultSpeed, "off"} \subseteq Payloads[Level(r)]
          /\ s = Mode(r) \/ s = Level(r)
      BY <1>2, PadRoom, WallPadAssumption
    <2> QED BY <1>2, <2>1, PadRoom DEF Wanted, FanWanted, Pair, Plausible, OnOff
  <1> QED BY <1>1, <1>2, PadRoom

-----------------------------------------------------------------------------
(* Steps of the closed loop are steps of the synchronizer *)

LEMMA PadStep ==
    ASSUME [PadNext]_allVars
    PROVE  [Next]_vars
  <1>1. CASE Inside
    BY <1>1 DEF Inside, Next, Work, Reconcile, Environment
  <1>2. CASE Queried \/ QueryDropped \/ Unanswered
    BY <1>2 DEF Queried, QueryDropped, Unanswered, Next, Work
  <1>3. CASE Obeyed \/ FrameLost
    BY <1>3 DEF Obeyed, FrameLost, Next, Work
  <1>4. CASE PadQuiet
    BY <1>4 DEF PadQuiet, Next, Environment
  <1>5. CASE \E r \in Rooms : Heard(r)
    BY <1>5 DEF Heard, Report, Next, Environment
  <1>6. CASE \E r \in Rooms : AnswerLost(r) \/ \E m \in Physical(r) : Press(r, m)
    BY <1>6 DEF AnswerLost, Press
  <1>7. CASE \E s \in Subs : GivenUp(s)
    BY <1>7 DEF GivenUp, Next, Work, Reconcile
  <1>8. CASE \E r \in Rooms, s \in Subs : \E v \in Payloads[s] : PadCommand(r, s, v)
    BY <1>8 DEF PadCommand, Next, Environment
  <1>9. CASE UNCHANGED allVars
    BY <1>9 DEF allVars
  <1> QED
    BY <1>1, <1>2, <1>3, <1>4, <1>5, <1>6, <1>7, <1>8, <1>9 DEF PadNext

\* What is proved of the synchronizer holds in the closed loop.
THEOREM PadIsSynchronizer == PadSpec => Spec
  <1>1. PadInit => Init
    BY DEF PadInit
  <1> QED BY <1>1, PadStep, PTL DEF PadSpec, Spec

-----------------------------------------------------------------------------
(* A room of which nothing changes stays as it was promised *)

SameDevices(r) ==
    \A m \in Physical(r) :
        /\ device'[m] = device[m] /\ due'[m] = due[m]
        /\ set'[m] = set[m] /\ state'[m] = state[m] /\ shown'[m] = shown[m]
        /\ Pending(m)' <=> Pending(m)

SameTask(r) ==
    /\ ScanDue(r) => ScanDue(r)'
    /\ (pc = "reconciling" /\ Head(rooms) = r)' =>
          (pc = "reconciling" /\ Head(rooms) = r) \/ ~ScanDue(r) \/ sight[r] # "none"
    /\ (pc = "writing" /\ Head(rooms) = r)' =>
          pc = "writing" /\ Head(rooms) = r /\ frame' = frame

LEMMA PlausibleSame ==
    ASSUME NEW r \in Rooms, NEW d, NEW e, Plausible(r, d),
           \A m \in Physical(r) : e[m] = d[m]
    PROVE  Plausible(r, e)
  BY PadRoom DEF Plausible

LEMMA Untouched ==
    ASSUME NEW r \in Rooms, Promised(r), SameDevices(r), SameTask(r),
           sight'[r] = sight[r], answer'[r] = answer[r]
    PROVE  Promised(r)'
  <1>1. Truthful(r)'
    <2>1. Plausible(r, device)'
      BY PlausibleSame DEF Promised, Truthful, SameDevices, Plausible
    <2> QED BY <2>1 DEF Promised, Truthful, SameDevices
  <1>2. Newest(r)'
    BY DEF Promised, Newest, SameDevices
  <1>3. Settles(r)'
    BY DEF Promised, Settles, SameDevices
  <1>4. Known(r)'
    BY PadRoom DEF Promised, Known, SameDevices, SameTask
  <1>5. Harmless(r)'
    <2>1. ASSUME pc' = "writing", Head(rooms') = r
          PROVE  /\ sight'[r] = "clear"
                 /\ DOMAIN frame' = Physical(r) /\ Plausible(r, frame')
                 /\ \A m \in Physical(r) : ~Pending(m)' => frame'[m] = due'[m]
      BY <2>1 DEF Promised, Harmless, SameDevices, SameTask
    <2> QED BY <2>1 DEF Harmless, Plausible
  <1>6. Honest(r)'
    BY DEF Promised, Honest, SameDevices
  <1> QED BY <1>1, <1>2, <1>3, <1>4, <1>5, <1>6 DEF Promised

-----------------------------------------------------------------------------
(* The program at work *)

LEMMA AtHand ==
    ASSUME IInv, NEW s \in Subs, Reconciling(s)
    PROVE  Head(rooms) \in Rooms /\ s \in SubsOf(Head(rooms)) /\ pc = "reconciling"
  BY DEF IInv, TypeOK, QueueOfRoom, Reconciling, Range

\* Everything but a send touches neither devices nor what HA waits for.
LEMMA InsideSame ==
    ASSUME IInv, Inside, ~\E s \in Subs : Send(s)
    PROVE  /\ \A r \in Rooms : SameDevices(r) /\ SameTask(r)
           /\ \A s \in Subs : Pending(s)' <=> Pending(s)
           /\ pc' # "writing"
              \/ (pc = "writing" /\ UNCHANGED <<rooms, frame>>)
           /\ idle' => idle
  <1> DEFINE Goal == /\ UNCHANGED <<set, state, shown>>
                     /\ \A s \in Subs : Pending(s)' <=> Pending(s)
                     /\ \A r \in Rooms : SameTask(r)
                     /\ pc' # "writing" \/ (pc = "writing" /\ UNCHANGED <<rooms, frame>>)
                     /\ idle' => idle
  <1>1. ASSUME NEW dt \in Steps, StartSweep(dt) \/ SkipSweep(dt)
        PROVE  Goal
    <2>1. \A r \in Rooms : ScanDue(r) => ScanDue(r)'
      <3> SUFFICES ASSUME NEW r \in Rooms, ScanDue(r) PROVE scanTick'[r] > ScanInterval
        BY DEF ScanDue
      <3>1. scanTick'[r] = Cap(scanTick[r] + dt, ScanInterval + 1)
        BY <1>1 DEF StartSweep, SkipSweep, Elapse, Ancient
      <3>2. scanTick[r] \in Nat /\ dt \in Nat /\ ScanInterval \in Nat
        BY LimitsAssumption DEF IInv, TypeOK
      <3> QED BY <3>1, <3>2 DEF Cap, ScanDue
    <2>2. UNCHANGED <<set, state, last, shown>> /\ pc = "asleep" /\ pc' \in {"asleep", "visiting"}
          /\ UNCHANGED idle
      BY <1>1 DEF StartSweep, SkipSweep, taskVars
    <2> QED BY <2>1, <2>2 DEF Pending, SameTask
  <1>2. ASSUME EndSweep \/ EnterRoom \/ LeaveRoom \/ SkipPoll
        PROVE  Goal
    <2>1. UNCHANGED <<set, state, last, scanTick, idle, shown>> /\ pc # "writing" /\ pc' # "writing"
      BY <1>2 DEF EndSweep, EnterRoom, LeaveRoom, SkipPoll, PollDue, subVars, scanVars
    <2>2. pc' = "reconciling" => rooms' = rooms /\ ~ScanDue(Head(rooms))
      <3>1. pc' = "reconciling" => EnterRoom
        BY <1>2 DEF EndSweep, LeaveRoom, SkipPoll
      <3>2. EnterRoom => rooms # <<>> /\ UNCHANGED rooms
                         /\ (Kind[Head(rooms)] = "elevator" \/ ~ScanDue(Head(rooms)))
        BY DEF EnterRoom
      <3>3. rooms # <<>> => Head(rooms) \in Rooms
        BY DEF IInv, TypeOK
      <3> QED BY <3>1, <3>2, <3>3, PadRoom
    <2> QED BY <2>1, <2>2 DEF Pending, SameTask, ScanDue
  <1>3. ASSUME NEW s \in Subs, Retry(s) \/ Pass(s) \/ SendDropped(s)
        PROVE  Goal
    <2>1. Head(rooms) \in Rooms /\ s \in SubsOf(Head(rooms)) /\ pc = "reconciling"
      BY <1>3, AtHand DEF Retry, Pass, SendDropped, MarkSent
    <2>2. UNCHANGED <<set, state, scanTick, pc, rooms, idle, shown>>
      BY <1>3 DEF Retry, Pass, SendDropped, MarkSent, subVars, scanVars
    <2>3. \A m \in Subs : Pending(m)' <=> Pending(m)
      <3>1. SentMark(Head(rooms)) = "sent"
        BY <2>1, PadRoom DEF SentMark
      <3> QED BY <1>3, <2>1, <3>1
          DEF Retry, Pass, SendDropped, MarkSent, Pending, IInv, TypeOK, subVars
    <2> QED BY <2>1, <2>2, <2>3 DEF SameTask, ScanDue
  <1>4. ASSUME HaScan \/ Noise
        PROVE  Goal
    <2>1. UNCHANGED <<set, state, last, pc, rooms, frame, shown>> /\ (idle' => idle)
      BY <1>4 DEF HaScan, Noise, subVars, taskVars
    <2>2. \A r \in Rooms : ScanDue(r) => ScanDue(r)'
      BY <1>4, LimitsAssumption DEF HaScan, Noise, scanVars, ScanDue, Ancient
    <2> QED BY <2>1, <2>2 DEF Pending, SameTask
  <1>5. Goal
    BY <1>1, <1>2, <1>3, <1>4 DEF Inside, Wake
  <1>6. \A r \in Rooms : SameDevices(r)
    <2>1. UNCHANGED <<device, due>>
      BY DEF Inside, padVars
    <2> QED BY <1>5, <2>1, PadRoom DEF SameDevices
  <1> QED BY <1>5, <1>6

LEMMA InsideKept ==
    ASSUME IInv, PadInv, Inside, ~\E s \in Subs : Send(s)
    PROVE  PadInv'
  <1>1. UNCHANGED padVars
    BY DEF Inside
  <1>2. PadType'
    BY <1>1 DEF PadInv, PadType, padVars
  <1>3. Orderly'
    <2>1. /\ \A s \in Subs : Pending(s)' <=> Pending(s)
          /\ pc' # "writing" \/ (pc = "writing" /\ UNCHANGED <<rooms, frame>>)
          /\ idle' => idle
      BY InsideSame
    <2>2. \A r \in Rooms : Plausible(r, due)'
      BY <1>1 DEF PadInv, Orderly, padVars, Plausible
    <2> QED BY <1>1, <2>1, <2>2, PadRoom DEF PadInv, Orderly, padVars
  <1>4. ASSUME NEW r \in Rooms, sight'[r] # "lost" PROVE Promised(r)'
    BY <1>1, <1>4, InsideSame, Untouched DEF PadInv, padVars
  <1> QED BY <1>2, <1>3, <1>4 DEF PadInv

\* A frame is built from what HA waits for, from what the panel knows, and
\* for a fan from what HA wants: on an idle bus no answer is outstanding.
LEMMA SendKept ==
    ASSUME IInv, PadInv, NEW s \in Subs, Send(s), UNCHANGED padVars
    PROVE  PadInv'
  <1> DEFINE h == Head(rooms)
  <1>1. h \in Rooms /\ s \in SubsOf(h) /\ pc = "reconciling" /\ idle
    BY AtHand DEF Send, MarkSent
  <1>2. /\ UNCHANGED <<set, state, scanTick, rooms, idle, shown>>
        /\ pc' = "writing" /\ frame' = FrameFor(h, s)
        /\ Pending(s)
    BY DEF Send, MarkSent, scanVars, Pending
  <1>3. \A m \in Subs : Pending(m)' <=> Pending(m)
    <2>1. SentMark(h) = "sent"
      BY <1>1, PadRoom DEF SentMark
    <2> QED BY <1>1, <2>1 DEF Send, MarkSent, Pending, IInv, TypeOK
  <1>4. \A r \in Rooms : answer[r] = Nothing
    BY <1>1 DEF PadInv, Orderly
  <1>5. s \in Physical(h)
    BY <1>1, <1>2, PadRoom DEF PadInv, Orderly
  <1>6. DOMAIN frame' = Physical(h)
    BY <1>1, <1>2, PadRoom DEF FrameFor, SwitchFrame, PairFrame
  <1>7. PadType'
    BY DEF PadInv, PadType, padVars
  <1>8. Orderly'
    <2>1. \A r \in Rooms : Plausible(r, due)'
      BY DEF PadInv, Orderly, padVars, Plausible
    <2>2. DOMAIN frame' \subseteq SubsOf(Head(rooms'))
      BY <1>1, <1>2, <1>6, PadRoom
    <2>3. \A r \in Rooms : Kind[r] = "switch" => ~Pending(All(r))'
      BY <1>3, PadRoom DEF PadInv, Orderly
    <2>4. \A r \in Rooms : answer'[r] = Nothing
      BY <1>4 DEF padVars
    <2> QED BY <2>1, <2>2, <2>3, <2>4 DEF Orderly
  <1>9. ASSUME NEW r \in Rooms, sight'[r] # "lost" PROVE Promised(r)'
    <2>1. Promised(r) /\ UNCHANGED <<sight, answer, device, due>>
      BY <1>9 DEF PadInv, padVars
    <2>2. SameDevices(r)
      BY <1>2, <1>3, <2>1, PadRoom DEF SameDevices
    <2>3. CASE r # h
      BY <1>2, <2>1, <2>2, <2>3, Untouched DEF SameTask, ScanDue
    <2>4. CASE r = h
      <3>1. sight[r] = "clear"
        BY <1>1, <1>4, <1>9, <2>1, <2>4 DEF Promised, Known, PadInv, PadType
      <3>2. /\ Plausible(r, due) /\ Plausible(r, device)
            /\ \A m \in Physical(r) : ~Pending(m) => device[m] = due[m]
        BY <2>1 DEF Promised, Truthful, Settles, PadInv, Orderly
      <3>3. \A m \in Physical(r) : frame'[m] \in {device[m], due[m]}
                                  /\ (~Pending(m) => frame'[m] = due[m])
        <4>1. CASE Kind[r] = "switch"
          <5>1. \A m \in Lamps(r) : frame'[m] = IF m = s THEN set[s] ELSE state[m]
            BY <1>2, <1>5, <2>4, <4>1, PadRoom DEF FrameFor, SwitchFrame, Lamps
          <5>2. set[s] = due[s] /\ \A m \in Lamps(r) : state[m] = device[m]
            BY <1>2, <1>4, <1>5, <2>1, <2>4, <3>1, <4>1, PadRoom DEF Promised, Newest, Known
          <5> QED BY <1>2, <3>2, <4>1, <5>1, <5>2, PadRoom
        <4>2. CASE Kind[r] = "fan"
          <5>1. \A m \in Physical(r) : frame'[m] = set[m]
            BY <1>2, <2>4, <4>2, PadRoom DEF FrameFor, PairFrame
          <5>2. \A m \in Physical(r) : set[m] = due[m]
            BY <1>2, <1>5, <2>1, <2>4, <4>2 DEF Promised, Newest
          <5> QED BY <5>1, <5>2
        <4> QED BY <4>1, <4>2, PadRoom
      <3>4. Plausible(r, frame')
        BY <3>2, <3>3, PadRoom DEF Plausible
      <3>5. Truthful(r)' /\ Newest(r)' /\ Settles(r)'
        <4>1. Plausible(r, device)'
          BY <2>1, <3>2 DEF Plausible
        <4> QED BY <2>1, <2>2, <4>1 DEF Promised, Truthful, Newest, Settles, SameDevices
      <3>6. Known(r)'
        BY <1>2, <2>1, <2>2, <3>1, PadRoom DEF Promised, Known, SameDevices
      <3>8. Honest(r)'
        BY <2>1, <2>2 DEF Promised, Honest, SameDevices
      <3>7. Harmless(r)'
        <4>1. Plausible(r, frame)'
          BY <3>4 DEF Plausible
        <4>2. \A m \in Physical(r) : ~Pending(m)' => frame'[m] = due'[m]
          BY <2>1, <2>2, <3>3 DEF SameDevices
        <4> QED BY <1>6, <2>1, <2>4, <3>1, <4>1, <4>2 DEF Harmless
      <3> QED BY <3>5, <3>6, <3>7, <3>8 DEF Promised
    <2> QED BY <2>3, <2>4
  <1> QED BY <1>7, <1>8, <1>9 DEF PadInv

-----------------------------------------------------------------------------
(* Queries, frames and answers *)

LEMMA QueriedKept ==
    ASSUME IInv, PadInv, Queried
    PROVE  PadInv'
  <1> DEFINE h == Head(rooms)
  <1>1. /\ pc = "visiting" /\ h \in Rooms /\ ScanDue(h)
        /\ UNCHANGED <<set, state, last, scanTick, rooms, frame, shown>>
        /\ pc' = "polled" /\ ~idle'
        /\ answer' = [answer EXCEPT ![h] = Status(h, device)]
        /\ UNCHANGED <<device, due, sight>>
    BY DEF Queried, Poll, PollDue, subVars, IInv, TypeOK
  <1>2. \A s \in Subs : Pending(s)' <=> Pending(s)
    BY <1>1 DEF Pending
  <1>3. \A r \in Rooms : answer'[r] = IF r = h THEN Status(h, device) ELSE answer[r]
    BY <1>1 DEF PadInv, PadType
  <1>4. PadType'
    BY <1>1 DEF PadInv, PadType
  <1>5. Orderly'
    <2>1. \A r \in Rooms : Plausible(r, due)'
      BY <1>1 DEF PadInv, Orderly, Plausible
    <2> QED BY <1>1, <1>2, <2>1, PadRoom DEF PadInv, Orderly
  <1>6. ASSUME NEW r \in Rooms, sight'[r] # "lost" PROVE Promised(r)'
    <2>1. Promised(r)
      BY <1>1, <1>6 DEF PadInv
    <2>2. SameDevices(r) /\ SameTask(r)
      BY <1>1, <1>2, PadRoom DEF SameDevices, SameTask, ScanDue
    <2>3. CASE r # h
      BY <1>1, <1>3, <2>1, <2>2, <2>3, Untouched
    <2>4. CASE r = h
      <3>1. /\ answer'[r] # Nothing
            /\ \A m \in Physical(r) : answer'[r][m] = device[m]
        BY <1>3, <2>1, <2>4, Tells DEF Promised, Truthful
      <3>2. Plausible(r, device)'
        BY <1>1, <2>1 DEF Promised, Truthful, Plausible
      <3>3. Truthful(r)'
        BY <1>1, <3>1, <3>2 DEF Truthful
      <3> QED BY <1>1, <2>1, <2>2, <3>1, <3>3
          DEF Promised, Newest, Settles, Known, Harmless, Honest, SameDevices
    <2> QED BY <2>3, <2>4
  <1> QED BY <1>4, <1>5, <1>6 DEF PadInv

LEMMA QueryDroppedKept ==
    ASSUME IInv, PadInv, QueryDropped
    PROVE  PadInv'
  <1>1. /\ UNCHANGED <<set, state, last, scanTick, rooms, frame, shown, padVars>>
        /\ pc' = "polled" /\ ~idle'
    BY DEF QueryDropped, Poll, subVars
  <1>2. \A s \in Subs : Pending(s)' <=> Pending(s)
    BY <1>1 DEF Pending
  <1>3. PadType' /\ Orderly'
    <2>1. \A r \in Rooms : Plausible(r, due)'
      BY <1>1 DEF PadInv, Orderly, Plausible, padVars
    <2> QED BY <1>1, <1>2, <2>1, PadRoom DEF PadInv, PadType, Orderly, padVars
  <1>4. ASSUME NEW r \in Rooms, sight'[r] # "lost" PROVE Promised(r)'
    <2>1. SameDevices(r) /\ SameTask(r)
      BY <1>1, <1>2, PadRoom DEF SameDevices, SameTask, ScanDue, padVars
    <2> QED BY <1>1, <1>4, <2>1, Untouched DEF PadInv, padVars
  <1> QED BY <1>3, <1>4 DEF PadInv

LEMMA UnansweredKept ==
    ASSUME IInv, PadInv, Unanswered
    PROVE  PadInv'
  <1> DEFINE h == Head(rooms)
             mute == BurstOver(h) /\ sight[h] = "none" /\ answer[h] = Nothing
  <1>1. /\ pc = "polled" /\ h \in Rooms
        /\ UNCHANGED <<set, state, last, idle, frame, shown, device, answer, due>>
        /\ pc' = "visiting"
        /\ sight' = IF mute THEN [sight EXCEPT ![h] = "lost"] ELSE sight
    BY DEF Unanswered, FinishPoll, subVars, IInv, TypeOK
  <1>2. \A s \in Subs : Pending(s)' <=> Pending(s)
    BY <1>1 DEF Pending
  <1>3. \A r \in Rooms : sight'[r] = IF r = h /\ mute THEN "lost" ELSE sight[r]
    BY <1>1 DEF PadInv, PadType
  <1>4. \A r \in Rooms : r # h => scanTick'[r] = scanTick[r]
    BY <1>1 DEF Unanswered, FinishPoll, EndBurst, scanVars, IInv, TypeOK
  <1>5. ~BurstOver(h) => scanTick' = scanTick
    BY DEF Unanswered, FinishPoll, scanVars
  <1>6. PadType'
    BY <1>1, <1>3 DEF PadInv, PadType
  <1>7. Orderly'
    <2>1. \A r \in Rooms : Plausible(r, due)'
      BY <1>1 DEF PadInv, Orderly, Plausible
    <2> QED BY <1>1, <1>2, <2>1, PadRoom DEF PadInv, Orderly
  <1>8. ASSUME NEW r \in Rooms, sight'[r] # "lost" PROVE Promised(r)'
    <2>1. Promised(r) /\ sight'[r] = sight[r]
      BY <1>3, <1>8 DEF PadInv
    <2>2. SameDevices(r)
      BY <1>1, <1>2, PadRoom DEF SameDevices
    <2>3. CASE r # h \/ ~BurstOver(h)
      <3>1. SameTask(r)
        BY <1>1, <1>4, <1>5, <2>3 DEF SameTask, ScanDue
      <3> QED BY <1>1, <2>1, <2>2, <3>1, Untouched
    <2>4. CASE r = h /\ BurstOver(h)
      <3>1. sight'[r] # "none" \/ answer'[r] # Nothing
        BY <1>1, <1>3, <1>8, <2>1, <2>4
      <3>2. Truthful(r)' /\ Newest(r)' /\ Settles(r)'
        <4>1. Plausible(r, device)'
          BY <1>1, <2>1 DEF Promised, Truthful, Plausible
        <4> QED BY <1>1, <2>1, <2>2, <4>1 DEF Promised, Truthful, Newest, Settles, SameDevices
      <3>3. Known(r)'
        BY <1>1, <2>1, <2>2, <3>1, PadRoom DEF Promised, Known, SameDevices
      <3>4. Honest(r)'
        BY <1>1, <2>1, <2>2 DEF Promised, Honest, SameDevices
      <3> QED BY <1>1, <3>2, <3>3, <3>4 DEF Promised, Harmless
    <2> QED BY <2>3, <2>4
  <1> QED BY <1>6, <1>7, <1>8 DEF PadInv

\* A write that ends leaves everything but the task as it was.
LEMMA WrittenSame ==
    ASSUME IInv, Written
    PROVE  /\ pc = "writing" /\ Head(rooms) \in Rooms
           /\ UNCHANGED <<set, state, last, scanTick, rooms, shown>>
           /\ pc' = "reconciling" /\ ~idle'
           /\ \A s \in Subs : Pending(s)' <=> Pending(s)
  <1>1. pc = "writing" /\ Head(rooms) \in Rooms
    BY DEF Written, IInv, TypeOK
  <1>2. UNCHANGED <<set, state, last, scanTick, rooms>> /\ pc' = "reconciling" /\ ~idle'
    BY DEF Written, subVars, scanVars
  <1>3. UNCHANGED shown
    BY <1>1, PadRoom DEF Written
  <1> QED BY <1>1, <1>2, <1>3 DEF Pending

LEMMA ObeyedKept ==
    ASSUME IInv, PadInv, Obeyed
    PROVE  PadInv'
  <1> DEFINE h == Head(rooms)
             d == [m \in Devices |-> IF m \in DOMAIN frame THEN frame[m] ELSE device[m]]
  <1>1. /\ pc = "writing" /\ h \in Rooms
        /\ UNCHANGED <<set, state, last, scanTick, rooms, shown, due, sight>>
        /\ pc' = "reconciling" /\ ~idle'
        /\ \A s \in Subs : Pending(s)' <=> Pending(s)
        /\ device' = d /\ answer' = [answer EXCEPT ![h] = Status(h, d)]
    BY WrittenSame DEF Obeyed
  <1>2. \A r \in Rooms : answer'[r] = IF r = h THEN Status(h, d) ELSE answer[r]
    BY <1>1 DEF PadInv, PadType
  <1>3. PadType'
    BY <1>1 DEF PadInv, PadType
  <1>4. Orderly'
    <2>1. \A r \in Rooms : Plausible(r, due)'
      BY <1>1 DEF PadInv, Orderly, Plausible
    <2> QED BY <1>1, <2>1, PadRoom DEF PadInv, Orderly
  <1>5. ASSUME NEW r \in Rooms, sight'[r] # "lost" PROVE Promised(r)'
    <2>1. Promised(r)
      BY <1>1, <1>5 DEF PadInv
    <2>2. CASE r # h
      <3>1. \A m \in Physical(r) : m \notin DOMAIN frame
        BY <1>1, <2>2, OnePlace DEF PadInv, Orderly
      <3>2. SameDevices(r) /\ SameTask(r)
        BY <1>1, <2>2, <3>1, PadRoom DEF SameDevices, SameTask, ScanDue
      <3> QED BY <1>1, <1>2, <2>1, <2>2, <3>2, Untouched
    <2>3. CASE r = h
      <3>1. /\ DOMAIN frame = Physical(r) /\ Plausible(r, frame)
            /\ \A m \in Physical(r) : ~Pending(m) => frame[m] = due[m]
            /\ sight[r] = "clear"
        BY <1>1, <2>1, <2>3 DEF Promised, Harmless
      <3>2. \A m \in Physical(r) : d[m] = frame[m]
        BY <3>1, PadRoom
      <3>3. Plausible(r, d)
        BY <3>1, <3>2, PlausibleSame
      <3>4. Status(r, d) # Nothing /\ \A m \in Physical(r) : Status(r, d)[m] = d[m]
        BY <3>3, Tells
      <3>5. Truthful(r)'
        <4>1. Plausible(r, device)'
          BY <1>1, <3>3 DEF Plausible
        <4> QED BY <1>1, <1>2, <2>3, <3>4, <4>1 DEF Truthful
      <3>6. Newest(r)'
        BY <1>1, <2>1, PadRoom DEF Promised, Newest
      <3>7. Settles(r)'
        BY <1>1, <3>1, <3>2, PadRoom DEF Settles
      <3>8. Known(r)'
        BY <1>1, <1>2, <2>3, <3>4 DEF Known
      <3>9. Honest(r)'
        BY <1>2, <2>3, <3>4 DEF Honest
      <3> QED BY <1>1, <3>5, <3>6, <3>7, <3>8, <3>9 DEF Promised, Harmless
    <2> QED BY <2>2, <2>3
  <1> QED BY <1>3, <1>4, <1>5 DEF PadInv

\* Of a room where something got lost nothing is promised, and no other room
\* notices.
LEMMA FaultElsewhere ==
    ASSUME PadInv, NEW q \in Rooms, Fault(q), NEW r \in Rooms, sight'[r] # "lost"
    PROVE  r # q /\ sight'[r] = sight[r] /\ Promised(r)
  BY DEF Fault, PadInv, PadType

LEMMA FaultType ==
    ASSUME PadInv, NEW q \in Rooms, Fault(q)
    PROVE  sight' \in [Rooms -> {"none", "clear", "lost"}]
  BY DEF Fault, PadInv, PadType

LEMMA FrameLostKept ==
    ASSUME IInv, PadInv, FrameLost
    PROVE  PadInv'
  <1> DEFINE h == Head(rooms)
  <1>1. /\ pc = "writing" /\ h \in Rooms /\ Fault(h)
        /\ UNCHANGED <<set, state, last, scanTick, rooms, shown, due, device, answer>>
        /\ pc' = "reconciling" /\ ~idle'
        /\ \A s \in Subs : Pending(s)' <=> Pending(s)
    BY WrittenSame DEF FrameLost
  <1>2. PadType'
    BY <1>1, FaultType DEF PadInv, PadType
  <1>3. Orderly'
    <2>1. \A r \in Rooms : Plausible(r, due)'
      BY <1>1 DEF PadInv, Orderly, Plausible
    <2> QED BY <1>1, <2>1, PadRoom DEF PadInv, Orderly
  <1>4. ASSUME NEW r \in Rooms, sight'[r] # "lost" PROVE Promised(r)'
    <2>1. r # h /\ sight'[r] = sight[r] /\ Promised(r)
      BY <1>1, <1>4, FaultElsewhere
    <2>2. SameDevices(r) /\ SameTask(r)
      BY <1>1, <2>1, PadRoom DEF SameDevices, SameTask, ScanDue
    <2> QED BY <1>1, <2>1, <2>2, Untouched
  <1> QED BY <1>2, <1>3, <1>4 DEF PadInv

LEMMA PressKept ==
    ASSUME IInv, PadInv, NEW q \in Rooms, NEW p \in Physical(q), Press(q, p)
    PROVE  PadInv'
  <1>1. /\ Fault(q) /\ UNCHANGED <<vars, answer, due>>
        /\ \E v : device' = [device EXCEPT ![p] = v]
    BY DEF Press
  <1>2. UNCHANGED <<set, state, last, scanTick, pc, rooms, frame, idle, shown>>
    BY <1>1 DEF vars, subVars, scanVars, taskVars
  <1>3. PadType'
    BY <1>1, FaultType DEF PadInv, PadType
  <1>4. Orderly'
    <2>1. \A r \in Rooms : Plausible(r, due)'
      BY <1>1 DEF PadInv, Orderly, Plausible
    <2> QED BY <1>1, <1>2, <2>1 DEF PadInv, Orderly, Pending
  <1>5. ASSUME NEW r \in Rooms, sight'[r] # "lost" PROVE Promised(r)'
    <2>1. r # q /\ sight'[r] = sight[r] /\ Promised(r)
      BY <1>1, <1>5, FaultElsewhere
    <2>2. \A m \in Physical(r) : device'[m] = device[m]
      <3>1. \A m \in Physical(r) : m # p
        BY <2>1, OnePlace, PadRoom
      <3>2. \A m \in Devices : m # p => device'[m] = device[m]
        BY <1>1 DEF PadInv, PadType
      <3> QED BY <3>1, <3>2, PadRoom
    <2>3. SameDevices(r) /\ SameTask(r)
      BY <1>1, <1>2, <2>1, <2>2, PadRoom DEF SameDevices, SameTask, ScanDue, Pending
    <2> QED BY <1>1, <2>1, <2>3, Untouched
  <1> QED BY <1>3, <1>4, <1>5 DEF PadInv

LEMMA AnswerLostKept ==
    ASSUME IInv, PadInv, NEW q \in Rooms, AnswerLost(q)
    PROVE  PadInv'
  <1>1. /\ Fault(q) /\ UNCHANGED <<vars, device, due>>
        /\ answer' = [answer EXCEPT ![q] = Nothing]
    BY DEF AnswerLost
  <1>2. UNCHANGED <<set, state, last, scanTick, pc, rooms, frame, idle, shown>>
    BY <1>1 DEF vars, subVars, scanVars, taskVars
  <1>3. \A r \in Rooms : answer'[r] = IF r = q THEN Nothing ELSE answer[r]
    BY <1>1 DEF PadInv, PadType
  <1>4. PadType'
    BY <1>1, FaultType DEF PadInv, PadType
  <1>5. Orderly'
    <2>1. \A r \in Rooms : Plausible(r, due)'
      BY <1>1 DEF PadInv, Orderly, Plausible
    <2> QED BY <1>1, <1>2, <1>3, <2>1 DEF PadInv, Orderly, Pending
  <1>6. ASSUME NEW r \in Rooms, sight'[r] # "lost" PROVE Promised(r)'
    <2>1. r # q /\ sight'[r] = sight[r] /\ Promised(r)
      BY <1>1, <1>6, FaultElsewhere
    <2>2. SameDevices(r) /\ SameTask(r)
      BY <1>1, <1>2, <2>1, PadRoom DEF SameDevices, SameTask, ScanDue, Pending
    <2> QED BY <1>3, <2>1, <2>2, Untouched
  <1> QED BY <1>4, <1>5, <1>6 DEF PadInv

LEMMA PadQuietKept ==
    ASSUME IInv, PadInv, PadQuiet
    PROVE  PadInv'
  <1>1. /\ UNCHANGED <<set, state, last, scanTick, pc, rooms, frame, shown, padVars>>
        /\ \A r \in Rooms : answer[r] = Nothing
    BY DEF PadQuiet, Quiet, subVars, scanVars, taskVars
  <1>2. PadType' /\ Orderly'
    <2>1. \A r \in Rooms : Plausible(r, due)'
      BY <1>1 DEF PadInv, Orderly, Plausible, padVars
    <2> QED BY <1>1, <2>1 DEF PadInv, PadType, Orderly, Pending, padVars
  <1>3. ASSUME NEW r \in Rooms, sight'[r] # "lost" PROVE Promised(r)'
    <2>1. SameDevices(r) /\ SameTask(r)
      BY <1>1, PadRoom DEF SameDevices, SameTask, ScanDue, Pending, padVars
    <2> QED BY <1>1, <1>3, <2>1, Untouched DEF PadInv, padVars
  <1> QED BY <1>2, <1>3 DEF PadInv

LEMMA GivenUpKept ==
    ASSUME IInv, PadInv, NEW s \in Subs, GivenUp(s)
    PROVE  PadInv'
  <1> DEFINE h == Head(rooms)
  <1>1. h \in Rooms /\ s \in SubsOf(h) /\ pc = "reconciling"
    BY AtHand DEF GivenUp, Abandon
  <1>2. /\ UNCHANGED <<set, state, scanTick, pc, rooms, frame, idle, shown, device, answer, due>>
        /\ sight' = [sight EXCEPT ![h] = "lost"]
        /\ \A m \in Subs : last'[m] = IF m = s THEN "state" ELSE last[m]
    BY DEF GivenUp, Abandon, Settle, scanVars
  <1>3. \A r \in Rooms : sight'[r] = IF r = h THEN "lost" ELSE sight[r]
    BY <1>2 DEF PadInv, PadType
  <1>4. PadType'
    BY <1>2, <1>3 DEF PadInv, PadType
  <1>5. Orderly'
    <2>1. \A r \in Rooms : Plausible(r, due)'
      BY <1>2 DEF PadInv, Orderly, Plausible
    <2> QED BY <1>1, <1>2, <2>1, PadRoom DEF PadInv, Orderly, Pending
  <1>6. ASSUME NEW r \in Rooms, sight'[r] # "lost" PROVE Promised(r)'
    <2>1. r # h /\ sight'[r] = sight[r] /\ Promised(r)
      BY <1>3, <1>6 DEF PadInv
    <2>2. \A m \in Physical(r) : m # s
      BY <1>1, <2>1, OnePlace
    <2>3. SameDevices(r) /\ SameTask(r)
      BY <1>2, <2>2, PadRoom DEF SameDevices, SameTask, ScanDue, Pending
    <2> QED BY <1>2, <2>1, <2>3, Untouched
  <1> QED BY <1>4, <1>5, <1>6 DEF PadInv

\* An answer shows what is: it settles only what is as HA wants it.
LEMMA HeardKept ==
    ASSUME IInv, PadInv, NEW q \in Rooms, Heard(q)
    PROVE  PadInv'
  <1> DEFINE reading == answer[q]
  <1>1. /\ reading # Nothing /\ reading \in Readings(q)
        /\ UNCHANGED <<set, pc, rooms, frame, device, due>> /\ ~idle'
        /\ answer' = [answer EXCEPT ![q] = Nothing]
        /\ sight' = [sight EXCEPT ![q] = IF @ = "none" THEN "clear" ELSE @]
        /\ \A m \in Subs : state'[m] = IF m \in SubsOf(q) THEN Reflected(q, reading, m)
                                        ELSE state[m]
        /\ \A m \in Subs : last'[m] = IF m \in Settled(q, reading) THEN "state" ELSE last[m]
        /\ \A m \in Subs : shown'[m] = IF m \in SubsOf(q) THEN reading[m] ELSE shown[m]
    BY DEF Heard, Report, Announced, Settle, taskVars
  <1>2. /\ \A r \in Rooms : answer'[r] = IF r = q THEN Nothing ELSE answer[r]
        /\ \A r \in Rooms : sight'[r] = IF r = q /\ sight[q] = "none" THEN "clear" ELSE sight[r]
    BY <1>1 DEF PadInv, PadType
  <1>3. \A r \in Rooms : r # q => scanTick'[r] = scanTick[r]
    BY DEF Heard, Report, EndBurst, IInv, TypeOK
  <1>4. pc # "writing"
    BY <1>1 DEF PadInv, Orderly
  <1>5. Settled(q, reading) = {m \in SubsOf(q) : Pending(m) /\ set[m] = reading[m]}
    BY PadRoom DEF Settled, SettledByAny
  <1>6. PadType'
    BY <1>1, <1>2 DEF PadInv, PadType
  <1>7. Orderly'
    <2>1. \A r \in Rooms : Plausible(r, due)'
      BY <1>1 DEF PadInv, Orderly, Plausible
    <2> QED BY <1>1, <1>4, <2>1, PadRoom DEF PadInv, Orderly, Pending
  <1>8. ASSUME NEW r \in Rooms, sight'[r] # "lost" PROVE Promised(r)'
    <2>1. Promised(r)
      BY <1>2, <1>8 DEF PadInv, PadType
    <2>2. CASE r # q
      <3>1. \A m \in Physical(r) : m \notin SubsOf(q)
        BY <2>2, OnePlace
      <3>2. SameDevices(r) /\ SameTask(r)
        BY <1>1, <1>3, <1>5, <2>2, <3>1, PadRoom DEF SameDevices, SameTask, ScanDue, Pending
      <3> QED BY <1>2, <2>1, <2>2, <3>2, Untouched
    <2>3. CASE r = q
      <3>1. \A m \in Physical(r) : reading[m] = device[m]
        BY <1>1, <2>1, <2>3 DEF Promised, Truthful
      <3>2. \A m \in Physical(r) :
               Pending(m)' <=> Pending(m) /\ set[m] # reading[m]
        BY <1>1, <1>5, <2>3, PadRoom DEF Pending
      <3>3. Truthful(r)'
        <4>1. Plausible(r, device)'
          BY <1>1, <2>1 DEF Promised, Truthful, Plausible
        <4> QED BY <1>2, <2>3, <4>1 DEF Truthful
      <3>4. Newest(r)'
        BY <1>1, <2>1, <3>2 DEF Promised, Newest
      <3>5. Settles(r)'
        BY <1>1, <2>1, <3>1, <3>2 DEF Promised, Newest, Settles
      <3>6. Known(r)'
        <4>1. sight'[r] # "none"
          BY <1>2, <2>3
        <4>2. Kind[r] = "switch" => \A m \in Lamps(r) : state'[m] = device[m]
          BY <1>1, <2>3, <3>1, PadRoom DEF Reflected
        <4> QED BY <1>1, <4>1, <4>2 DEF Known
      <3>7. Honest(r)'
        BY <1>1, <2>3, <3>1, PadRoom DEF Honest
      <3> QED BY <1>1, <1>4, <3>3, <3>4, <3>5, <3>6, <3>7 DEF Promised, Harmless
    <2> QED BY <2>2, <2>3
  <1> QED BY <1>6, <1>7, <1>8 DEF PadInv

-----------------------------------------------------------------------------
(* Commands of HA *)

LEMMA PadCommandKept ==
    ASSUME IInv, PadInv, NEW q \in Rooms, NEW s \in Subs, NEW v \in Payloads[s],
           PadCommand(q, s, v)
    PROVE  PadInv'
  <1> DEFINE want == Wanted(q, s, v)
  <1>1. /\ s \in SubsOf(q)
        /\ UNCHANGED <<state, scanTick, pc, rooms, frame, idle, device, answer, sight>>
        /\ \A m \in Subs : set'[m] = IF m \in DOMAIN want THEN want[m] ELSE set[m]
        /\ due' = [m \in Devices |-> IF m \in DOMAIN want THEN want[m] ELSE due[m]]
    BY DEF PadCommand, HaCommand, taskVars, scanVars
  <1>2. \A m \in Subs : last'[m] = IF m \in DOMAIN want THEN "set" ELSE last[m]
    <2>1. CommandMark(q, v) = "set"
      BY PadRoom DEF CommandMark
    <2> QED BY <2>1 DEF PadCommand, HaCommand
  <1>3. /\ DOMAIN want \subseteq Physical(q)
        /\ Kind[q] = "switch" => DOMAIN want = {s} /\ want[s] \in OnOff
        /\ Kind[q] = "fan" => DOMAIN want = Physical(q) /\ Plausible(q, want)
    BY <1>1, Wishes
  <1>4. \A m \in Subs : Pending(m)' <=> m \in DOMAIN want \/ Pending(m)
    BY <1>2 DEF Pending
  <1>9. \A m \in Subs :
           \/ shown'[m] = shown[m] /\ (Kind[q] = "switch" \/ m \notin SubsOf(q))
           \/ Kind[q] = "fan" /\ m \in DOMAIN want /\ shown'[m] = want[m]
    <2>1. shown' = Optimistic(q, want)
      BY DEF PadCommand, HaCommand
    <2> QED BY <1>3, <2>1, PadRoom DEF Optimistic
  <1>5. PadType'
    BY <1>1 DEF PadInv, PadType
  <1>6. ASSUME NEW r \in Rooms, r # q
        PROVE  \A m \in Physical(r) : m \notin DOMAIN want
    BY <1>3, <1>6, OnePlace, PadRoom
  <1>7. Orderly'
    <2>1. ASSUME NEW r \in Rooms PROVE Plausible(r, due')
      <3>1. Plausible(r, due) /\ \A m \in Physical(r) :
               due'[m] = IF m \in DOMAIN want THEN want[m] ELSE due[m]
        BY <1>1, PadRoom DEF PadInv, Orderly
      <3>2. CASE r # q
        BY <1>6, <3>1, <3>2, PlausibleSame
      <3>3. CASE r = q /\ Kind[r] = "switch"
        BY <1>3, <3>1, <3>3, PadRoom DEF Plausible
      <3>4. CASE r = q /\ Kind[r] = "fan"
        BY <1>3, <3>1, <3>4, PlausibleSame
      <3> QED BY <3>2, <3>3, <3>4, PadRoom
    <2>2. \A r \in Rooms : Plausible(r, due)'
      BY <2>1 DEF Plausible
    <2>3. ASSUME NEW r \in Rooms, Kind[r] = "switch" PROVE ~Pending(All(r))'
      <3>1. All(r) \notin DOMAIN want
        BY <1>3, <2>3, OnePlace, PadRoom DEF Lamps
      <3> QED BY <1>4, <2>3, <3>1, PadRoom DEF PadInv, Orderly
    <2> QED BY <1>1, <2>2, <2>3 DEF PadInv, Orderly
  <1>8. ASSUME NEW r \in Rooms, sight'[r] # "lost" PROVE Promised(r)'
    <2>1. Promised(r)
      BY <1>1, <1>8 DEF PadInv
    <2>2. CASE r # q
      <3>1. SameDevices(r) /\ SameTask(r)
        <4>1. \A m \in Physical(r) : m \notin SubsOf(q)
          BY <2>2, OnePlace
        <4> QED BY <1>1, <1>4, <1>6, <1>9, <2>2, <4>1, PadRoom
            DEF SameDevices, SameTask, ScanDue
      <3> QED BY <1>1, <2>1, <3>1, Untouched
    <2>3. CASE r = q
      <3>1. \A m \in Physical(r) :
               /\ set'[m] = IF m \in DOMAIN want THEN want[m] ELSE set[m]
               /\ due'[m] = IF m \in DOMAIN want THEN want[m] ELSE due[m]
               /\ Pending(m)' <=> m \in DOMAIN want \/ Pending(m)
        BY <1>1, <1>4, PadRoom
      <3>2. Truthful(r)'
        <4>1. Plausible(r, device)'
          BY <1>1, <2>1 DEF Promised, Truthful, Plausible
        <4> QED BY <1>1, <2>1, <4>1 DEF Promised, Truthful
      <3>3. Newest(r)'
        BY <1>3, <2>1, <2>3, <3>1, PadRoom DEF Promised, Newest
      <3>4. Settles(r)'
        BY <1>1, <2>1, <3>1 DEF Promised, Settles
      <3>5. Known(r)'
        BY <1>1, <2>1 DEF Promised, Known, ScanDue
      <3>6. Harmless(r)'
        <4>1. Plausible(r, frame) => Plausible(r, frame)'
          BY <1>1 DEF Plausible
        <4> QED BY <1>1, <2>1, <3>1, <4>1 DEF Promised, Harmless
      <3>7. Honest(r)'
        <4>1. ASSUME NEW m \in Physical(r), sight[r] = "clear", answer[r] = Nothing
              PROVE  \/ shown'[m] = device[m]
                     \/ Kind[r] = "fan" /\ Pending(m)' /\ shown'[m] = due'[m]
          <5>1. \/ shown[m] = device[m]
                \/ Kind[r] = "fan" /\ Pending(m) /\ shown[m] = due[m]
            BY <2>1, <4>1 DEF Promised, Honest
          <5>2. CASE m \in DOMAIN want
            BY <1>9, <2>3, <3>1, <5>1, <5>2, <4>1, PadRoom, <1>3
          <5>3. CASE m \notin DOMAIN want
            BY <1>9, <2>3, <3>1, <5>1, <5>3, PadRoom
          <5> QED BY <5>2, <5>3
        <4> QED BY <1>1, <4>1 DEF Honest
      <3> QED BY <3>2, <3>3, <3>4, <3>5, <3>6, <3>7 DEF Promised
    <2> QED BY <2>2, <2>3
  <1> QED BY <1>5, <1>7, <1>8 DEF PadInv

-----------------------------------------------------------------------------

LEMMA PadInitInv ==
    ASSUME PadInit
    PROVE  PadInv
  <1>1. /\ \A s \in Subs : ~Pending(s)
        /\ \A r \in Rooms : ScanDue(r) /\ answer[r] = Nothing /\ sight[r] = "none"
        /\ pc = "asleep" /\ due = device
    BY LimitsAssumption DEF PadInit, Init, Pending, ScanDue, Ancient
  <1>2. \A r \in Rooms : Plausible(r, device)
    <2> TAKE r \in Rooms
    <2>1. PICK reading \in Readings(r) :
             [m \in Physical(r) |-> device[m]] = [m \in Physical(r) |-> reading[m]]
      BY DEF PadInit, Telling
    <2>2. \A m \in Physical(r) : device[m] = reading[m]
      <3> TAKE m \in Physical(r)
      <3>1. [n \in Physical(r) |-> device[n]][m] = [n \in Physical(r) |-> reading[n]][m]
        BY <2>1
      <3> QED BY <3>1
    <2> QED BY <2>2, Told, PlausibleSame
  <1>3. PadType
    BY DEF PadInit, PadType
  <1>4. Orderly
    BY <1>1, <1>2, PadRoom DEF Orderly
  <1>5. ASSUME NEW r \in Rooms PROVE Promised(r)
    BY <1>1, <1>2, PadRoom
    DEF Promised, Truthful, Newest, Settles, Known, Harmless, Honest
  <1> QED BY <1>3, <1>4, <1>5 DEF PadInv

LEMMA PadInvariant == PadSpec => []PadInv
  <1>1. PadInit => PadInv
    BY PadInitInv
  <1>2. IInv /\ PadInv /\ [PadNext]_allVars => PadInv'
    <2> SUFFICES ASSUME IInv, PadInv, [PadNext]_allVars PROVE PadInv'
      OBVIOUS
    <2>1. CASE Inside /\ ~\E s \in Subs : Send(s)
      BY <2>1, InsideKept
    <2>2. CASE Inside /\ \E s \in Subs : Send(s)
      BY <2>2, SendKept DEF Inside
    <2>3. CASE Queried \/ QueryDropped \/ Unanswered
      BY <2>3, QueriedKept, QueryDroppedKept, UnansweredKept
    <2>4. CASE Obeyed \/ FrameLost \/ PadQuiet
      BY <2>4, ObeyedKept, FrameLostKept, PadQuietKept
    <2>5. CASE \E r \in Rooms : Heard(r) \/ AnswerLost(r) \/ \E m \in Physical(r) : Press(r, m)
      BY <2>5, HeardKept, AnswerLostKept, PressKept
    <2>6. CASE \E s \in Subs : GivenUp(s)
      BY <2>6, GivenUpKept
    <2>7. CASE \E r \in Rooms, s \in Subs : \E v \in Payloads[s] : PadCommand(r, s, v)
      BY <2>7, PadCommandKept
    <2>8. CASE UNCHANGED allVars
      <3>1. UNCHANGED <<set, state, last, scanTick, pc, rooms, frame, idle, shown, padVars>>
        BY <2>8 DEF allVars, vars, subVars, scanVars, taskVars
      <3>2. PadType' /\ Orderly'
        <4>1. \A r \in Rooms : Plausible(r, due)'
          BY <3>1 DEF PadInv, Orderly, Plausible, padVars
        <4> QED BY <3>1, <4>1 DEF PadInv, PadType, Orderly, Pending, padVars
      <3>3. ASSUME NEW r \in Rooms, sight'[r] # "lost" PROVE Promised(r)'
        <4>1. SameDevices(r) /\ SameTask(r)
          BY <3>1, PadRoom DEF SameDevices, SameTask, ScanDue, Pending, padVars
        <4> QED BY <3>1, <3>3, <4>1, Untouched DEF PadInv, padVars
      <3> QED BY <3>2, <3>3 DEF PadInv
    <2> QED BY <2>1, <2>2, <2>3, <2>4, <2>5, <2>6, <2>7, <2>8 DEF PadNext
  <1>3. PadSpec => []IInv
    BY PadIsSynchronizer, LedgerInvariant, PTL
  <1> QED BY <1>1, <1>2, <1>3, PTL DEF PadSpec

\* What HA and people did stands, in every home of switches and fans: as long
\* as nothing got lost, was pressed or given up on in a room, its devices are
\* what HA told them to be, and the rest of them what they were (InForce).
THEOREM NothingUndone == PadSpec => []InForce
  <1>1. PadInv => InForce
    BY DEF PadInv, Promised, Settles, InForce
  <1> QED BY <1>1, PadInvariant, PTL

\* What HA shows is true, or HA's own newest wish that the panel still sees to,
\* in every such home (ShownHonest).
THEOREM NothingMadeUp == PadSpec => []ShownHonest
  <1>1. PadInv => ShownHonest
    BY DEF PadInv, Promised, Honest, ShownHonest
  <1> QED BY <1>1, PadInvariant, PTL

\* The three views of a device agree once the panel has nothing left to do
\* for it: what HA last asked for, what the device is and what HA shows.
THEOREM AllAgreeAtRest ==
    PadSpec => [](\A r \in Rooms : sight[r] = "clear" /\ answer[r] = Nothing =>
                    \A m \in Physical(r) :
                        ~Pending(m) => shown[m] = device[m] /\ device[m] = due[m])
  <1>1. InForce /\ ShownHonest =>
            \A r \in Rooms : sight[r] = "clear" /\ answer[r] = Nothing =>
                \A m \in Physical(r) :
                    ~Pending(m) => shown[m] = device[m] /\ device[m] = due[m]
    BY DEF InForce, ShownHonest
  <1> QED BY <1>1, NothingUndone, NothingMadeUp, PTL
=============================================================================
