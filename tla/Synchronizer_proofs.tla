------------------------ MODULE Synchronizer_proofs ------------------------
(***************************************************************************)
(* Proofs about the state synchronizer, for every home and every value of  *)
(* the limits: its types, the ledger of sends and retries, and the bounds  *)
(* and guarantees that follow from it.                                     *)
(***************************************************************************)
EXTENDS Synchronizer, SequenceTheorems, TLAPS

-----------------------------------------------------------------------------
(* What a home is made of *)

LEMMA RoomFacts ==
    ASSUME NEW r \in Rooms
    PROVE  /\ Members[r] \in Seq(Subs)
           /\ SubsOf(r) \subseteq Subs
           /\ Kind[r] \in Kinds
           /\ All(r) \in SubsOf(r)
           /\ Kind[r] \in {"gas", "elevator"} => SubsOf(r) = {All(r)}
           /\ Kind[r] \in {"fan", "thermostat"} =>
                 /\ Mode(r) \in SubsOf(r) /\ Level(r) \in SubsOf(r)
                 /\ Mode(r) # Level(r)
                 /\ SubsOf(r) = {Mode(r), Level(r)}
  <1>1. /\ Members[r] \in Seq(Subs) /\ Kind[r] \in Kinds
        /\ DOMAIN Members[r] = 1 .. Len(Members[r])
        /\ Len(Members[r]) \in Nat
    BY HomeAssumption
  <1>2. Len(Members[r]) > 0
    <2>1. /\ Kind[r] \in {"gas", "elevator"} => Len(Members[r]) = 1
          /\ Kind[r] \in {"fan", "thermostat"} => Len(Members[r]) = 2
          /\ Kind[r] = "switch" => Len(Members[r]) > 1
      BY HomeAssumption
    <2> QED BY <1>1, <2>1 DEF Kinds
  <1>3. SubsOf(r) \subseteq Subs
    BY <1>1 DEF SubsOf, Range
  <1>4. All(r) \in SubsOf(r)
    BY <1>1, <1>2 DEF SubsOf, Range, All
  <1>5. Kind[r] \in {"gas", "elevator"} => SubsOf(r) = {All(r)}
    <2> SUFFICES ASSUME Kind[r] \in {"gas", "elevator"} PROVE SubsOf(r) = {All(r)}
      OBVIOUS
    <2>1. Len(Members[r]) = 1
      BY HomeAssumption
    <2>2. DOMAIN Members[r] = {1}
      BY <1>1, <2>1
    <2> QED BY <2>2 DEF SubsOf, Range, All
  <1>6. Kind[r] \in {"fan", "thermostat"} =>
                 /\ Mode(r) \in SubsOf(r) /\ Level(r) \in SubsOf(r)
                 /\ Mode(r) # Level(r)
                 /\ SubsOf(r) = {Mode(r), Level(r)}
    <2> SUFFICES ASSUME Kind[r] \in {"fan", "thermostat"}
                 PROVE  /\ Mode(r) \in SubsOf(r) /\ Level(r) \in SubsOf(r)
                        /\ Mode(r) # Level(r)
                        /\ SubsOf(r) = {Mode(r), Level(r)}
      OBVIOUS
    <2>1. Len(Members[r]) = 2
      BY HomeAssumption
    <2>2. DOMAIN Members[r] = {1, 2}
      BY <1>1, <2>1
    <2>3. Members[r][1] # Members[r][2]
      BY <2>2, HomeAssumption
    <2> QED BY <2>2, <2>3 DEF SubsOf, Range, Mode, Level
  <1> QED BY <1>1, <1>3, <1>4, <1>5, <1>6

\* No sub-device is in two rooms.
LEMMA OneRoom ==
    ASSUME NEW q \in Rooms, NEW r \in Rooms, NEW s \in SubsOf(q), s \in SubsOf(r)
    PROVE  q = r
  BY HomeAssumption DEF SubsOf

\* A command wants values of sub-devices of its own room.
LEMMA WantedType ==
    ASSUME NEW r \in Rooms, NEW s \in SubsOf(r), NEW v \in Payloads[s]
    PROVE  /\ DOMAIN Wanted(r, s, v) \subseteq SubsOf(r)
           /\ \A m \in DOMAIN Wanted(r, s, v) : Wanted(r, s, v)[m] \in Values
           /\ Kind[r] = "elevator" => DOMAIN Wanted(r, s, v) = {s}
  <1>1. v \in Values /\ DefaultSpeed \in Values /\ {"on", "off", "heat"} \subseteq Values
    BY RoomFacts, HomeAssumption DEF OnOff
  <1> QED BY <1>1, RoomFacts DEF Wanted, FanWanted, ThermostatWanted, Pair

\* A status frame reads as one value for each sub-device of its room.
LEMMA ReadingType ==
    ASSUME TypeOK, NEW r \in Rooms, NEW reading \in Readings(r)
    PROVE  /\ DOMAIN reading = SubsOf(r)
           /\ \A m \in SubsOf(r) : reading[m] \in Values
           /\ \A m \in SubsOf(r) : Reflected(r, reading, m) \in Values
  <1>1. {"on", "off", "heat", "fan_only"} \subseteq Values
    BY HomeAssumption DEF OnOff
  <1>2. Kind[r] \in Kinds
    BY RoomFacts
  <1>3. DOMAIN reading = SubsOf(r) /\ \A m \in SubsOf(r) : reading[m] \in Values
    <2>1. CASE Kind[r] = "switch"
      BY <2>1, <1>1 DEF Readings, SwitchReadings, Lamps, OnOff
    <2>2. CASE Kind[r] = "gas"
      BY <2>2, <1>1 DEF Readings, OnOff
    <2>3. CASE Kind[r] = "elevator"
      BY <2>3, <1>1 DEF Readings
    <2>4. CASE Kind[r] = "fan"
      <3>1. Payloads[Level(r)] \subseteq Values
        BY <2>4, RoomFacts, HomeAssumption
      <3>2. PICK mode \in OnOff, speed \in Payloads[Level(r)] : reading = Pair(r, mode, speed)
        BY <2>4 DEF Readings, FanReadings
      <3> QED BY <1>1, <3>1, <3>2 DEF Pair, OnOff
    <2>5. CASE Kind[r] = "thermostat"
      <3>1. Payloads[Level(r)] \subseteq Values /\ state[Level(r)] \in Values
        BY <2>5, RoomFacts, HomeAssumption DEF TypeOK
      <3>2. \E mode, temp \in Values : reading = Pair(r, mode, temp)
        BY <1>1, <2>5, <3>1 DEF Readings, ThermostatReadings
      <3> QED BY <3>2 DEF Pair
    <2> QED BY <1>2, <2>1, <2>2, <2>3, <2>4, <2>5 DEF Kinds
  <1>4. \A m \in SubsOf(r) : Reflected(r, reading, m) \in Values
    BY <1>1, <1>3, RoomFacts DEF Reflected, FanReflected, ThermostatReflected
  <1> QED BY <1>3, <1>4

-----------------------------------------------------------------------------
(* Type correctness *)

LEMMA SettleType ==
    ASSUME TypeOK, NEW M, Settle(M)
    PROVE  /\ last' \in [Subs -> {"state", "set", "sent"}]
           /\ age' \in [Subs -> Int]
           /\ \A s \in Subs : last'[s] # "sent" => age'[s] = 0
           /\ count' \in [Subs -> Nat]
           /\ attempts' \in [Subs -> Nat] /\ commands' \in [Subs -> Nat]
  <1>1. last' \in [Subs -> {"state", "set", "sent"}]
    BY DEF TypeOK, Settle
  <1>2. age' \in [Subs -> Int] /\ \A s \in Subs : last'[s] # "sent" => age'[s] = 0
    BY DEF TypeOK, Settle
  <1>3. count' \in [Subs -> Nat]
    BY DEF TypeOK, Settle
  <1>4. attempts' \in [Subs -> Nat] /\ commands' \in [Subs -> Nat]
    BY DEF TypeOK, Settle
  <1> QED BY <1>1, <1>2, <1>3, <1>4

LEMMA ElapseType ==
    ASSUME TypeOK, NEW dt \in Steps, Elapse(dt)
    PROVE  /\ age' \in [Subs -> Int]
           /\ \A s \in Subs : last[s] # "sent" => age'[s] = 0
           /\ scanTick' \in [Rooms -> Nat] /\ scanLast' \in [Rooms -> Nat]
  <1>1. \A a \in Int, top \in Int : Cap(a, top) \in Int
    BY DEF Cap
  <1>2. \A a, top \in Nat : Cap(a, top) \in Nat
    BY DEF Cap
  <1>3. dt \in Nat /\ Ancient(ScanInterval) \in Nat /\ Ancient(PollStep) \in Nat
    BY LimitsAssumption DEF Ancient
  <1>4. age' \in [Subs -> Int]
    <2>1. age \in [Subs -> Int] /\ RetryInterval + 1 \in Int
      BY LimitsAssumption DEF TypeOK
    <2>2. \A s \in Subs : age[s] \in Int /\ Cap(age[s] + dt, RetryInterval + 1) \in Int
      BY <1>1, <1>3, <2>1
    <2> QED BY <2>2 DEF Elapse
  <1>5. \A s \in Subs : last[s] # "sent" => age'[s] = 0
    BY DEF TypeOK, Elapse
  <1>6. scanTick' \in [Rooms -> Nat] /\ scanLast' \in [Rooms -> Nat]
    <2>1. \A q \in Rooms : scanTick[q] + dt \in Nat /\ scanLast[q] + dt \in Nat
      <3>1. scanTick \in [Rooms -> Nat] /\ scanLast \in [Rooms -> Nat]
        BY DEF TypeOK
      <3> QED BY <1>3, <3>1
    <2> QED BY <1>2, <1>3, <2>1 DEF Elapse
  <1> QED BY <1>4, <1>5, <1>6

LEMMA EndBurstType ==
    ASSUME TypeOK, NEW r \in Rooms, EndBurst(r)
    PROVE  /\ scanTick' \in [Rooms -> Nat] /\ scanCount' \in [Rooms -> Nat]
           /\ scanLast' \in [Rooms -> Nat]
  <1>1. /\ scanTick \in [Rooms -> Nat] /\ scanCount \in [Rooms -> Nat]
        /\ scanLast \in [Rooms -> Nat]
    BY DEF TypeOK
  <1>2. PollStep + 1 \in Nat
    BY LimitsAssumption
  <1> QED BY <1>1, <1>2 DEF EndBurst, Ancient

LEMMA CommandType ==
    ASSUME TypeOK, NEW r \in Rooms, NEW s \in Subs, NEW v \in Payloads[s],
           HaCommand(r, s, v)
    PROVE  TypeOK'
  <1> DEFINE want == Wanted(r, s, v)
  <1>1. s \in SubsOf(r)
    BY DEF HaCommand
  <1>2. DOMAIN want \subseteq SubsOf(r) /\ \A m \in DOMAIN want : want[m] \in Values
    BY <1>1, WantedType
  <1>3. Optimistic(r, want) \in [Subs -> Values]
    BY <1>2, RoomFacts, HomeAssumption DEF Optimistic, TypeOK, OnOff
  <1>4. shown' \in [Subs -> Values]
    BY <1>3 DEF HaCommand
  <1>5. set' \in [Subs -> Values]
    BY <1>2 DEF HaCommand, TypeOK
  <1>6. /\ last' \in [Subs -> {"state", "set", "sent"}]
        /\ age' \in [Subs -> Int]
        /\ \A m \in Subs : last'[m] # "sent" => age'[m] = 0
    <2> DEFINE mark == CommandMark(r, v)
    <2>1. /\ last' = [m \in Subs |-> IF m \in DOMAIN want THEN mark ELSE last[m]]
          /\ age' = [m \in Subs |-> IF m \in DOMAIN want THEN 0 ELSE age[m]]
      BY DEF HaCommand
    <2>2. mark \in {"state", "set"}
      BY DEF CommandMark
    <2>3. /\ last \in [Subs -> {"state", "set", "sent"}] /\ age \in [Subs -> Int]
          /\ \A m \in Subs : last[m] # "sent" => age[m] = 0
      BY DEF TypeOK
    <2> HIDE DEF mark, want
    <2>4. last' \in [Subs -> {"state", "set", "sent"}]
      BY <2>1, <2>2, <2>3
    <2>5. age' \in [Subs -> Int]
      BY <2>1, <2>3
    <2>6. \A m \in Subs : last'[m] # "sent" => age'[m] = 0
      BY <2>1, <2>2, <2>3
    <2> QED BY <2>4, <2>5, <2>6
  <1>7. inputs' \in 0 .. MaxInputs
    BY LimitsAssumption DEF HaCommand, TypeOK
  <1>8. attempts' \in [Subs -> Nat] /\ commands' \in [Subs -> Nat]
    <2> DEFINE mark == CommandMark(r, v)
    <2>1. /\ commands' = [m \in Subs |->
                 IF m \notin DOMAIN want THEN commands[m]
                 ELSE IF mark = "set" THEN commands[m] + 1 ELSE 0]
          /\ attempts' = [m \in Subs |->
                 IF m \in DOMAIN want /\ mark = "state" THEN 0 ELSE attempts[m]]
      BY DEF HaCommand
    <2>2. attempts \in [Subs -> Nat] /\ commands \in [Subs -> Nat]
      BY DEF TypeOK
    <2> HIDE DEF mark, want
    <2>3. attempts' \in [Subs -> Nat]
      BY <2>1, <2>2
    <2>4. commands' \in [Subs -> Nat]
      BY <2>1, <2>2
    <2> QED BY <2>3, <2>4
  <1>9. UNCHANGED <<state, count, scanVars, taskVars, idle>>
    BY DEF HaCommand
  <1> QED BY <1>4, <1>5, <1>6, <1>7, <1>8, <1>9 DEF TypeOK, scanVars, taskVars

LEMMA ReportType ==
    ASSUME TypeOK, NEW r \in Rooms, NEW reading \in Readings(r), Report(r, reading)
    PROVE  TypeOK'
  <1>1. /\ \A m \in SubsOf(r) : reading[m] \in Values
        /\ \A m \in SubsOf(r) : Reflected(r, reading, m) \in Values
    BY ReadingType
  <1>2. state' \in [Subs -> Values] /\ shown' \in [Subs -> Values]
    BY <1>1 DEF Report, Announced, TypeOK
  <1>3. EndBurst(r) /\ Settle(Settled(r, reading))
    BY DEF Report
  <1>4. idle' \in BOOLEAN /\ UNCHANGED <<set, taskVars, inputs>>
    BY DEF Report, TypeOK
  <1>5. /\ last' \in [Subs -> {"state", "set", "sent"}]
        /\ age' \in [Subs -> Int]
        /\ \A s \in Subs : last'[s] # "sent" => age'[s] = 0
        /\ count' \in [Subs -> Nat]
        /\ attempts' \in [Subs -> Nat] /\ commands' \in [Subs -> Nat]
    BY <1>3, SettleType
  <1> QED BY <1>2, <1>3, <1>4, <1>5, EndBurstType DEF TypeOK, taskVars

LEMMA InitType ==
    ASSUME Init
    PROVE  TypeOK
  <1>1. state \in [Subs -> Values] /\ set \in [Subs -> Values] /\ shown \in [Subs -> Values]
    BY HomeAssumption DEF Init
  <1>2. /\ scanTick \in [Rooms -> Nat] /\ scanCount \in [Rooms -> Nat]
        /\ scanLast \in [Rooms -> Nat]
    BY LimitsAssumption DEF Init, Ancient
  <1>3. /\ last \in [Subs -> {"state", "set", "sent"}] /\ age \in [Subs -> Int]
        /\ \A s \in Subs : last[s] # "sent" => age[s] = 0
        /\ count \in [Subs -> Nat]
        /\ attempts \in [Subs -> Nat] /\ commands \in [Subs -> Nat]
    BY DEF Init
  <1>4. pc = "asleep" /\ rooms \in Seq(Rooms) /\ subs \in Seq(Subs)
    BY DEF Init
  <1>5. idle \in BOOLEAN
    BY DEF Init
  <1>6. inputs \in 0 .. MaxInputs
    BY LimitsAssumption DEF Init
  <1> QED BY <1>1, <1>2, <1>3, <1>4, <1>5, <1>6 DEF TypeOK

\* Every variable keeps its type, in every home and whatever the limits.
THEOREM TypeCorrect == Spec => []TypeOK
  <1>1. Init => TypeOK
    BY InitType
  <1>2. TypeOK /\ [Next]_vars => TypeOK'
    <2> SUFFICES ASSUME TypeOK, [Next]_vars PROVE TypeOK'
      OBVIOUS
    <2>1. ASSUME NEW r \in Rooms, NEW s \in Subs, NEW v \in Payloads[s], HaCommand(r, s, v)
          PROVE  TypeOK'
      BY <2>1, CommandType
    <2>2. CASE HaScan
      <3>1. /\ scanTick' \in [Rooms -> Nat] /\ scanCount' \in [Rooms -> Nat]
            /\ scanLast' \in [Rooms -> Nat]
        BY <2>2, LimitsAssumption DEF HaScan, Ancient
      <3>2. inputs' \in 0 .. MaxInputs
        BY <2>2, LimitsAssumption DEF HaScan, TypeOK
      <3> QED
        BY <2>2, <3>1, <3>2 DEF HaScan, TypeOK, subVars, taskVars, history
    <2>3. ASSUME NEW r \in Rooms, NEW reading \in Readings(r), Report(r, reading)
          PROVE  TypeOK'
      BY <2>3, ReportType
    <2>4. CASE Noise \/ Quiet
      BY <2>4 DEF Noise, Quiet, TypeOK, subVars, scanVars, taskVars, history
    <2>5. ASSUME NEW dt \in Steps, StartSweep(dt)
          PROVE  TypeOK'
      BY <2>5, ElapseType, HomeAssumption DEF StartSweep, TypeOK, history
    <2>6. ASSUME NEW dt \in Steps, SkipSweep(dt)
          PROVE  TypeOK'
      BY <2>6, ElapseType DEF SkipSweep, TypeOK, taskVars, history
    <2>7. CASE EndSweep
      BY <2>7 DEF EndSweep, TypeOK, subVars, scanVars, history
    <2>8. CASE EnterRoom
      <3>1. Head(rooms) \in Rooms
        BY <2>8 DEF EnterRoom, TypeOK
      <3>2. subs' \in Seq(Subs)
        BY <2>8, <3>1, RoomFacts DEF EnterRoom
      <3> QED BY <2>8, <3>2 DEF EnterRoom, TypeOK, subVars, scanVars, history
    <2>9. CASE LeaveRoom
      BY <2>9 DEF LeaveRoom, TypeOK, subVars, scanVars, history
    <2>10. CASE Poll
      <3>1. Head(rooms) \in Rooms /\ scanCount \in [Rooms -> Nat] /\ scanLast \in [Rooms -> Nat]
        BY <2>10 DEF Poll, PollDue, TypeOK
      <3>2. scanCount' \in [Rooms -> Nat] /\ scanLast' \in [Rooms -> Nat]
        BY <2>10, <3>1 DEF Poll
      <3> QED BY <2>10, <3>2 DEF Poll, PollDue, TypeOK, subVars, history
    <2>11. CASE SkipPoll
      BY <2>11 DEF SkipPoll, PollDue, TypeOK, subVars, scanVars, history
    <2>12. CASE FinishPoll
      <3>1. Head(rooms) \in Rooms /\ Tail(rooms) \in Seq(Rooms)
        BY <2>12 DEF FinishPoll, TypeOK
      <3>2. /\ scanTick' \in [Rooms -> Nat] /\ scanCount' \in [Rooms -> Nat]
            /\ scanLast' \in [Rooms -> Nat]
        BY <2>12, <3>1, EndBurstType DEF FinishPoll, TypeOK, scanVars
      <3> QED BY <2>12, <3>1, <3>2 DEF FinishPoll, TypeOK, subVars, history
    <2>13. ASSUME NEW s \in Subs, Abandon(s)
           PROVE  TypeOK'
      <3>1. Tail(subs) \in Seq(Subs)
        BY <2>13 DEF Abandon, Reconciling, TypeOK
      <3> QED BY <2>13, <3>1, SettleType DEF Abandon, Reconciling, TypeOK, scanVars
    <2>14. ASSUME NEW s \in Subs, MarkSent(s), Send(s) \/ SendDropped(s) \/ SendRaises(s)
           PROVE  TypeOK'
      <3>1. Tail(subs) \in Seq(Subs) /\ subs # <<>>
        BY <2>14 DEF MarkSent, Reconciling, TypeOK
      <3>2. subs' \in Seq(Subs) /\ UNCHANGED rooms /\ rooms # <<>>
        <4>1. subs' \in {subs, Tail(subs), <<>>}
          BY <2>14 DEF Send, SendDropped, SendRaises
        <4>2. UNCHANGED rooms /\ pc = "reconciling"
          BY <2>14 DEF MarkSent, Reconciling
        <4>3. rooms # <<>> /\ subs \in Seq(Subs) /\ <<>> \in Seq(Subs)
          BY <4>2 DEF TypeOK
        <4> QED BY <3>1, <4>1, <4>2, <4>3
      <3>3. /\ pc' \in {"asleep", "visiting", "polled", "reconciling", "writing"}
            /\ pc' = "writing" => subs' # <<>>
        BY <2>14, <3>1 DEF MarkSent, Reconciling, Send, SendDropped, SendRaises
      <3>4. /\ last' \in [Subs -> {"state", "set", "sent"}]
            /\ age' \in [Subs -> Int]
            /\ \A m \in Subs : last'[m] # "sent" => age'[m] = 0
            /\ attempts' \in [Subs -> Nat] /\ commands' \in [Subs -> Nat]
        <4>1. SentMark(Head(rooms)) \in {"state", "sent"} /\ GasDelay \in Int
          BY LimitsAssumption DEF SentMark
        <4>2. last' \in [Subs -> {"state", "set", "sent"}]
          BY <2>14, <4>1 DEF MarkSent, TypeOK
        <4>3. age' \in [Subs -> Int]
          BY <2>14, <4>1 DEF MarkSent, TypeOK
        <4>4. \A m \in Subs : last'[m] # "sent" => age'[m] = 0
          BY <2>14, <4>1 DEF MarkSent, SentMark, TypeOK
        <4>5. attempts' \in [Subs -> Nat] /\ commands' \in [Subs -> Nat]
          <5>1. attempts \in [Subs -> Nat] /\ commands \in [Subs -> Nat]
            BY DEF TypeOK
          <5> QED BY <2>14, <5>1 DEF MarkSent
        <4> QED BY <4>2, <4>3, <4>4, <4>5
      <3>5. UNCHANGED <<state, set, count, scanTick, scanCount, scanLast, idle, shown,
                        inputs>>
        BY <2>14 DEF MarkSent, scanVars
      <3> QED BY <3>2, <3>3, <3>4, <3>5 DEF TypeOK
    <2>15. CASE Written
      <3>1. Head(subs) \in Subs /\ Tail(subs) \in Seq(Subs)
        BY <2>15 DEF Written, TypeOK
      <3>2. shown' \in [Subs -> Values]
        BY <2>15, <3>1, HomeAssumption DEF Written, TypeOK, OnOff
      <3> QED BY <2>15, <3>1, <3>2 DEF Written, TypeOK, subVars, scanVars, history
    <2>16. ASSUME NEW s \in Subs, Retry(s)
           PROVE  TypeOK'
      <3>1. Tail(subs) \in Seq(Subs)
        BY <2>16 DEF Retry, Reconciling, TypeOK
      <3>2. /\ last' \in [Subs -> {"state", "set", "sent"}]
            /\ age' \in [Subs -> Int] /\ count' \in [Subs -> Nat]
            /\ \A m \in Subs : last'[m] # "sent" => age'[m] = 0
        <4>1. /\ last \in [Subs -> {"state", "set", "sent"}]
              /\ age \in [Subs -> Int] /\ count \in [Subs -> Nat]
              /\ \A m \in Subs : last[m] # "sent" => age[m] = 0
          BY DEF TypeOK
        <4>2. /\ last' = [last EXCEPT ![s] = "set"]
              /\ age' = [age EXCEPT ![s] = 0]
              /\ count' = [count EXCEPT ![s] = @ + 1]
          BY <2>16 DEF Retry
        <4>3. \A m \in Subs : last'[m] # "sent" => age'[m] = 0
          BY <4>1, <4>2
        <4> QED BY <4>1, <4>2, <4>3
      <3> QED BY <2>16, <3>1, <3>2 DEF Retry, Reconciling, TypeOK, scanVars, history
    <2>17. ASSUME NEW s \in Subs, Pass(s)
           PROVE  TypeOK'
      <3>1. Tail(subs) \in Seq(Subs)
        BY <2>17 DEF Pass, Reconciling, TypeOK
      <3> QED BY <2>17, <3>1 DEF Pass, Reconciling, TypeOK, subVars, scanVars, history
    <2>18. CASE UNCHANGED vars
      BY <2>18 DEF vars, subVars, scanVars, taskVars, history, TypeOK
    <2>19. \A s \in Subs : Send(s) \/ SendDropped(s) \/ SendRaises(s) => MarkSent(s)
      BY DEF Send, SendDropped, SendRaises
    <2> QED
      BY <2>1, <2>2, <2>3, <2>4, <2>5, <2>6, <2>7, <2>8, <2>9, <2>10, <2>11, <2>12,
         <2>13, <2>14, <2>15, <2>16, <2>17, <2>18, <2>19
      DEF Next, Wake, Work, Reconcile, Environment
  <1> QED BY <1>1, <1>2, PTL DEF Spec

-----------------------------------------------------------------------------
(* The ledger of sends and retries *)

\* What an entry of the ledger is about has its type.
LEMMA LedgerType ==
    ASSUME TypeOK, NEW s \in Subs
    PROVE  /\ count[s] \in Nat /\ attempts[s] \in Nat /\ commands[s] \in Nat
           /\ last[s] \in {"state", "set", "sent"}
  BY DEF TypeOK

\* An entry whose parts stay as they are stays balanced.
LEMMA LedgerKept ==
    ASSUME NEW s \in Subs, Ledger(s),
           last'[s] = last[s], count'[s] = count[s],
           attempts'[s] = attempts[s], commands'[s] = commands[s]
    PROVE  Ledger(s)'
  BY DEF Ledger, Pending

\* Settling empties the entries it settles and keeps the others.
LEMMA LedgerSettled ==
    ASSUME RetryLedger, NEW M, Settle(M)
    PROVE  RetryLedger'
  <1> SUFFICES ASSUME NEW s \in Subs PROVE Ledger(s)'
    BY DEF RetryLedger
  <1>1. CASE s \in M
    <2>1. last'[s] = "state" /\ count'[s] = 0 /\ attempts'[s] = 0 /\ commands'[s] = 0
      BY <1>1 DEF Settle
    <2> QED BY <2>1, LimitsAssumption DEF Ledger, Pending
  <1>2. CASE s \notin M
    <2>1. /\ last'[s] = last[s] /\ count'[s] = count[s]
          /\ attempts'[s] = attempts[s] /\ commands'[s] = commands[s]
      BY <1>2 DEF Settle
    <2> QED BY <2>1, LedgerKept DEF RetryLedger
  <1> QED BY <1>1, <1>2

\* The command handler opens one more send for each sub-device it concerns,
\* or closes the entry of an elevator that HA calls off.
LEMMA CommandLedger ==
    ASSUME IInv, NEW r \in Rooms, NEW s \in Subs, NEW v \in Payloads[s],
           HaCommand(r, s, v)
    PROVE  RetryLedger' /\ ElevatorNeverSent'
  <1> DEFINE want == Wanted(r, s, v)
             mark == CommandMark(r, v)
  <1>1. DOMAIN want \subseteq SubsOf(r)
    BY WantedType DEF HaCommand
  <1>2. /\ last' = [m \in Subs |-> IF m \in DOMAIN want THEN mark ELSE last[m]]
        /\ commands' = [m \in Subs |->
              IF m \notin DOMAIN want THEN commands[m]
              ELSE IF mark = "set" THEN commands[m] + 1 ELSE 0]
        /\ attempts' = [m \in Subs |->
              IF m \in DOMAIN want /\ mark = "state" THEN 0 ELSE attempts[m]]
        /\ count' = count
    BY DEF HaCommand
  <1>3. mark = "state" => Kind[r] = "elevator"
    BY DEF CommandMark
  <1>4. mark \in {"state", "set"}
    BY DEF CommandMark
  <1> HIDE DEF want, mark
  <1>5. ASSUME NEW m \in Subs PROVE Ledger(m)'
    <2>1. Ledger(m) /\ TypeOK
      BY DEF IInv, RetryLedger
    <2>2. CASE m \notin DOMAIN want
      BY <1>2, <2>1, <2>2, LedgerKept
    <2>3. CASE m \in DOMAIN want /\ mark = "set"
      <3>1. last'[m] = "set" /\ commands'[m] = commands[m] + 1 /\ attempts'[m] = attempts[m]
        BY <1>2, <2>3
      <3> QED BY <1>2, <2>1, <3>1, LedgerType, LimitsAssumption DEF Ledger, Pending
    <2>4. CASE m \in DOMAIN want /\ mark = "state"
      <3>1. last'[m] = "state" /\ commands'[m] = 0 /\ attempts'[m] = 0
        BY <1>2, <2>4
      <3>2. count[m] = 0
        BY <1>1, <1>3, <2>4 DEF IInv, ElevatorNeverSent
      <3> QED BY <1>2, <3>1, <3>2, LimitsAssumption DEF Ledger, Pending
    <2> QED BY <1>4, <2>2, <2>3, <2>4
  <1>6. ElevatorNeverSent'
    BY <1>2, <1>4, RoomFacts DEF IInv, ElevatorNeverSent
  <1> QED BY <1>5, <1>6 DEF RetryLedger

\* A send closes what the command or the retry opened.
LEMMA SentLedger ==
    ASSUME IInv, NEW s \in Subs, MarkSent(s)
    PROVE  RetryLedger' /\ ElevatorNeverSent'
  <1> DEFINE r == Head(rooms)
  <1>1. TypeOK /\ Ledger(s)
    BY DEF IInv, RetryLedger
  <1>2. r \in Rooms /\ s \in SubsOf(r)
    <2>1. subs \in Seq(Subs) /\ subs # <<>> /\ s = Head(subs) /\ rooms # <<>>
          /\ rooms \in Seq(Rooms) /\ pc = "reconciling"
      BY <1>1 DEF MarkSent, Reconciling, TypeOK
    <2>2. s \in Range(subs)
      BY <2>1 DEF Range
    <2> QED BY <2>1, <2>2 DEF IInv, QueueOfRoom
  <1>3. /\ last' = [last EXCEPT ![s] = SentMark(r)]
        /\ attempts' = [attempts EXCEPT ![s] = IF Kind[r] = "elevator" THEN 0 ELSE @ + 1]
        /\ commands' = [commands EXCEPT ![s] = IF Kind[r] = "elevator" THEN 0 ELSE @]
        /\ count' = count
    BY DEF MarkSent
  <1>4. /\ last \in [Subs -> {"state", "set", "sent"}] /\ attempts \in [Subs -> Nat]
        /\ commands \in [Subs -> Nat] /\ count \in [Subs -> Nat]
    BY <1>1 DEF TypeOK
  <1>5. last[s] = "set" /\ count[s] <= RetryLimit
    BY <1>4, LimitsAssumption DEF MarkSent, Exhausted
  <1> HIDE DEF r
  <1>6. Ledger(s)'
    <2>1. CASE Kind[r] = "elevator"
      <3>1. last'[s] = "state" /\ attempts'[s] = 0 /\ commands'[s] = 0
        BY <1>3, <1>4, <2>1 DEF SentMark
      <3>2. count[s] = 0
        BY <1>2, <2>1 DEF IInv, ElevatorNeverSent
      <3> QED BY <1>3, <3>1, <3>2, LimitsAssumption DEF Ledger, Pending
    <2>2. CASE Kind[r] # "elevator"
      <3>1. last'[s] = "sent" /\ attempts'[s] = attempts[s] + 1 /\ commands'[s] = commands[s]
        BY <1>3, <1>4, <2>2 DEF SentMark
      <3> QED BY <1>1, <1>3, <1>5, <3>1, LedgerType, LimitsAssumption DEF Ledger, Pending
    <2> QED BY <2>1, <2>2
  <1>7. ASSUME NEW m \in Subs, m # s PROVE Ledger(m)'
    <2>1. /\ last'[m] = last[m] /\ attempts'[m] = attempts[m]
          /\ commands'[m] = commands[m] /\ count'[m] = count[m]
      BY <1>3, <1>4, <1>7
    <2> QED BY <2>1, LedgerKept DEF IInv, RetryLedger
  <1>8. ElevatorNeverSent'
    <2> SUFFICES ASSUME NEW q \in Rooms, Kind[q] = "elevator", NEW m \in SubsOf(q)
                 PROVE  last'[m] # "sent" /\ count'[m] = 0
      BY DEF ElevatorNeverSent
    <2>1. last[m] # "sent" /\ count[m] = 0 /\ m \in Subs
      BY RoomFacts DEF IInv, ElevatorNeverSent
    <2>2. CASE m = s
      <3>1. q = r
        BY <1>2, <2>2, OneRoom
      <3> QED BY <1>3, <1>4, <2>1, <2>2, <3>1 DEF SentMark
    <2>3. CASE m # s
      BY <1>3, <1>4, <2>1, <2>3
    <2> QED BY <2>2, <2>3
  <1> QED BY <1>6, <1>7, <1>8 DEF RetryLedger

LEMMA TailRange ==
    ASSUME NEW S, NEW q \in Seq(S), q # <<>>
    PROVE  Range(Tail(q)) \subseteq Range(q)
  BY DEF Range

\* Retrying needs a send that is still unconfirmed.
LEMMA RetryLedgerKept ==
    ASSUME IInv, NEW s \in Subs, Retry(s)
    PROVE  RetryLedger' /\ ElevatorNeverSent'
  <1>1. /\ last \in [Subs -> {"state", "set", "sent"}] /\ attempts \in [Subs -> Nat]
        /\ commands \in [Subs -> Nat] /\ count \in [Subs -> Nat] /\ Ledger(s)
    BY DEF IInv, TypeOK, RetryLedger
  <1>2. /\ last[s] = "sent" /\ count[s] <= RetryLimit
        /\ last' = [last EXCEPT ![s] = "set"]
        /\ count' = [count EXCEPT ![s] = @ + 1]
        /\ attempts' = attempts /\ commands' = commands
    BY <1>1, LimitsAssumption DEF Retry, Exhausted, history
  <1>3. Ledger(s)'
    <2>1. last'[s] = "set" /\ count'[s] = count[s] + 1
      BY <1>1, <1>2
    <2> QED BY <1>1, <1>2, <2>1, LimitsAssumption DEF Ledger, Pending
  <1>4. ASSUME NEW m \in Subs, m # s PROVE Ledger(m)'
    <2>1. last'[m] = last[m] /\ count'[m] = count[m]
      BY <1>1, <1>2, <1>4
    <2> QED BY <1>2, <2>1, LedgerKept DEF IInv, RetryLedger
  <1>5. ElevatorNeverSent'
    <2> SUFFICES ASSUME NEW q \in Rooms, Kind[q] = "elevator", NEW m \in SubsOf(q)
                 PROVE  last'[m] # "sent" /\ count'[m] = 0
      BY DEF ElevatorNeverSent
    <2>1. last[m] # "sent" /\ count[m] = 0 /\ m \in Subs
      BY RoomFacts DEF IInv, ElevatorNeverSent
    <2>2. m # s
      BY <1>2, <2>1
    <2> QED BY <1>1, <1>2, <2>1, <2>2
  <1> QED BY <1>3, <1>4, <1>5 DEF RetryLedger

LEMMA SettleElevator ==
    ASSUME ElevatorNeverSent, NEW M, Settle(M)
    PROVE  ElevatorNeverSent'
  BY RoomFacts DEF ElevatorNeverSent, Settle

\* The bookkeeping of sends and retries stays balanced whatever the order of
\* commands, reports, sweeps and dropped frames.
LEMMA LedgerStep ==
    ASSUME IInv, [Next]_vars
    PROVE  RetryLedger' /\ ElevatorNeverSent'
  <1>1. ASSUME NEW r \in Rooms, NEW s \in Subs, NEW v \in Payloads[s], HaCommand(r, s, v)
        PROVE  RetryLedger' /\ ElevatorNeverSent'
    BY <1>1, CommandLedger
  <1>2. ASSUME NEW M, Settle(M)
        PROVE  RetryLedger' /\ ElevatorNeverSent'
    BY <1>2, LedgerSettled, SettleElevator DEF IInv
  <1>3. \A r, reading : Report(r, reading) => Settle(Settled(r, reading))
    BY DEF Report
  <1>4. \A s : Abandon(s) => Settle({s})
    BY DEF Abandon
  <1>5. ASSUME NEW s \in Subs, Send(s) \/ SendDropped(s) \/ SendRaises(s)
        PROVE  RetryLedger' /\ ElevatorNeverSent'
    BY <1>5, SentLedger DEF Send, SendDropped, SendRaises
  <1>6. ASSUME NEW s \in Subs, Retry(s)
        PROVE  RetryLedger' /\ ElevatorNeverSent'
    BY <1>6, RetryLedgerKept
  <1>7. ASSUME UNCHANGED <<last, count, attempts, commands>>
        PROVE  RetryLedger' /\ ElevatorNeverSent'
    BY <1>7, LedgerKept DEF IInv, RetryLedger, ElevatorNeverSent
  <1>8. \/ HaScan \/ Noise \/ Quiet \/ EndSweep \/ EnterRoom \/ LeaveRoom
        \/ Poll \/ SkipPoll \/ FinishPoll \/ Written \/ UNCHANGED vars
        => UNCHANGED <<last, count, attempts, commands>>
    BY DEF HaScan, Noise, Quiet, EndSweep, EnterRoom, LeaveRoom, Poll, SkipPoll,
           FinishPoll, Written, vars, subVars, history
  <1>9. \A dt : StartSweep(dt) \/ SkipSweep(dt) => UNCHANGED <<last, count, attempts, commands>>
    BY DEF StartSweep, SkipSweep, history
  <1>10. \A s : Pass(s) => UNCHANGED <<last, count, attempts, commands>>
    BY DEF Pass, subVars, history
  <1> QED
    BY <1>1, <1>2, <1>3, <1>4, <1>5, <1>6, <1>7, <1>8, <1>9, <1>10
    DEF Next, Wake, Work, Reconcile, Environment

\* While a room is reconciled, the queue shrinks and the room stays at the
\* head of the sweep.
LEMMA QueueStep ==
    ASSUME TypeOK, QueueOfRoom, [Next]_vars
    PROVE  QueueOfRoom'
  <1>1. CASE UNCHANGED <<pc, rooms, subs>>
    BY <1>1 DEF QueueOfRoom
  <1>2. CASE pc' \notin {"reconciling", "writing"}
    BY <1>2 DEF QueueOfRoom
  <1>3. CASE EnterRoom
    <2>1. Head(rooms) \in Rooms
      BY <1>3 DEF EnterRoom, TypeOK
    <2> QED BY <1>3, <2>1 DEF EnterRoom, QueueOfRoom, SubsOf
  <1>4. ASSUME pc \in {"reconciling", "writing"}, subs # <<>>,
               subs' \in {subs, Tail(subs)}, rooms' = rooms
        PROVE  QueueOfRoom'
    <2>1. subs \in Seq(Subs)
      BY DEF TypeOK
    <2>2. Range(subs') \subseteq Range(subs)
      BY <1>4, <2>1, TailRange
    <2> QED BY <1>4, <2>2 DEF QueueOfRoom
  <1>5. \/ HaScan \/ Noise \/ Quiet \/ UNCHANGED vars
        \/ \E dt \in Steps : SkipSweep(dt)
        \/ \E r \in Rooms, s \in Subs : \E v \in Payloads[s] : HaCommand(r, s, v)
        \/ \E r \in Rooms : \E reading \in Readings(r) : Report(r, reading)
        => UNCHANGED <<pc, rooms, subs>>
    <2>1. HaScan \/ Noise \/ Quiet \/ UNCHANGED vars => UNCHANGED taskVars
      BY DEF HaScan, Noise, Quiet, vars
    <2>2. \A dt : SkipSweep(dt) => UNCHANGED taskVars
      BY DEF SkipSweep
    <2>3. \A r, s, v : HaCommand(r, s, v) => UNCHANGED taskVars
      BY DEF HaCommand
    <2>4. \A r, reading : Report(r, reading) => UNCHANGED taskVars
      BY DEF Report
    <2> QED BY <2>1, <2>2, <2>3, <2>4 DEF taskVars
  <1>6. \/ EndSweep \/ LeaveRoom \/ Poll \/ SkipPoll \/ FinishPoll
        \/ \E dt \in Steps : StartSweep(dt)
        \/ \E s \in Subs : SendRaises(s)
        => pc' \notin {"reconciling", "writing"}
    BY DEF EndSweep, LeaveRoom, Poll, SkipPoll, FinishPoll, StartSweep, SendRaises
  <1>7. \/ Written
        \/ \E s \in Subs : Abandon(s) \/ Retry(s) \/ Pass(s) \/ Send(s) \/ SendDropped(s)
        => /\ pc \in {"reconciling", "writing"} /\ subs # <<>>
           /\ subs' \in {subs, Tail(subs)} /\ rooms' = rooms
    BY DEF Written, Abandon, Retry, Pass, Send, SendDropped, MarkSent, Reconciling, TypeOK
  <1> QED
    BY <1>1, <1>2, <1>3, <1>4, <1>5, <1>6, <1>7
    DEF Next, Wake, Work, Reconcile, Environment

\* The inductive invariant, in every home and for every limit.
THEOREM LedgerInvariant == Spec => []IInv
  <1>1. Init => IInv
    <2> SUFFICES ASSUME Init PROVE IInv
      OBVIOUS
    <2>1. TypeOK
      BY InitType
    <2>2. RetryLedger /\ ElevatorNeverSent
      BY RoomFacts, LimitsAssumption DEF Init, RetryLedger, Ledger, Pending, ElevatorNeverSent
    <2>3. QueueOfRoom
      BY DEF Init, QueueOfRoom
    <2> QED BY <2>1, <2>2, <2>3 DEF IInv
  <1>2. IInv /\ TypeOK' /\ [Next]_vars => IInv'
    BY LedgerStep, QueueStep DEF IInv
  <1> QED BY <1>1, <1>2, TypeCorrect, PTL DEF Spec

\* A mute device never makes the panel send more than RetryLimit frames
\* beyond one per command.
THEOREM BoundedRetries == Spec => []RetriesBounded
  <1>1. IInv => RetriesBounded
    <2> SUFFICES ASSUME IInv, NEW s \in Subs PROVE attempts[s] <= commands[s] + RetryLimit
      BY DEF RetriesBounded
    <2>1. Ledger(s) /\ TypeOK
      BY DEF IInv, RetryLedger
    <2> QED BY <2>1, LedgerType, LimitsAssumption DEF Ledger, Pending
  <1> QED BY <1>1, LedgerInvariant, PTL

-----------------------------------------------------------------------------
(* What follows for commands, frames and polls *)

\* A pending lamp, fan or thermostat value is withdrawn only by a report that
\* shows it or after more than RetryLimit sends.
THEOREM WithdrawalIsEarned == Spec => NoEarlyWithdrawal
  <1>1. ASSUME IInv, [Next]_vars,
               NEW r \in Rooms, Kind[r] \in {"switch", "fan", "thermostat"},
               NEW s \in SubsOf(r), Withdrawn(s)
        PROVE  attempts[s] > RetryLimit \/ Confirmation(s)
    <2> DEFINE Goal == attempts[s] > RetryLimit \/ Confirmation(s)
    <2>1. s \in Subs /\ TypeOK /\ Ledger(s)
      BY <1>1, RoomFacts DEF IInv, RetryLedger
    <2>2. last[s] # "state" /\ last'[s] = "state" /\ last \in [Subs -> {"state", "set", "sent"}]
      BY <1>1, <2>1 DEF Withdrawn, Pending, TypeOK
    <2> HIDE DEF Goal
    <2>3. ASSUME NEW q \in Rooms, NEW c \in Subs, NEW v \in Payloads[c], HaCommand(q, c, v)
          PROVE  Goal
      <3> DEFINE want == Wanted(q, c, v)
                 mark == CommandMark(q, v)
      <3>1. DOMAIN want \subseteq SubsOf(q)
        BY <2>3, WantedType DEF HaCommand
      <3>2. last'[s] = IF s \in DOMAIN want THEN mark ELSE last[s]
        BY <2>1, <2>3 DEF HaCommand
      <3>3. s \in SubsOf(q) /\ Kind[q] = "elevator"
        BY <2>2, <3>1, <3>2 DEF CommandMark
      <3> QED BY <1>1, <3>3, OneRoom
    <2>4. ASSUME NEW q \in Rooms, NEW reading \in Readings(q), Report(q, reading)
          PROVE  Goal
      <3>1. last'[s] = IF s \in Settled(q, reading) THEN "state" ELSE last[s]
        BY <2>1, <2>4 DEF Report, Settle
      <3>2. s \in Settled(q, reading)
        BY <2>2, <3>1
      <3>3. s \in SubsOf(q)
        BY <3>2 DEF Settled
      <3>4. q = r
        BY <1>1, <3>3, OneRoom
      <3>5. reading[s] = set[s]
        BY <1>1, <3>2, <3>4 DEF Settled, SettledByAny
      <3> QED BY <2>4, <3>3, <3>5 DEF Goal, Confirmation
    <2>5. ASSUME NEW c \in Subs, Abandon(c)
          PROVE  Goal
      <3>1. last'[s] = IF s \in {c} THEN "state" ELSE last[s]
        BY <2>1, <2>5 DEF Abandon, Settle
      <3>2. s = c
        BY <2>2, <3>1
      <3>3. count[s] > RetryLimit
        BY <2>5, <3>2 DEF Abandon, Exhausted
      <3> QED BY <2>1, <3>3, LedgerType, LimitsAssumption DEF Goal, Ledger
    <2>6. ASSUME NEW c \in Subs, MarkSent(c)
          PROVE  Goal
      <3>1. c \in SubsOf(Head(rooms)) /\ Head(rooms) \in Rooms
        <4>1. /\ subs \in Seq(Subs) /\ subs # <<>> /\ c = Head(subs) /\ rooms # <<>>
              /\ rooms \in Seq(Rooms) /\ pc = "reconciling"
          BY <2>1, <2>6 DEF MarkSent, Reconciling, TypeOK
        <4>2. c \in Range(subs)
          BY <4>1 DEF Range
        <4> QED BY <1>1, <4>1, <4>2 DEF IInv, QueueOfRoom
      <3>2. last' = [last EXCEPT ![c] = SentMark(Head(rooms))]
        BY <2>6 DEF MarkSent
      <3>3. c = s /\ SentMark(Head(rooms)) = "state"
        BY <2>1, <2>2, <3>2
      <3>4. Kind[Head(rooms)] = "elevator"
        BY <3>3 DEF SentMark
      <3> QED BY <1>1, <3>1, <3>3, <3>4, OneRoom
    <2>7. ASSUME NEW c \in Subs, Retry(c)
          PROVE  Goal
      <3>1. last' = [last EXCEPT ![c] = "set"]
        BY <2>7 DEF Retry
      <3> QED BY <2>1, <2>2, <3>1
    <2>8. ~UNCHANGED last
      BY <2>2
    <2>9. \/ HaScan \/ Noise \/ Quiet \/ EndSweep \/ EnterRoom \/ LeaveRoom
          \/ Poll \/ SkipPoll \/ FinishPoll \/ Written \/ UNCHANGED vars
          => UNCHANGED last
      BY DEF HaScan, Noise, Quiet, EndSweep, EnterRoom, LeaveRoom, Poll, SkipPoll,
             FinishPoll, Written, vars, subVars
    <2>10. \A dt : StartSweep(dt) \/ SkipSweep(dt) => UNCHANGED last
      BY DEF StartSweep, SkipSweep
    <2>11. \A c : Pass(c) => UNCHANGED last
      BY DEF Pass, subVars
    <2>12. \A c : Send(c) \/ SendDropped(c) \/ SendRaises(c) => MarkSent(c)
      BY DEF Send, SendDropped, SendRaises
    <2>13. Goal
      BY <1>1, <2>3, <2>4, <2>5, <2>6, <2>7, <2>8, <2>9, <2>10, <2>11, <2>12
      DEF Next, Wake, Work, Reconcile, Environment
    <2> QED BY <2>13 DEF Goal
  <1>2. IInv /\ [Next]_vars =>
          [\A r \in Rooms : Kind[r] \in {"switch", "fan", "thermostat"} =>
             \A s \in SubsOf(r) :
                Withdrawn(s) => attempts[s] > RetryLimit \/ Confirmation(s)]_vars
    BY <1>1
  <1> QED BY <1>2, LedgerInvariant, PTL DEF Spec, NoEarlyWithdrawal

\* A frame is built from the wanted values, and a command that changes one of
\* them during the write reopens its send.
LEMMA FreshFrameStep ==
    ASSUME TypeOK, FreshFrame, [Next]_vars
    PROVE  FreshFrame'
  <1> DEFINE r == Head(rooms)
             s == Head(subs)
  <1>1. CASE pc' # "writing"
    BY <1>1 DEF FreshFrame
  <1>2. CASE pc' = "writing" /\ pc = "writing"
    <2>1. UNCHANGED <<rooms, subs, frame>> /\ \A m \in Subs : last'[m] = "sent" =>
             last[m] = "sent" /\ set'[m] = set[m]
      <3>1. ASSUME NEW q \in Rooms, NEW c \in Subs, NEW v \in Payloads[c], HaCommand(q, c, v)
            PROVE  \A m \in Subs : last'[m] = "sent" => last[m] = "sent" /\ set'[m] = set[m]
        <4> DEFINE want == Wanted(q, c, v)
                   mark == CommandMark(q, v)
        <4>1. /\ last' = [m \in Subs |-> IF m \in DOMAIN want THEN mark ELSE last[m]]
              /\ set' = [m \in Subs |-> IF m \in DOMAIN want THEN want[m] ELSE set[m]]
          BY <3>1 DEF HaCommand
        <4>2. mark # "sent"
          BY DEF CommandMark
        <4> HIDE DEF want, mark
        <4> QED BY <4>1, <4>2
      <3>2. ASSUME NEW q \in Rooms, NEW reading \in Readings(q), Report(q, reading)
            PROVE  \A m \in Subs : last'[m] = "sent" => last[m] = "sent" /\ set'[m] = set[m]
        BY <3>2 DEF Report, Settle
      <3>3. HaScan \/ Noise \/ Quiet \/ UNCHANGED vars => UNCHANGED <<last, set>>
        BY DEF HaScan, Noise, Quiet, vars, subVars
      <3>4. /\ ~Written /\ ~EndSweep /\ ~EnterRoom /\ ~LeaveRoom /\ ~Poll /\ ~SkipPoll
            /\ ~FinishPoll
            /\ \A dt : ~StartSweep(dt) /\ ~SkipSweep(dt)
        BY <1>2 DEF Written, EndSweep, EnterRoom, LeaveRoom, Poll, SkipPoll, PollDue,
                    FinishPoll, StartSweep, SkipSweep
      <3>5. ~Reconcile
        BY <1>2 DEF Reconcile, Abandon, Retry, Pass, Send, SendDropped, SendRaises,
                    MarkSent, Reconciling
      <3>6. HaScan \/ Noise \/ Quiet \/ UNCHANGED vars => UNCHANGED taskVars
        BY DEF HaScan, Noise, Quiet, vars
      <3>7. \A q, c, v : HaCommand(q, c, v) => UNCHANGED taskVars
        BY DEF HaCommand
      <3>8. \A q, reading : Report(q, reading) => UNCHANGED taskVars
        BY DEF Report
      <3> QED
        BY <3>1, <3>2, <3>3, <3>4, <3>5, <3>6, <3>7, <3>8
        DEF Next, Wake, Work, Environment, taskVars
    <2>2. rooms \in Seq(Rooms) /\ rooms # <<>> /\ subs \in Seq(Subs) /\ subs # <<>>
      BY <1>2 DEF TypeOK
    <2>3. r \in Rooms /\ s \in Subs
      BY <2>2
    <2>4. ASSUME Kind[r] = "switch", last'[s] = "sent"
          PROVE  \A m \in Lamps(r) : s \in {m, All(r)} => frame[m] = set'[s]
      BY <1>2, <2>1, <2>3, <2>4 DEF FreshFrame
    <2>5. ASSUME Kind[r] \in {"fan", "thermostat"}, NEW m \in SubsOf(r), last'[m] = "sent"
          PROVE  frame[m] = set'[m]
      BY <1>2, <2>1, <2>3, <2>5, RoomFacts DEF FreshFrame
    <2> QED BY <1>2, <2>1, <2>4, <2>5 DEF FreshFrame
  <1>3. CASE pc' = "writing" /\ pc # "writing"
    <2>1. PICK c \in Subs : Send(c)
      <3>1. HaScan \/ Noise \/ Quiet \/ UNCHANGED vars => UNCHANGED pc
        BY DEF HaScan, Noise, Quiet, vars, taskVars
      <3>2. \A q, m, v : HaCommand(q, m, v) => UNCHANGED pc
        BY DEF HaCommand, taskVars
      <3>3. \A q, reading : Report(q, reading) => UNCHANGED pc
        BY DEF Report, taskVars
      <3>4. \A dt : SkipSweep(dt) => UNCHANGED pc
        BY DEF SkipSweep, taskVars
      <3>5. /\ EndSweep \/ EnterRoom \/ LeaveRoom \/ Poll \/ SkipPoll \/ FinishPoll \/ Written
               => pc' # "writing"
            /\ \A dt : StartSweep(dt) => pc' # "writing"
        BY DEF EndSweep, EnterRoom, LeaveRoom, Poll, SkipPoll, FinishPoll, Written, StartSweep
      <3>6. \A m : SendRaises(m) => pc' # "writing"
        BY DEF SendRaises
      <3>7. \A m : Abandon(m) \/ Retry(m) \/ Pass(m) \/ SendDropped(m) => UNCHANGED pc
        BY DEF Abandon, Retry, Pass, SendDropped
      <3> QED
        BY <1>3, <3>1, <3>2, <3>3, <3>4, <3>5, <3>6, <3>7
        DEF Next, Wake, Work, Reconcile, Environment
    <2>2. /\ c = s /\ UNCHANGED <<rooms, subs, set>> /\ frame' = FrameFor(r, c)
          /\ rooms # <<>> /\ rooms \in Seq(Rooms)
      BY <2>1 DEF Send, MarkSent, Reconciling, TypeOK
    <2>3. r \in Rooms
      BY <2>2
    <2>4. Kind[r] = "switch" => \A m \in Lamps(r) : s \in {m, All(r)} => frame'[m] = set[s]
      BY <2>2 DEF FrameFor, SwitchFrame
    <2>5. Kind[r] \in {"fan", "thermostat"} => \A m \in SubsOf(r) : frame'[m] = set[m]
      BY <2>2 DEF FrameFor, PairFrame
    <2> QED BY <2>2, <2>4, <2>5 DEF FreshFrame
  <1> QED BY <1>1, <1>2, <1>3

\* A frame for a lamp, a fan or a thermostat never carries an outdated wanted
\* value that still counts as sent.
THEOREM FrameIsFresh == Spec => []FreshFrame
  <1>1. Init => FreshFrame
    BY DEF Init, FreshFrame
  <1>2. TypeOK /\ FreshFrame /\ [Next]_vars => FreshFrame'
    BY FreshFrameStep
  <1> QED BY <1>1, <1>2, TypeCorrect, PTL DEF Spec

\* Outside poll_room no burst is at its end, and time alone never makes a
\* room due with a burst half spent.
LEMMA BurstStep ==
    ASSUME TypeOK, BurstBounded, [Next]_vars
    PROVE  BurstBounded'
  <1> DEFINE Burst(r) ==
          /\ scanCount[r] <= PollLimit + 1
          /\ scanCount[r] = PollLimit + 1 => pc = "polled" /\ Head(rooms) = r
          /\ ~ScanDue(r) => scanCount[r] = 0 /\ scanLast[r] > PollStep
  <1>1. /\ scanTick \in [Rooms -> Nat] /\ scanCount \in [Rooms -> Nat]
        /\ scanLast \in [Rooms -> Nat]
    BY DEF TypeOK
  <1>2. ASSUME UNCHANGED scanVars, pc = "polled" => UNCHANGED <<pc, rooms>>
        PROVE  BurstBounded'
    BY <1>2 DEF BurstBounded, ScanDue, scanVars
  <1>3. ASSUME NEW q \in Rooms, EndBurst(q), pc = "polled" => UNCHANGED <<pc, rooms>>
        PROVE  BurstBounded'
    <2> SUFFICES ASSUME NEW r \in Rooms PROVE Burst(r)'
      BY DEF BurstBounded
    <2>1. CASE r = q
      <3>1. scanTick'[q] = 0 /\ scanCount'[q] = 0 /\ scanLast'[q] = PollStep + 1
        BY <1>1, <1>3 DEF EndBurst, Ancient
      <3> QED BY <2>1, <3>1, LimitsAssumption DEF ScanDue
    <2>2. CASE r # q
      <3>1. scanTick'[r] = scanTick[r] /\ scanCount'[r] = scanCount[r]
            /\ scanLast'[r] = scanLast[r]
        BY <1>1, <1>3, <2>2 DEF EndBurst
      <3> QED BY <1>3, <3>1 DEF BurstBounded, ScanDue
    <2> QED BY <2>1, <2>2
  <1>4. CASE HaScan
    <2> SUFFICES ASSUME NEW r \in Rooms PROVE Burst(r)'
      BY DEF BurstBounded
    <2>1. scanTick'[r] = ScanInterval + 1 /\ scanCount'[r] = 0 /\ scanLast'[r] = PollStep + 1
      BY <1>4 DEF HaScan, Ancient
    <2> QED BY <2>1, LimitsAssumption DEF ScanDue
  <1>5. ASSUME NEW dt \in Steps, StartSweep(dt) \/ SkipSweep(dt)
        PROVE  BurstBounded'
    <2> SUFFICES ASSUME NEW r \in Rooms PROVE Burst(r)'
      BY DEF BurstBounded
    <2>1. /\ scanTick'[r] = Cap(scanTick[r] + dt, ScanInterval + 1)
          /\ scanLast'[r] = Cap(scanLast[r] + dt, PollStep + 1)
          /\ scanCount'[r] = scanCount[r] /\ pc = "asleep"
      BY <1>5 DEF StartSweep, SkipSweep, Elapse, Ancient
    <2>2. /\ scanTick[r] \in Nat /\ scanLast[r] \in Nat /\ scanCount[r] \in Nat /\ dt \in Nat
          /\ PollStep \in Nat /\ ScanInterval \in Nat
      BY <1>1, LimitsAssumption
    <2>3. ~ScanDue(r)' => ~ScanDue(r)
      BY <2>1, <2>2 DEF ScanDue, Cap
    <2>4. scanLast[r] > PollStep => scanLast'[r] > PollStep
      BY <2>1, <2>2 DEF Cap
    <2>5. Burst(r) /\ scanCount[r] # PollLimit + 1
      BY <2>1 DEF BurstBounded
    <2> QED BY <2>1, <2>3, <2>4, <2>5
  <1>6. ASSUME Poll \/ SkipPoll
        PROVE  BurstBounded'
    <2> DEFINE q == Head(rooms)
    <2> SUFFICES ASSUME NEW r \in Rooms PROVE Burst(r)'
      BY DEF BurstBounded
    <2>1. q \in Rooms /\ ScanDue(q) /\ pc = "visiting" /\ pc' = "polled" /\ rooms' = rooms
      BY <1>6 DEF Poll, SkipPoll, PollDue, TypeOK
    <2>2. /\ scanTick'[r] = scanTick[r]
          /\ r # q => scanCount'[r] = scanCount[r] /\ scanLast'[r] = scanLast[r]
          /\ scanCount'[q] \in {scanCount[q], scanCount[q] + 1}
      BY <1>1, <1>6, <2>1 DEF Poll, SkipPoll, scanVars
    <2>3. scanCount[r] \in Nat /\ scanCount[r] <= PollLimit
      BY <1>1, <2>1, LimitsAssumption DEF BurstBounded
    <2>4. PollLimit \in Nat
      BY LimitsAssumption
    <2> HIDE DEF q
    <2>5. CASE r = q
      <3>1. ScanDue(r)'
        BY <2>1, <2>2, <2>5 DEF ScanDue
      <3>2. scanCount'[r] <= PollLimit + 1
        BY <2>2, <2>3, <2>4, <2>5
      <3>3. pc' = "polled" /\ Head(rooms') = r
        BY <2>1, <2>5 DEF q
      <3> QED BY <3>1, <3>2, <3>3
    <2>6. CASE r # q
      <3>1. scanCount'[r] = scanCount[r] /\ scanLast'[r] = scanLast[r]
        BY <2>2, <2>6
      <3>2. Burst(r)
        BY DEF BurstBounded
      <3> QED BY <2>2, <2>3, <2>4, <3>1, <3>2 DEF ScanDue
    <2> QED BY <2>5, <2>6
  <1>7. CASE FinishPoll
    <2>1. Head(rooms) \in Rooms /\ pc = "polled"
      BY <1>7 DEF FinishPoll, TypeOK
    <2> SUFFICES ASSUME NEW r \in Rooms PROVE Burst(r)'
      BY DEF BurstBounded
    <2>2. CASE BurstOver(Head(rooms)) /\ r = Head(rooms)
      <3>1. scanTick'[r] = 0 /\ scanCount'[r] = 0 /\ scanLast'[r] = PollStep + 1
        BY <1>1, <1>7, <2>2 DEF FinishPoll, EndBurst, Ancient
      <3> QED BY <3>1, LimitsAssumption DEF ScanDue
    <2>3. CASE ~BurstOver(Head(rooms)) \/ r # Head(rooms)
      <3>1. scanTick'[r] = scanTick[r] /\ scanCount'[r] = scanCount[r]
            /\ scanLast'[r] = scanLast[r]
        BY <1>1, <1>7, <2>3 DEF FinishPoll, EndBurst, scanVars
      <3>2. scanCount[r] \in Nat /\ scanCount[r] # PollLimit + 1
        BY <1>1, <2>3, LimitsAssumption DEF BurstBounded, BurstOver
      <3> QED BY <3>1, <3>2 DEF BurstBounded, ScanDue
    <2> QED BY <2>2, <2>3
  <1>8. \A q, reading : Report(q, reading) => EndBurst(q) /\ UNCHANGED <<pc, rooms>>
    BY DEF Report, taskVars
  <1>9. \/ Noise \/ Quiet \/ UNCHANGED vars
        \/ \E q, s, v : HaCommand(q, s, v)
        => UNCHANGED scanVars /\ UNCHANGED <<pc, rooms>>
    <2>1. \A q, s, v : HaCommand(q, s, v) => UNCHANGED scanVars /\ UNCHANGED <<pc, rooms>>
      BY DEF HaCommand, taskVars
    <2>2. Noise \/ Quiet \/ UNCHANGED vars => UNCHANGED scanVars /\ UNCHANGED <<pc, rooms>>
      BY DEF Noise, Quiet, vars, taskVars
    <2> QED BY <2>1, <2>2
  <1>10. EndSweep \/ EnterRoom \/ LeaveRoom \/ Written => UNCHANGED scanVars /\ pc # "polled"
    BY DEF EndSweep, EnterRoom, LeaveRoom, Written
  <1>11. Reconcile => UNCHANGED scanVars /\ pc # "polled"
    BY DEF Reconcile, Abandon, Retry, Pass, Send, SendDropped, SendRaises, MarkSent, Reconciling
  <1> QED
    BY <1>2, <1>3, <1>4, <1>5, <1>6, <1>7, <1>8, <1>9, <1>10, <1>11
    DEF Next, Wake, Work, Environment

\* A burst of queries is bounded and never carried over to the next due period.
THEOREM BurstIsBounded == Spec => []BurstBounded
  <1>1. Init => BurstBounded
    BY LimitsAssumption DEF Init, BurstBounded, ScanDue, Ancient
  <1>2. TypeOK /\ BurstBounded /\ [Next]_vars => BurstBounded'
    BY BurstStep
  <1> QED BY <1>1, <1>2, TypeCorrect, PTL DEF Spec

-----------------------------------------------------------------------------
(* What must come to an end does not start over *)

\* Sub-devices that settle are not pending any more.
LEMMA SettleEffort ==
    ASSUME NEW M, Settle(M), NEW s \in Subs, Pending(s)'
    PROVE  Effort(s)' = Effort(s)
  BY DEF Settle, Effort, Pending

\* Marking a command as sent is a step of the effort for it.
LEMMA SentEffort ==
    ASSUME TypeOK, NEW c \in Subs, MarkSent(c), NEW s \in Subs, Pending(s)'
    PROVE  Effort(s)' >= Effort(s)
  <1>1. /\ last' = [last EXCEPT ![c] = SentMark(Head(rooms))] /\ count' = count
        /\ last[c] = "set"
    BY DEF MarkSent
  <1>2. SentMark(Head(rooms)) \in {"state", "sent"}
    BY DEF SentMark
  <1>3. count[s] \in Nat /\ last'[s] = IF s = c THEN SentMark(Head(rooms)) ELSE last[s]
    BY <1>1 DEF TypeOK
  <1> QED BY <1>1, <1>2, <1>3 DEF Effort, Pending

LEMMA EffortKept ==
    ASSUME TypeOK, [Next]_vars, NEW s \in Subs, Pending(s), Pending(s)'
    PROVE  Effort(s)' >= Effort(s) \/ commands'[s] > commands[s]
  <1> DEFINE Goal == Effort(s)' >= Effort(s) \/ commands'[s] > commands[s]
  <1>0. /\ count \in [Subs -> Nat] /\ commands \in [Subs -> Nat]
        /\ last \in [Subs -> {"state", "set", "sent"}] /\ Effort(s) \in Nat
    <2>1. /\ count \in [Subs -> Nat] /\ commands \in [Subs -> Nat]
          /\ last \in [Subs -> {"state", "set", "sent"}]
      BY DEF TypeOK
    <2>2. count[s] \in Nat
      BY <2>1
    <2> QED BY <2>1, <2>2 DEF Effort
  <1> HIDE DEF Goal
  <1>1. ASSUME NEW r \in Rooms, NEW c \in Subs, NEW v \in Payloads[c], HaCommand(r, c, v)
        PROVE  Goal
    <2> DEFINE D == DOMAIN Wanted(r, c, v)
               mark == CommandMark(r, v)
    <2>1. /\ last'[s] = IF s \in D THEN mark ELSE last[s]
          /\ count'[s] = count[s]
          /\ commands'[s] = IF s \notin D THEN commands[s]
                            ELSE IF mark = "set" THEN commands[s] + 1 ELSE 0
      BY <1>1 DEF HaCommand
    <2>2. mark \in {"state", "set"}
      BY DEF CommandMark
    <2> HIDE DEF D, mark
    <2>3. CASE s \in D
      BY <1>0, <2>1, <2>2, <2>3 DEF Goal, Pending
    <2>4. CASE s \notin D
      BY <1>0, <2>1, <2>4 DEF Goal, Effort
    <2> QED BY <2>3, <2>4
  <1>2. ASSUME NEW M, Settle(M)
        PROVE  Goal
    BY <1>0, <1>2, SettleEffort DEF Goal
  <1>3. \A r, reading : Report(r, reading) => Settle(Settled(r, reading))
    BY DEF Report
  <1>4. \A c : Abandon(c) => Settle({c})
    BY DEF Abandon
  <1>5. ASSUME NEW c \in Subs, Send(c) \/ SendDropped(c) \/ SendRaises(c)
        PROVE  Goal
    BY <1>5, SentEffort DEF Goal, Send, SendDropped, SendRaises
  <1>6. ASSUME NEW c \in Subs, Retry(c)
        PROVE  Goal
    <2>1. /\ last'[s] = IF s = c THEN "set" ELSE last[s]
          /\ count'[s] = IF s = c THEN count[s] + 1 ELSE count[s]
      BY <1>0, <1>6 DEF Retry
    <2> QED BY <1>0, <2>1 DEF Goal, Effort
  <1>7. ASSUME UNCHANGED <<last, count>>
        PROVE  Goal
    BY <1>0, <1>7 DEF Goal, Effort
  <1>8. \/ HaScan \/ Noise \/ Quiet \/ EndSweep \/ EnterRoom \/ LeaveRoom
        \/ Poll \/ SkipPoll \/ FinishPoll \/ Written \/ UNCHANGED vars
        => UNCHANGED <<last, count>>
    BY DEF HaScan, Noise, Quiet, EndSweep, EnterRoom, LeaveRoom, Poll, SkipPoll,
           FinishPoll, Written, vars, subVars
  <1>9. \A dt : StartSweep(dt) \/ SkipSweep(dt) => UNCHANGED <<last, count>>
    BY DEF StartSweep, SkipSweep
  <1>10. \A c : Pass(c) => UNCHANGED <<last, count>>
    BY DEF Pass, subVars
  <1>11. Goal
    BY <1>1, <1>2, <1>3, <1>4, <1>5, <1>6, <1>7, <1>8, <1>9, <1>10
    DEF Next, Wake, Work, Reconcile, Environment
  <1> QED BY <1>11 DEF Goal

LEMMA BurstKept ==
    ASSUME TypeOK, [Next]_vars, NEW r \in Rooms, ScanDue(r), ScanDue(r)'
    PROVE  scanCount'[r] >= scanCount[r] \/ HaScan
  <1>1. scanTick \in [Rooms -> Nat] /\ scanCount \in [Rooms -> Nat]
    BY DEF TypeOK
  <1>2. ASSUME NEW q, EndBurst(q)
        PROVE  scanCount'[r] >= scanCount[r]
    <2>1. r # q
      BY <1>1, <1>2, LimitsAssumption DEF EndBurst, ScanDue
    <2> QED BY <1>1, <1>2, <2>1 DEF EndBurst
  <1>3. CASE UNCHANGED scanCount
    BY <1>1, <1>3
  <1>4. CASE Poll
    BY <1>1, <1>4 DEF Poll
  <1>5. CASE FinishPoll
    BY <1>1, <1>2, <1>5 DEF FinishPoll, scanVars
  <1>6. ASSUME NEW q, NEW reading, Report(q, reading)
        PROVE  scanCount'[r] >= scanCount[r]
    BY <1>2, <1>6 DEF Report
  <1>7. \/ Noise \/ Quiet \/ UNCHANGED vars \/ \E q, s, v : HaCommand(q, s, v)
        \/ \E dt : StartSweep(dt) \/ SkipSweep(dt)
        \/ EndSweep \/ EnterRoom \/ LeaveRoom \/ SkipPoll \/ Written
        => UNCHANGED scanCount
    BY DEF Noise, Quiet, vars, HaCommand, StartSweep, SkipSweep, EndSweep, EnterRoom,
           LeaveRoom, SkipPoll, Written, scanVars
  <1>8. Reconcile => UNCHANGED scanCount
    BY DEF Reconcile, Abandon, Retry, Pass, Send, SendDropped, SendRaises, MarkSent, scanVars
  <1> QED
    BY <1>3, <1>4, <1>5, <1>6, <1>7, <1>8 DEF Next, Wake, Work, Environment

\* Neither the retries of a command nor a burst of queries starts over by
\* itself: only HA can ask for more (NoGroundLost).
THEOREM NothingStartsOver == Spec => NoGroundLost
  <1>1. TypeOK /\ [Next]_vars =>
          [/\ \A s \in Subs : Pending(s) /\ Pending(s)' =>
                 Effort(s)' >= Effort(s) \/ commands'[s] > commands[s]
           /\ \A r \in Rooms : ScanDue(r) /\ ScanDue(r)' =>
                 scanCount'[r] >= scanCount[r] \/ HaScan]_vars
    BY EffortKept, BurstKept
  <1> QED BY <1>1, TypeCorrect, PTL DEF Spec, NoGroundLost

\* And what does not start over has an end: a pending command is worth at most
\* 2 * RetryLimit + 2 steps, sends and time-outs together.
THEOREM EffortEnds == Spec => [](\A s \in Subs : Effort(s) <= 2 * RetryLimit + 2)
  <1>1. IInv => \A s \in Subs : Effort(s) <= 2 * RetryLimit + 2
    <2> SUFFICES ASSUME IInv, NEW s \in Subs PROVE Effort(s) <= 2 * RetryLimit + 2
      OBVIOUS
    <2>1. Ledger(s) /\ TypeOK
      BY DEF IInv, RetryLedger
    <2> QED BY <2>1, LedgerType, LimitsAssumption DEF Ledger, Effort
  <1> QED BY <1>1, LedgerInvariant, PTL

=============================================================================
