-------------------------- MODULE Delivery_proofs --------------------------
(***************************************************************************)
(* The synchronizer implements CommandDelivery, for every home and every   *)
(* value of the limits: each of its steps is a command, a try, a call, a   *)
(* telling or a giving up of the abstract panel, or changes nothing there. *)
(***************************************************************************)
EXTENDS Synchronizer_proofs

Firm == UNION {SubsOf(r) : r \in RoomsOf({"switch", "fan", "thermostat"})}
Once == UNION {SubsOf(r) : r \in RoomsOf({"elevator"})}

\* What the abstract panel sees of a state.
view == <<set, last, shown, attempts, commands>>

\* The room of a sub-device says whether it is called or waited for.
LEMMA KindOf ==
    ASSUME NEW r \in Rooms, NEW s \in SubsOf(r)
    PROVE  /\ s \in Firm <=> Kind[r] \in {"switch", "fan", "thermostat"}
           /\ s \in Once <=> Kind[r] = "elevator"
  BY OneRoom DEF Firm, Once, RoomsOf

\* What changes nothing that the abstract panel sees is a stuttering step.
LEMMA Stutter ==
    ASSUME UNCHANGED view
    PROVE  UNCHANGED Delivery!vars
  BY DEF view, Delivery!vars, Pending

\* Settling in the ledger settles the abstract account.
LEMMA SettleSettles ==
    ASSUME TypeOK, NEW M \in SUBSET Subs, Settle(M)
    PROVE  Delivery!Settle(M)
  <1>1. /\ last' = [m \in Subs |-> IF m \in M THEN "state" ELSE last[m]]
        /\ attempts' = [m \in Subs |-> IF m \in M THEN 0 ELSE attempts[m]]
        /\ commands' = [m \in Subs |-> IF m \in M THEN 0 ELSE commands[m]]
    BY DEF Settle
  <1>2. {s \in Subs : Pending(s)'} = {s \in Subs : Pending(s)} \ M
    BY <1>1 DEF Pending
  <1> QED BY <1>1, <1>2 DEF Delivery!Settle

\* A command of HA, or an elevator that is no longer wanted.
LEMMA CommandDelivers ==
    ASSUME IInv, IInv', NEW r \in Rooms, NEW s \in Subs, NEW v \in Payloads[s],
           HaCommand(r, s, v)
    PROVE  Delivery!Next
  <1> DEFINE want == Wanted(r, s, v)
             mark == CommandMark(r, v)
             T == DOMAIN want
  <1>1. s \in SubsOf(r)
    BY DEF HaCommand
  <1>2. T \subseteq SubsOf(r) /\ SubsOf(r) \subseteq Subs
    BY <1>1, WantedType, RoomFacts
  <1>3. /\ set' = [m \in Subs |-> IF m \in T THEN want[m] ELSE set[m]]
        /\ last' = [m \in Subs |-> IF m \in T THEN mark ELSE last[m]]
        /\ commands' = [m \in Subs |-> IF m \notin T THEN commands[m]
                          ELSE IF mark = "set" THEN commands[m] + 1 ELSE 0]
        /\ attempts' = [m \in Subs |->
                          IF m \in T /\ mark = "state" THEN 0 ELSE attempts[m]]
        /\ shown' = Optimistic(r, want)
    BY DEF HaCommand
  <1>4. /\ set' \in [Subs -> Values] /\ shown' \in [Subs -> Values]
        /\ set \in [Subs -> Values] /\ shown \in [Subs -> Values]
        /\ attempts \in [Subs -> Nat]
    BY DEF IInv, TypeOK
  <1>5. \A t \in Subs : shown'[t] \in {shown[t], set'[t]}
    <2> SUFFICES ASSUME NEW t \in Subs PROVE shown'[t] \in {shown[t], set'[t]}
      OBVIOUS
    <2>1. set'[t] = IF t \in T THEN want[t] ELSE set[t]
      BY <1>3
    <2>2. CASE Kind[r] \in {"fan", "thermostat"}
      <3>1. shown' = [m \in Subs |-> IF m \in T THEN want[m]
                        ELSE IF m \in SubsOf(r) THEN set[m] ELSE shown[m]]
        BY <1>3, <2>2 DEF Optimistic
      <3> HIDE DEF want
      <3> QED BY <2>1, <3>1
    <2>3. CASE Kind[r] = "elevator" /\ want[Members[r][1]] = "off"
      <3>1. shown' = [shown EXCEPT ![Members[r][1]] = "off"]
        BY <1>3, <2>3 DEF Optimistic
      <3>2. Members[r][1] = s /\ T = {s}
        <4>1. SubsOf(r) = {Members[r][1]}
          BY <2>3, RoomFacts DEF All
        <4>2. DOMAIN Wanted(r, s, v) = {s}
          BY <1>1, <2>3, WantedType
        <4> QED BY <1>1, <4>1, <4>2
      <3> QED BY <1>4, <2>1, <2>3, <3>1, <3>2
    <2>4. CASE ~(Kind[r] \in {"fan", "thermostat"})
               /\ ~(Kind[r] = "elevator" /\ want[Members[r][1]] = "off")
      <3>1. shown' = shown
        BY <1>3, <2>4 DEF Optimistic
      <3> QED BY <3>1
    <2> QED BY <2>2, <2>3, <2>4
  <1> HIDE DEF want, mark
  <1>6. \A t \in Subs \ T : set'[t] = set[t]
    BY <1>3
  <1>7. Delivery!Wish(T)
    BY <1>4, <1>5, <1>6 DEF Delivery!Wish
  <1>8. CASE mark = "set"
    <2>1. {m \in Subs : Pending(m)'} = {m \in Subs : Pending(m)} \cup T
      BY <1>2, <1>3, <1>8 DEF Pending
    <2>2. commands' = [m \in Subs |-> IF m \in T THEN commands[m] + 1 ELSE commands[m]]
      BY <1>3, <1>8
    <2>3. attempts' = attempts
      BY <1>3, <1>4, <1>8
    <2>4. Delivery!Command(T)
      BY <1>7, <2>1, <2>2, <2>3 DEF Delivery!Command
    <2> QED BY <1>2, <2>4 DEF Delivery!Next
  <1>9. CASE mark = "state"
    <2>1. Kind[r] = "elevator"
      BY <1>9 DEF mark, CommandMark
    <2>2. T = {s} /\ s \in Once
      BY <1>1, <2>1, KindOf, WantedType DEF want
    <2>3. {m \in Subs : Pending(m)'} = {m \in Subs : Pending(m)} \ {s}
      BY <1>3, <1>9, <2>2 DEF Pending
    <2>4. Delivery!Settle({s})
      BY <1>3, <1>9, <2>2, <2>3 DEF Delivery!Settle
    <2>5. Delivery!Cancel(s)
      BY <1>7, <2>2, <2>4 DEF Delivery!Cancel, Once
    <2> QED BY <2>5 DEF Delivery!Next
  <1> QED BY <1>8, <1>9 DEF mark, CommandMark

\* A report settles what it shows, and HA is told what it shows.
LEMMA ReportDelivers ==
    ASSUME IInv, IInv', NEW r \in Rooms, NEW reading \in Readings(r), Report(r, reading)
    PROVE  Delivery!Next
  <1> DEFINE T == Settled(r, reading)
  <1>1. T \in SUBSET Subs /\ T \subseteq SubsOf(r) /\ SubsOf(r) \subseteq Subs
    BY RoomFacts DEF Settled
  <1>2. Settle(T) /\ UNCHANGED set
    BY DEF Report
  <1>3. Delivery!Settle(T)
    BY <1>1, <1>2, SettleSettles DEF IInv
  <1>4. \A t \in T \cap Firm : shown'[t] = set[t]
    <2> SUFFICES ASSUME NEW t \in T, t \in Firm PROVE shown'[t] = set[t]
      OBVIOUS
    <2>1. Kind[r] \in {"switch", "fan", "thermostat"}
      BY <1>1, KindOf
    <2>2. set[t] = reading[t]
      BY <2>1 DEF Settled, SettledByAny
    <2>3. shown'[t] = reading[t]
      BY <1>1 DEF Report, Announced
    <2> QED BY <2>2, <2>3
  <1>5. shown' \in [Subs -> Values]
    BY DEF IInv, TypeOK
  <1> HIDE DEF T
  <1>6. Delivery!Tell(T)
    BY <1>2, <1>3, <1>4, <1>5 DEF Delivery!Tell, Firm
  <1> QED BY <1>1, <1>6 DEF Delivery!Next

\* A command given up on has used up its tries.
LEMMA AbandonDelivers ==
    ASSUME IInv, NEW s \in Subs, Abandon(s)
    PROVE  Delivery!Next
  <1>1. Ledger(s) /\ TypeOK
    BY DEF IInv, RetryLedger
  <1>2. count[s] > RetryLimit /\ Settle({s}) /\ UNCHANGED <<set, shown>>
    BY DEF Abandon, Exhausted
  <1>3. Pending(s) /\ attempts[s] > RetryLimit
    BY <1>1, <1>2, LedgerType, LimitsAssumption DEF Ledger, Pending
  <1>4. Delivery!Settle({s})
    BY <1>1, <1>2, SettleSettles
  <1>5. Delivery!GiveUp(s)
    BY <1>2, <1>3, <1>4 DEF Delivery!GiveUp
  <1> QED BY <1>5 DEF Delivery!Next

\* A send is a try within the budget, or the one call of an elevator.
LEMMA SendDelivers ==
    ASSUME IInv, NEW s \in Subs, MarkSent(s)
    PROVE  Delivery!Next
  <1> DEFINE r == Head(rooms)
  <1>1. /\ TypeOK /\ Ledger(s) /\ pc = "reconciling" /\ subs # <<>> /\ s = Head(subs)
        /\ last[s] = "set" /\ count[s] <= RetryLimit
        /\ last' = [last EXCEPT ![s] = SentMark(r)]
        /\ attempts' = [attempts EXCEPT ![s] = IF Kind[r] = "elevator" THEN 0 ELSE @ + 1]
        /\ commands' = [commands EXCEPT ![s] = IF Kind[r] = "elevator" THEN 0 ELSE @]
        /\ UNCHANGED <<set, shown>>
    <2>1. TypeOK /\ Ledger(s)
      BY DEF IInv, RetryLedger
    <2>2. count[s] <= RetryLimit
      BY <2>1, LedgerType, LimitsAssumption DEF MarkSent, Exhausted
    <2> QED BY <2>1, <2>2 DEF MarkSent, Reconciling
  <1>2. r \in Rooms /\ s \in SubsOf(r)
    <2>1. rooms \in Seq(Rooms) /\ rooms # <<>> /\ subs \in Seq(Subs)
      BY <1>1 DEF TypeOK
    <2>2. s \in Range(subs)
      BY <1>1, <2>1 DEF Range
    <2> QED BY <1>1, <2>1, <2>2 DEF IInv, QueueOfRoom
  <1>3. s \in Once <=> Kind[r] = "elevator"
    BY <1>2, KindOf
  <1>4. /\ last \in [Subs -> {"state", "set", "sent"}]
        /\ attempts \in [Subs -> Nat] /\ commands \in [Subs -> Nat]
    BY <1>1 DEF TypeOK
  <1> HIDE DEF r
  <1>5. CASE Kind[r] = "elevator"
    <2>1. {m \in Subs : Pending(m)'} = {m \in Subs : Pending(m)} \ {s}
      BY <1>1, <1>4, <1>5 DEF Pending, SentMark
    <2>2. Delivery!Settle({s})
      BY <1>1, <1>4, <1>5, <2>1 DEF Delivery!Settle
    <2>3. Delivery!Call(s)
      BY <1>1, <1>3, <1>5, <2>2 DEF Delivery!Call, Once, Pending
    <2> QED BY <2>3 DEF Delivery!Next
  <1>6. CASE Kind[r] # "elevator"
    <2>1. {m \in Subs : Pending(m)'} = {m \in Subs : Pending(m)}
      BY <1>1, <1>4, <1>6 DEF Pending, SentMark
    <2>2. attempts[s] < commands[s] + RetryLimit
      BY <1>1, <1>4, LedgerType, LimitsAssumption DEF Ledger
    <2>3. commands' = commands
      BY <1>1, <1>4, <1>6
    <2>4. Delivery!Try(s)
      BY <1>1, <1>3, <1>6, <2>1, <2>2, <2>3 DEF Delivery!Try, Once, Pending
    <2> QED BY <2>4 DEF Delivery!Next
  <1> QED BY <1>5, <1>6

\* An elevator call that was written is told to HA, and settles nothing.
LEMMA WrittenDelivers ==
    ASSUME IInv, IInv', Written
    PROVE  Delivery!Next
  <1>1. UNCHANGED <<set, last, attempts, commands>>
    BY DEF Written, subVars, history
  <1>2. attempts \in [Subs -> Nat] /\ commands \in [Subs -> Nat]
    BY DEF IInv, TypeOK
  <1>3. Delivery!Settle({})
    BY <1>1, <1>2 DEF Delivery!Settle, Pending
  <1>4. shown' \in [Subs -> Values]
    BY DEF IInv, TypeOK
  <1>5. Delivery!Tell({})
    BY <1>1, <1>3, <1>4 DEF Delivery!Tell
  <1> QED BY <1>5 DEF Delivery!Next

\* Everything else the program does is none of HA's business, and a retry
\* only reopens what is pending.
LEMMA RestDelivers ==
    ASSUME IInv,
           \/ HaScan \/ Noise \/ Quiet \/ UNCHANGED vars
           \/ EndSweep \/ EnterRoom \/ LeaveRoom \/ Poll \/ SkipPoll \/ FinishPoll
           \/ \E dt \in Steps : StartSweep(dt) \/ SkipSweep(dt)
           \/ \E s \in Subs : Pass(s) \/ Retry(s)
    PROVE  UNCHANGED Delivery!vars
  <1>1. CASE \E s \in Subs : Retry(s)
    <2>1. PICK s \in Subs : Retry(s)
      BY <1>1
    <2>2. /\ last[s] = "sent" /\ last' = [last EXCEPT ![s] = "set"]
          /\ last \in [Subs -> {"state", "set", "sent"}]
          /\ UNCHANGED <<set, shown, attempts, commands>>
      BY <2>1 DEF Retry, history, IInv, TypeOK
    <2>3. {m \in Subs : Pending(m)'} = {m \in Subs : Pending(m)}
      BY <2>2 DEF Pending
    <2> QED BY <2>2, <2>3 DEF Delivery!vars
  <1>2. CASE ~ \E s \in Subs : Retry(s)
    <2>1. HaScan \/ Noise \/ Quiet \/ UNCHANGED vars => UNCHANGED view
      BY DEF HaScan, Noise, Quiet, vars, subVars, history, view
    <2>2. EndSweep \/ EnterRoom \/ LeaveRoom \/ Poll \/ SkipPoll \/ FinishPoll
          => UNCHANGED view
      BY DEF EndSweep, EnterRoom, LeaveRoom, Poll, SkipPoll, FinishPoll, subVars,
             history, view
    <2>3. \A dt : StartSweep(dt) \/ SkipSweep(dt) => UNCHANGED view
      BY DEF StartSweep, SkipSweep, history, view
    <2>4. \A s : Pass(s) => UNCHANGED view
      BY DEF Pass, subVars, history, view
    <2> QED BY <1>2, <2>1, <2>2, <2>3, <2>4, Stutter
  <1> QED BY <1>1, <1>2

\* The panel does with HA's commands what CommandDelivery allows, in every
\* home and for every limit.
THEOREM Delivers == Spec => DeliversCommands
  <1>1. Init => Delivery!Init
    <2> SUFFICES ASSUME Init PROVE Delivery!Init
      OBVIOUS
    <2>1. set = InitState /\ shown = InitState /\ InitState \in [Subs -> Values]
      BY HomeAssumption DEF Init
    <2>2. {s \in Subs : Pending(s)} = {}
      BY DEF Init, Pending
    <2> QED BY <2>1, <2>2 DEF Init, Delivery!Init
  <1>2. IInv /\ IInv' /\ [Next]_vars => [Delivery!Next]_(Delivery!vars)
    <2> SUFFICES ASSUME IInv, IInv', [Next]_vars
                 PROVE  Delivery!Next \/ UNCHANGED Delivery!vars
      OBVIOUS
    <2>1. \A s \in Subs : Send(s) \/ SendDropped(s) \/ SendRaises(s) => MarkSent(s)
      BY DEF Send, SendDropped, SendRaises
    <2> QED
      BY <2>1, CommandDelivers, ReportDelivers, AbandonDelivers, SendDelivers,
         WrittenDelivers, RestDelivers
      DEF Next, Wake, Work, Reconcile, Environment
  <1> QED BY <1>1, <1>2, LedgerInvariant, PTL DEF Spec, DeliversCommands, Delivery!Spec
=============================================================================
