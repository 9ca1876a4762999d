------------------------------ MODULE WallPad ------------------------------
(***************************************************************************)
(* The synchronizer in a closed loop with the devices it controls.  In     *)
(* Synchronizer any status frame may be heard at any time; here a device   *)
(* tells only what it is, when it is asked or has obeyed a frame, and      *)
(* frames, answers and people may get in the way.                          *)
(*                                                                         *)
(* Only rooms whose answer tells all there is take part: switches, with HA *)
(* addressing single lamps or sockets, and the fan.                        *)
(***************************************************************************)
EXTENDS Synchronizer

CONSTANTS
    MaxFaults       \* bound: how much gets lost, and how often people press

ASSUME WallPadAssumption ==
    /\ \A r \in Rooms : Kind[r] \in {"switch", "fan"}
    /\ \A r \in Rooms : Kind[r] = "switch" =>
          /\ Payloads[All(r)] = {}
          /\ \A m \in Lamps(r) : Payloads[m] \subseteq OnOff
    /\ \A r \in Rooms : Kind[r] = "fan" =>
          /\ Payloads[Mode(r)] \subseteq OnOff
          /\ {DefaultSpeed, "off"} \subseteq Payloads[Level(r)]
    /\ MaxFaults \in Nat

VARIABLES
    device,         \* device[m]: what the device really is
    answer,         \* answer[r]: the status frame of r on its way, if any
    faults,         \* losses and presses so far
    due,            \* history: what a device should be, by HA's newest command
    sight           \* history: "none" until r is heard, then "clear"; "lost" for good

padVars == <<device, answer, faults, due, sight>>
allVars == <<vars, padVars>>

Physical(r) == IF Kind[r] = "switch" THEN Lamps(r) ELSE SubsOf(r)
Devices == UNION {Physical(r) : r \in Rooms}

Nothing == [s \in {} |-> "off"]

\* What a room of devices d tells of itself.
Status(r, d) ==
    CHOOSE reading \in Readings(r) : \A m \in Physical(r) : reading[m] = d[m]

\* Lamps may be lit, and fans run, before the program starts.
Telling(r) == {[m \in Physical(r) |-> reading[m]] : reading \in Readings(r)}

PadInit ==
    /\ Init
    /\ device \in {d \in [Devices -> Values] :
                     \A r \in Rooms : [m \in Physical(r) |-> d[m]] \in Telling(r)}
    /\ answer = [r \in Rooms |-> Nothing]
    /\ faults = 0
    /\ due = device
    /\ sight = [r \in Rooms |-> "none"]

-----------------------------------------------------------------------------
(* What the devices and people do *)

Fault(r) ==
    /\ faults < MaxFaults /\ faults' = faults + 1
    /\ sight' = [sight EXCEPT ![r] = "lost"]

\* Somebody uses a wall switch or the remote control of the fan.
Press(r, m) ==
    /\ Fault(r)
    /\ \E reading \in Readings(r) :
          /\ \A n \in Physical(r) \ {m} : reading[n] = device[n]
          /\ reading[m] # device[m]
          /\ device' = [device EXCEPT ![m] = reading[m]]
    /\ UNCHANGED <<vars, answer, due>>

AnswerLost(r) ==
    /\ answer[r] # Nothing
    /\ Fault(r)
    /\ answer' = [answer EXCEPT ![r] = Nothing]
    /\ UNCHANGED <<vars, device, due>>

\* The first answer shows what the room is.
Heard(r) ==
    /\ answer[r] # Nothing
    /\ Report(r, answer[r]) /\ idle' = FALSE
    /\ answer' = [answer EXCEPT ![r] = Nothing]
    /\ sight' = [sight EXCEPT ![r] = IF @ = "none" THEN "clear" ELSE @]
    /\ UNCHANGED <<device, faults, due>>

\* A device answers within the silence that is_idle waits for.
PadQuiet ==
    /\ Quiet /\ \A r \in Rooms : answer[r] = Nothing
    /\ UNCHANGED padVars

-----------------------------------------------------------------------------
(* What reaches the devices *)

\* The query went out on an idle bus and is answered.
Queried ==
    LET r == Head(rooms) IN
    /\ Poll /\ idle
    /\ answer' = [answer EXCEPT ![r] = Status(r, device)]
    /\ UNCHANGED <<device, faults, due, sight>>

QueryDropped == Poll /\ ~idle /\ UNCHANGED padVars

\* A room that let a whole burst pass before its first answer is given up on:
\* the frames sent to it repeat guesses.
Unanswered ==
    LET r == Head(rooms)
        mute == BurstOver(r) /\ sight[r] = "none" /\ answer[r] = Nothing
    IN  /\ FinishPoll
        /\ sight' = IF mute THEN [sight EXCEPT ![r] = "lost"] ELSE sight
        /\ UNCHANGED <<device, answer, faults, due>>

Obeyed ==
    LET r == Head(rooms)
        d == [m \in Devices |-> IF m \in DOMAIN frame THEN frame[m] ELSE device[m]]
    IN  /\ Written
        /\ device' = d
        /\ answer' = [answer EXCEPT ![r] = Status(r, d)]
        /\ UNCHANGED <<faults, due, sight>>

FrameLost ==
    /\ Written /\ Fault(Head(rooms))
    /\ UNCHANGED <<device, answer, due>>

PadCommand(r, s, v) ==
    LET want == Wanted(r, s, v) IN
    /\ HaCommand(r, s, v)
    /\ due' = [m \in Devices |-> IF m \in DOMAIN want THEN want[m] ELSE due[m]]
    /\ UNCHANGED <<device, answer, faults, sight>>

\* HA's command is given up on: the device may be anything.
GivenUp(s) ==
    /\ Abandon(s)
    /\ sight' = [sight EXCEPT ![Head(rooms)] = "lost"]
    /\ UNCHANGED <<device, answer, faults, due>>

\* Everything else the program does touches no device.
Inside ==
    /\ \/ Wake \/ \E dt \in Steps : SkipSweep(dt)
       \/ EndSweep \/ EnterRoom \/ LeaveRoom \/ SkipPoll
       \/ \E s \in Subs : Retry(s) \/ Pass(s) \/ Send(s) \/ SendDropped(s)
       \/ HaScan \/ Noise
    /\ UNCHANGED padVars

-----------------------------------------------------------------------------

PadNext ==
    \/ Inside \/ Queried \/ QueryDropped \/ Unanswered \/ Obeyed \/ FrameLost \/ PadQuiet
    \/ \E r \in Rooms : Heard(r) \/ AnswerLost(r) \/ \E m \in Physical(r) : Press(r, m)
    \/ \E s \in Subs : GivenUp(s)
    \/ \E r \in Rooms, s \in Subs : \E v \in Payloads[s] : PadCommand(r, s, v)

PadSpec == PadInit /\ [][PadNext]_allVars

\* As in Synchronizer; besides, answers arrive, and of the queries sent again
\* and again some find the bus idle.
PadFairness ==
    /\ WF_allVars(PadNext /\ Work)
    /\ SF_allVars(PadQuiet) /\ SF_allVars(Wake /\ UNCHANGED padVars)
    /\ SF_allVars(Queried)
    /\ \A r \in Rooms : WF_allVars(Heard(r))

FairPadSpec == PadSpec /\ PadFairness

-----------------------------------------------------------------------------

\* What people did is not undone, what HA did is done: as long as nothing was
\* lost, pressed or given up on, a device HA is not waiting for is what it was
\* told to be, whatever the program did meanwhile to its siblings, whose
\* frames repeat its value, and although the program started without knowing
\* what it was (sync_room polls first, make_packet repeats state).
InForce ==
    \A r \in Rooms : sight[r] # "lost" =>
        \A m \in Physical(r) : ~Pending(m) => device[m] = due[m]

\* HA is never shown a wrong value that the panel made up: while nothing is on
\* its way and nothing was lost, what HA shows of a device is what the device
\* is, or, of a fan, what HA itself asked for last and the panel is still
\* seeing to (publish_state_to_ha, get_optimistic_state).
ShownHonest ==
    \A r \in Rooms : sight[r] = "clear" /\ answer[r] = Nothing =>
        \A m \in Physical(r) :
            \/ shown[m] = device[m]
            \/ Kind[r] = "fan" /\ Pending(m) /\ shown[m] = due[m]

\* In the end HA shows what the devices are, whatever was lost or pressed and
\* whatever HA was shown before the devices knew (publish_state_to_ha).
ShownConverges ==
    <>[](\A r \in Rooms : \A m \in Physical(r) : shown[m] = device[m])
=============================================================================
