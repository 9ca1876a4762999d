----------------------------- MODULE Addressing -----------------------------
(***************************************************************************)
(* Who is meant: how the panel's configuration maps rooms to addresses on  *)
(* the bus and back.  A frame names a kind of device and an address; the   *)
(* configuration names rooms.  Lamps and sockets of a room share one       *)
(* address, its thermostat has another, and the two may cross: in Kocom's  *)
(* default wiring the lamps of room1 have the address of room2's heating.  *)
(* The builder turns rooms into addresses, the parser turns them back, and *)
(* the controllers are looked up by what comes out.                        *)
(*                                                                         *)
(* Of a frame's values only their names matter here: what they say is      *)
(* modelled in Synchronizer.                                               *)
(***************************************************************************)
EXTENDS Integers, Sequences

CONSTANTS
    Names,          \* the names rooms can have
    Addresses,      \* the addresses on the bus
    WallAddress,    \* "00", the address of everything that belongs to no room
    NoRoom,         \* what a dictionary gives for an address it does not have
    NoAddress,      \* the same for a room
    Houses          \* the configurations: sequences of RoomConfigs and the
                    \* enabled devices without a room

Switches == {"light", "plug"}
Roomless == {"fan", "gas", "elevator"}
Kinds == Switches \cup Roomless \cup {"thermostat", "wallpad"}

RoomConfig == [name : Names, light : Addresses \cup {NoAddress}, lights : Nat, plugs : Nat,
               thermo : Addresses \cup {NoAddress}]

\* The address of the peer is read, and used for nothing.
Frame == [type : {"send", "ack"}, device : Kinds, address : Addresses, peer : Kinds]

ASSUME AddressingAssumption ==
    /\ WallAddress \in Addresses
    /\ NoRoom \notin Names \cup {"wallpad"} /\ NoAddress \notin Addresses
    /\ \A h \in Houses : h.rooms \in Seq(RoomConfig) /\ h.enabled \subseteq Roomless

VARIABLES
    house,          \* the configuration
    frame,          \* the frame on the bus: <<>> or <<f>>
    asked,          \* the controller the panel's last frame was for: {} or {c}
    heard           \* the updates made of the last frame: {} or {u}

exchange == <<frame, asked, heard>>

-----------------------------------------------------------------------------
(* The dictionaries of the configuration: of equal keys the last one counts *)

Indices == DOMAIN house.rooms

LightsAt(a)  == {i \in Indices : house.rooms[i].light = a}
HeatingAt(a) == {i \in Indices : house.rooms[i].thermo = a}
LightsOf(n)  == {i \in Indices : house.rooms[i].name = n /\ house.rooms[i].light # NoAddress}
HeatingOf(n) == {i \in Indices : house.rooms[i].name = n /\ house.rooms[i].thermo # NoAddress}

LastOf(I) == house.rooms[CHOOSE i \in I : \A j \in I : j <= i]

\* kocom_room and kocom_room_thermostat
RoomAt(a) == IF LightsAt(a) = {} THEN NoRoom ELSE LastOf(LightsAt(a)).name
HeatedRoomAt(a) == IF HeatingAt(a) = {} THEN NoRoom ELSE LastOf(HeatingAt(a)).name

\* kocom_room_rev and kocom_room_thermostat_rev
AddressOf(n) ==
    IF n = "wallpad" THEN WallAddress
    ELSE IF LightsOf(n) = {} THEN NoAddress ELSE LastOf(LightsOf(n)).light
HeatingAddressOf(n) ==
    IF HeatingOf(n) = {} THEN NoAddress ELSE LastOf(HeatingOf(n)).thermo

\* kocom_light_size and kocom_plug_size
Count(kind, room) == IF kind = "light" THEN room.lights ELSE room.plugs
Size(kind, n) == IF LightsOf(n) = {} THEN 0 ELSE Count(kind, LastOf(LightsOf(n)))

-----------------------------------------------------------------------------
(* What the factory builds *)

\* The rooms of name n that have a controller of this kind.
Equipped(kind, n) ==
    IF kind \in Switches THEN {i \in LightsOf(n) : Count(kind, house.rooms[i]) # 0}
    ELSE HeatingOf(n)

Controllers ==
    {c \in (Switches \cup {"thermostat"}) \X Names : Equipped(c[1], c[2]) # {}}
    \cup {<<kind, "wallpad">> : kind \in house.enabled}

\* The sub-devices of a switch are numbered, 0 stands for all of them.
SubsOfController(c) ==
    CASE c[1] \in Switches -> 0 .. Count(c[1], LastOf(Equipped(c[1], c[2])))
      [] c[1] = "thermostat" -> {"mode", "current_temp", "target_temp"}
      [] c[1] = "fan" -> {"mode", "speed"}
      [] OTHER -> {c[1]}

-----------------------------------------------------------------------------
(* The builder and the parser *)

Query(kind, a) == [type |-> "send", device |-> kind, address |-> a, peer |-> "wallpad"]

\* No frame can be built for a room without an address.
Encoded(kind, n) ==
    LET a == IF kind = "thermostat" THEN HeatingAddressOf(n) ELSE AddressOf(n)
    IN  IF a = NoAddress THEN <<>>
        ELSE <<Query(kind, a)>>

Source(f) == IF f.type = "send" THEN f.peer ELSE f.device

\* Mutant: thermostats are looked up like lamps.
DecodedRoomByLight(f, a) == RoomAt(a)

\* One and the same dictionary serves both addresses of a frame: that of the
\* heating if the frame comes from a thermostat.
DecodedRoom(f, a) == IF Source(f) = "thermostat" THEN HeatedRoomAt(a) ELSE RoomAt(a)

\* Which controller a frame tells something about.
Targets(f) ==
    IF f.type = "send"
    THEN IF f.device = "elevator" THEN {<<"elevator", "wallpad">>} ELSE {}
    ELSE IF f.peer # "wallpad" THEN {}
    ELSE {<<f.device, IF f.device \in {"fan", "gas"} THEN "wallpad"
                      ELSE DecodedRoom(f, f.address)>>}

\* The names of the values the parser finds in it for controller c.
ValuesFor(c) ==
    IF c[1] \in Switches THEN 0 .. Size(c[1], c[2]) ELSE SubsOfController(c)

Updates(f) ==
    {[to |-> c, values |-> ValuesFor(c)] : c \in Targets(f) \cap Controllers}

-----------------------------------------------------------------------------

Init ==
    /\ house \in Houses
    /\ frame = <<>> /\ asked = {} /\ heard = {}

\* poll_room, or a command being sent.  The elevator is called from the wall
\* pad's address and never answers.
Ask(c) ==
    /\ frame = <<>>
    /\ c \in Controllers /\ c[1] # "elevator"
    /\ frame' = Encoded(c[1], c[2])
    /\ asked' = {c} /\ heard' = {}
    /\ UNCHANGED house

\* HA hands in a query of the wall pad over the debug topic; the panel puts
\* the query on the bus for the room it has read out of it.
AskForHa(kind, a) ==
    LET n == DecodedRoom(Query(kind, a), a) IN
    /\ frame = <<>>
    /\ frame' = Encoded(kind, n)
    /\ asked' = {<<kind, n>>} /\ heard' = Updates(Query(kind, a))
    /\ UNCHANGED house

\* The device at the address answers with its own address in the same place.
Answer ==
    /\ frame # <<>> /\ frame[1].type = "send"
    /\ frame[1].device \notin {"wallpad", "elevator"}
    /\ frame' = <<[frame[1] EXCEPT !.type = "ack"]>>
    /\ UNCHANGED <<house, asked, heard>>

\* Frames of others: a second wall pad that asks, a device that answers it,
\* the elevator.
Overhear(f) ==
    /\ frame = <<>>
    /\ frame' = <<f>> /\ asked' = {} /\ heard' = {}
    /\ UNCHANGED house

\* The panel does not read what it has written itself.
Hear ==
    /\ frame # <<>> /\ (frame[1].type = "ack" \/ asked = {})
    /\ heard' = Updates(frame[1])
    /\ frame' = <<>>
    /\ UNCHANGED <<house, asked>>

Unanswered ==
    /\ frame # <<>> /\ frame' = <<>> /\ asked' = {}
    /\ UNCHANGED <<house, heard>>

Exchange ==
    \/ \E c \in Controllers : Ask(c)
    \/ \E kind \in Kinds, a \in Addresses : AskForHa(kind, a)
    \/ Answer
    \/ \E f \in Frame : Overhear(f)
    \/ Hear \/ Unanswered

-----------------------------------------------------------------------------

\* What the configuration must be for any of this to work.  Nothing checks it.
Unambiguous ==
    /\ \A i \in Indices : house.rooms[i].name # "wallpad"
    /\ \A i, j \in Indices : i # j =>
          LET p == house.rooms[i] q == house.rooms[j] IN
          /\ p.name # q.name
          /\ p.light # NoAddress => p.light # q.light
          /\ p.thermo # NoAddress => p.thermo # q.thermo

\* Whatever is asked, its answer updates the controller it was asked for, all
\* of its sub-devices and nothing else: builder, parser, factory and
\* configuration agree on who is meant, wherever the addresses cross
\* (encode, _value_packet, set_list).
ComesHome ==
    Unambiguous /\ frame = <<>> =>
        \A c \in asked \cap Controllers :
            heard = {[to |-> c, values |-> SubsOfController(c)]}

\* No answer, whoever asked for it, is taken for another room's: a controller
\* is updated from its own address only.
FromItsOwnAddress ==
    [][\A u \in heard' :
          frame # <<>> /\ u.to[1] \notin Roomless /\ Unambiguous =>
              Encoded(u.to[1], u.to[2]) = <<Query(u.to[1], frame[1].address)>>]_<<house, exchange>>
=============================================================================
