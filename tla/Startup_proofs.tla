--------------------------- MODULE Startup_proofs ---------------------------
(***************************************************************************)
(* For every configuration and all options: whatever the panel asks comes  *)
(* home, no answer is taken for another room's, and a session with the     *)
(* broker finds everything registered and running.                         *)
(***************************************************************************)
EXTENDS Startup, TLAPS

\* In an unambiguous house a room has one entry, and an address one room.
Only(I, i) == I = {i}

\* What is on the bus while a controller waits for its answer.
OnItsWay(c, f) ==
    \E a \in Addresses :
        /\ Encoded(c[1], c[2]) = <<Query(c[1], a)>>
        /\ f = Query(c[1], a) \/ f = [Query(c[1], a) EXCEPT !.type = "ack"]

Answered(c) == {[to |-> c, values |-> SubsOfController(c)]}

AInv ==
    /\ house \in Houses
    /\ Unambiguous =>
          /\ frame = <<>> \/ \E f \in Frame : frame = <<f>>
          /\ frame # <<>> => \A u \in heard : u.to[1] \in Roomless
          /\ \A c \in asked \cap Controllers :
                /\ asked = {c} /\ c[1] # "elevator"
                /\ IF frame = <<>> THEN heard = Answered(c) ELSE OnItsWay(c, frame[1])

\* The rooms are a sequence of room configurations.
LEMMA RoomFacts ==
    ASSUME house \in Houses
    PROVE  /\ house.rooms \in Seq(RoomConfig)
           /\ Indices = 1 .. Len(house.rooms)
           /\ \A i \in Indices : house.rooms[i] \in RoomConfig
  BY AddressingAssumption DEF Indices

\* Of a single entry the last one is that one.
LEMMA LastOfOne ==
    ASSUME house \in Houses, NEW I, NEW i \in Indices, Only(I, i)
    PROVE  LastOf(I) = house.rooms[i]
  <1>1. i \in Int
    BY RoomFacts
  <1>2. (CHOOSE k \in {i} : \A j \in {i} : j <= k) = i
    BY <1>1
  <1> QED BY <1>2 DEF LastOf, Only

\* A room found by the address of its lamps, or by its name, is the same room.
LEMMA LightsAgree ==
    ASSUME house \in Houses, Unambiguous, NEW i \in Indices, house.rooms[i].light # NoAddress
    PROVE  /\ Only(LightsAt(house.rooms[i].light), i)
           /\ Only(LightsOf(house.rooms[i].name), i)
           /\ RoomAt(house.rooms[i].light) = house.rooms[i].name
           /\ AddressOf(house.rooms[i].name) = house.rooms[i].light
           /\ \A kind \in Switches :
                 Size(kind, house.rooms[i].name) = Count(kind, house.rooms[i])
  <1>1. /\ Only(LightsAt(house.rooms[i].light), i)
        /\ Only(LightsOf(house.rooms[i].name), i)
    BY RoomFacts DEF Unambiguous, LightsAt, LightsOf, Only
  <1>2. /\ LastOf(LightsAt(house.rooms[i].light)) = house.rooms[i]
        /\ LastOf(LightsOf(house.rooms[i].name)) = house.rooms[i]
    BY <1>1, LastOfOne
  <1>3. house.rooms[i].name # "wallpad"
    BY DEF Unambiguous
  <1> QED BY <1>1, <1>2, <1>3 DEF RoomAt, AddressOf, Size, Only

\* The same for heating.
LEMMA HeatingAgrees ==
    ASSUME house \in Houses, Unambiguous, NEW i \in Indices, house.rooms[i].thermo # NoAddress
    PROVE  /\ HeatedRoomAt(house.rooms[i].thermo) = house.rooms[i].name
           /\ HeatingAddressOf(house.rooms[i].name) = house.rooms[i].thermo
  <1>1. /\ Only(HeatingAt(house.rooms[i].thermo), i)
        /\ Only(HeatingOf(house.rooms[i].name), i)
    BY RoomFacts DEF Unambiguous, HeatingAt, HeatingOf, Only
  <1>2. /\ LastOf(HeatingAt(house.rooms[i].thermo)) = house.rooms[i]
        /\ LastOf(HeatingOf(house.rooms[i].name)) = house.rooms[i]
    BY <1>1, LastOfOne
  <1> QED BY <1>1, <1>2 DEF HeatedRoomAt, HeatingAddressOf, Only
\* A controller of a room belongs to one room configuration, which has what
\* it controls.
LEMMA ControllerRoom ==
    ASSUME house \in Houses, Unambiguous, NEW c \in Controllers, c[1] \notin Roomless
    PROVE  /\ c = <<c[1], c[2]>> /\ c[1] \in Switches \cup {"thermostat"}
           /\ \E i \in Indices :
                 /\ house.rooms[i].name = c[2] /\ c[2] \in Names
                 /\ c[1] \in Switches =>
                       house.rooms[i].light # NoAddress /\ Only(Equipped(c[1], c[2]), i)
                 /\ c[1] = "thermostat" => house.rooms[i].thermo # NoAddress
  <1>1. /\ c = <<c[1], c[2]>> /\ c[1] \in Switches \cup {"thermostat"} /\ c[2] \in Names
        /\ Equipped(c[1], c[2]) # {}
    <2>1. c \in {d \in (Switches \cup {"thermostat"}) \X Names : Equipped(d[1], d[2]) # {}}
      BY AddressingAssumption DEF Controllers
    <2> QED BY <2>1
  <1>2. CASE c[1] \in Switches
    <2>1. PICK i \in Equipped(c[1], c[2]) : TRUE
      BY <1>1
    <2>2. i \in LightsOf(c[2]) /\ c[1] # "thermostat"
      BY <1>2, <2>1 DEF Equipped, Switches
    <2>3. i \in Indices /\ house.rooms[i].name = c[2] /\ house.rooms[i].light # NoAddress
      BY <2>2 DEF LightsOf
    <2>4. LightsOf(c[2]) = {i}
      BY <2>3, LightsAgree DEF Only
    <2>5. Only(Equipped(c[1], c[2]), i)
      BY <1>2, <2>1, <2>4 DEF Equipped, Only
    <2> QED BY <1>1, <2>2, <2>3, <2>5
  <1>3. CASE c[1] = "thermostat"
    BY <1>1, <1>3 DEF Equipped, HeatingOf, Switches
  <1> QED BY <1>1, <1>2, <1>3

\* Which controller an answer to the wall pad is about.
LEMMA AckTarget ==
    ASSUME NEW kind, NEW a
    PROVE  Targets([Query(kind, a) EXCEPT !.type = "ack"]) =
              {<<kind, IF kind \in {"fan", "gas"} THEN "wallpad"
                       ELSE IF kind = "thermostat" THEN HeatedRoomAt(a) ELSE RoomAt(a)>>}
  <1> DEFINE f == [type |-> "ack", device |-> kind, address |-> a, peer |-> "wallpad"]
  <1>1. [Query(kind, a) EXCEPT !.type = "ack"] = f
    BY DEF Query
  <1>2. /\ f.type = "ack" /\ f.device = kind /\ f.address = a /\ f.peer = "wallpad"
        /\ Source(f) = kind
    BY DEF Source
  <1> HIDE DEF f
  <1>3. Targets(f) = {<<kind, IF kind \in {"fan", "gas"} THEN "wallpad"
                              ELSE DecodedRoom(f, a)>>}
    BY <1>2 DEF Targets
  <1> QED BY <1>1, <1>2, <1>3 DEF DecodedRoom

\* Every controller but the elevator's has an address, and what comes back
\* from that address is about this controller.
LEMMA RoundTrip ==
    ASSUME house \in Houses, Unambiguous, NEW c \in Controllers, c[1] # "elevator"
    PROVE  \E a \in Addresses :
              /\ Encoded(c[1], c[2]) = <<Query(c[1], a)>>
              /\ Updates([Query(c[1], a) EXCEPT !.type = "ack"]) = Answered(c)
  <1> DEFINE Ack(a) == [Query(c[1], a) EXCEPT !.type = "ack"]
  <1>1. \A a : Targets(Ack(a)) =
              {<<c[1], IF c[1] \in {"fan", "gas"} THEN "wallpad"
                       ELSE IF c[1] = "thermostat" THEN HeatedRoomAt(a) ELSE RoomAt(a)>>}
    BY AckTarget
  <1> HIDE DEF Ack
  <1>2. ASSUME NEW a, Targets(Ack(a)) = {c}, ValuesFor(c) = SubsOfController(c)
        PROVE  Updates(Ack(a)) = Answered(c)
    <2>1. Targets(Ack(a)) \cap Controllers = {c}
      BY <1>2
    <2>2. Updates(Ack(a)) = {[to |-> d, values |-> ValuesFor(d)] : d \in {c}}
      BY <2>1 DEF Updates
    <2> QED BY <1>2, <2>2 DEF Answered
  <1>3. CASE c[1] \in Roomless
    <2>1. c = <<c[1], "wallpad">> /\ c[1] \in {"fan", "gas"}
      BY <1>3 DEF Controllers, Roomless, Switches
    <2>2. Encoded(c[1], c[2]) = <<Query(c[1], WallAddress)>> /\ WallAddress \in Addresses
      BY <2>1, AddressingAssumption DEF Encoded, AddressOf
    <2>3. Targets(Ack(WallAddress)) = {c} /\ ValuesFor(c) = SubsOfController(c)
      BY <2>1, <1>1 DEF ValuesFor, Switches
    <2> QED BY <1>2, <2>2, <2>3 DEF Ack
  <1>4. CASE c[1] \notin Roomless
    <2>1. PICK i \in Indices :
             /\ house.rooms[i].name = c[2] /\ c[2] \in Names
             /\ c[1] \in Switches => house.rooms[i].light # NoAddress /\ Only(Equipped(c[1], c[2]), i)
             /\ c[1] = "thermostat" => house.rooms[i].thermo # NoAddress
      BY <1>4, ControllerRoom
    <2>2. house.rooms[i] \in RoomConfig /\ c = <<c[1], c[2]>> /\ c[1] \in Switches \cup {"thermostat"}
      BY <1>4, RoomFacts, ControllerRoom
    <2>3. CASE c[1] \in Switches
      <3>1. house.rooms[i].light \in Addresses /\ house.rooms[i].light # NoAddress
        BY <2>1, <2>2, <2>3 DEF RoomConfig
      <3>2. Encoded(c[1], c[2]) = <<Query(c[1], house.rooms[i].light)>>
        BY <2>1, <2>3, <3>1, LightsAgree DEF Encoded, Switches
      <3>3. Targets(Ack(house.rooms[i].light)) = {c}
        BY <1>1, <2>1, <2>2, <2>3, <3>1, LightsAgree DEF Switches
      <3>4. LastOf(Equipped(c[1], c[2])) = house.rooms[i]
        BY <2>1, <2>3, LastOfOne
      <3>5. ValuesFor(c) = SubsOfController(c)
        BY <2>1, <2>3, <3>1, <3>4, LightsAgree DEF ValuesFor, SubsOfController, Switches
      <3> QED BY <1>2, <3>1, <3>2, <3>3, <3>5 DEF Ack
    <2>4. CASE c[1] = "thermostat"
      <3>1. house.rooms[i].thermo \in Addresses /\ house.rooms[i].thermo # NoAddress
        BY <2>1, <2>2, <2>4 DEF RoomConfig
      <3>2. Encoded(c[1], c[2]) = <<Query(c[1], house.rooms[i].thermo)>>
        BY <2>1, <2>4, <3>1, HeatingAgrees DEF Encoded
      <3>3. Targets(Ack(house.rooms[i].thermo)) = {c}
        BY <1>1, <2>1, <2>2, <2>4, <3>1, HeatingAgrees
      <3>4. ValuesFor(c) = SubsOfController(c)
        BY <2>4 DEF ValuesFor, SubsOfController, Switches
      <3> QED BY <1>2, <3>1, <3>2, <3>3, <3>4 DEF Ack
    <2> QED BY <2>2, <2>3, <2>4
  <1> QED BY <1>3, <1>4

\* A controller of a room is updated by its own address only.
LEMMA OwnAddress ==
    ASSUME house \in Houses, Unambiguous, NEW f \in Frame, NEW u \in Updates(f), u.to[1] \notin Roomless
    PROVE  Encoded(u.to[1], u.to[2]) = <<Query(u.to[1], f.address)>>
  <1> DEFINE c == u.to
  <1>1. c \in Targets(f) /\ c \in Controllers
    BY DEF Updates
  <1>2. /\ c[1] \in Switches \cup {"thermostat"} /\ c[2] \in Names
    BY <1>1, ControllerRoom
  <1>3. /\ f.type = "ack" /\ c[1] = f.device /\ c[2] = DecodedRoom(f, f.address)
        /\ Source(f) = c[1]
    BY <1>1, <1>2 DEF Targets, Roomless, Frame, Source, Switches
  <1>4. CASE c[1] = "thermostat"
    <2>1. c[2] = HeatedRoomAt(f.address) /\ HeatingAt(f.address) # {}
      BY <1>2, <1>3, <1>4, AddressingAssumption DEF DecodedRoom, HeatedRoomAt
    <2>2. PICK i \in Indices : house.rooms[i].thermo = f.address
      BY <2>1 DEF HeatingAt
    <2>3. house.rooms[i].thermo # NoAddress
      BY <2>2, AddressingAssumption DEF Frame
    <2> QED BY <1>4, <2>1, <2>2, <2>3, HeatingAgrees DEF Encoded
  <1>5. CASE c[1] \in Switches
    <2>1. c[2] = RoomAt(f.address) /\ LightsAt(f.address) # {}
      BY <1>2, <1>3, <1>5, AddressingAssumption DEF DecodedRoom, RoomAt, Switches
    <2>2. PICK i \in Indices : house.rooms[i].light = f.address
      BY <2>1 DEF LightsAt
    <2>3. house.rooms[i].light # NoAddress
      BY <2>2, AddressingAssumption DEF Frame
    <2> QED BY <1>5, <2>1, <2>2, <2>3, LightsAgree DEF Encoded, Switches
  <1> QED BY <1>2, <1>4, <1>5

\* The configuration does not change, nor what is derived from it.
LEMMA HouseFixed ==
    ASSUME UNCHANGED house
    PROVE  /\ Unambiguous' <=> Unambiguous
           /\ Controllers' = Controllers
           /\ \A kind, n : Encoded(kind, n)' = Encoded(kind, n)
           /\ \A c : Answered(c)' = Answered(c)
  <1> USE DEF Indices, LightsOf, HeatingOf, LastOf, Count
  <1>1. Unambiguous' <=> Unambiguous
    BY DEF Unambiguous
  <1>2. Controllers' = Controllers
    BY DEF Controllers, Equipped
  <1>3. \A kind, n : Encoded(kind, n)' = Encoded(kind, n)
    BY DEF Encoded, AddressOf, HeatingAddressOf
  <1>4. \A c : Answered(c)' = Answered(c)
    BY DEF Answered, SubsOfController, Equipped
  <1> QED BY <1>1, <1>2, <1>3, <1>4

LEMMA AInvInit == Init => AInv
  BY DEF Init, AInv

\* No frame is built but a query of the wall pad.
LEMMA EncodedFacts ==
    ASSUME house \in Houses, Unambiguous, NEW kind \in Kinds, NEW n
    PROVE  Encoded(kind, n) = <<>> \/ \E f \in Frame : Encoded(kind, n) = <<f>>
  <1> DEFINE a == IF kind = "thermostat" THEN HeatingAddressOf(n) ELSE AddressOf(n)
  <1>1. a # NoAddress => a \in Addresses
    <2>1. HeatingOf(n) # {} => HeatingAddressOf(n) \in Addresses
      <3>1. ASSUME NEW i \in HeatingOf(n)
            PROVE  HeatingAddressOf(n) \in Addresses
        BY <3>1, HeatingAgrees, RoomFacts DEF HeatingOf, RoomConfig
      <3> QED BY <3>1
    <2>2. LightsOf(n) # {} => AddressOf(n) \in Addresses
      <3>1. ASSUME NEW i \in LightsOf(n)
            PROVE  AddressOf(n) \in Addresses
        BY <3>1, LightsAgree, RoomFacts DEF LightsOf, RoomConfig
      <3> QED BY <3>1
    <2> QED BY <2>1, <2>2, AddressingAssumption DEF AddressOf, HeatingAddressOf
  <1>2. ASSUME a \in Addresses PROVE Query(kind, a) \in Frame
    BY <1>2 DEF Query, Frame, Kinds
  <1> QED BY <1>1, <1>2 DEF Encoded

\* A query is addressed to no more than one place.
LEMMA QueryFacts ==
    ASSUME NEW kind, NEW a
    PROVE  /\ Query(kind, a).type = "send" /\ Source(Query(kind, a)) = "wallpad"
           /\ [Query(kind, a) EXCEPT !.type = "ack"].type = "ack"
           /\ \A b : Query(kind, a) = Query(kind, b) => a = b
           /\ \A u \in Updates(Query(kind, a)) : u.to[1] = "elevator"
  <1>1. Query(kind, a).type = "send" /\ Source(Query(kind, a)) = "wallpad"
    BY DEF Query, Source
  <1>2. [Query(kind, a) EXCEPT !.type = "ack"].type = "ack"
    BY DEF Query
  <1>3. ASSUME NEW b, Query(kind, a) = Query(kind, b) PROVE a = b
    <2>1. Query(kind, a).address = a /\ Query(kind, b).address = b
      BY DEF Query
    <2> QED BY <1>3, <2>1
  <1>4. ASSUME NEW u \in Updates(Query(kind, a)) PROVE u.to[1] = "elevator"
    <2>1. Targets(Query(kind, a)) \subseteq {<<"elevator", "wallpad">>}
      BY <1>1 DEF Targets
    <2> QED BY <2>1 DEF Updates
  <1> QED BY <1>1, <1>2, <1>3, <1>4

\* No room is taken for the place of the devices without one.
LEMMA RoomAtFacts ==
    ASSUME house \in Houses, Unambiguous, NEW a \in Addresses
    PROVE  RoomAt(a) # "wallpad"
  <1>1. CASE LightsAt(a) = {}
    <2>1. NoRoom # "wallpad"
      BY AddressingAssumption
    <2> QED BY <1>1, <2>1 DEF RoomAt
  <1>2. ASSUME NEW i \in LightsAt(a) PROVE RoomAt(a) # "wallpad"
    <2>1. i \in Indices /\ house.rooms[i].light = a /\ a # NoAddress
      BY <1>2, AddressingAssumption DEF LightsAt
    <2>2. RoomAt(a) = house.rooms[i].name /\ house.rooms[i].name # "wallpad"
      BY <2>1, LightsAgree DEF Unambiguous
    <2> QED BY <2>2
  <1> QED BY <1>1, <1>2

LEMMA AInvStep ==
    ASSUME AInv, Exchange, UNCHANGED house
    PROVE  AInv'
  <1> DEFINE Framed == frame = <<>> \/ \E f \in Frame : frame = <<f>>
             Quiet == frame # <<>> => \A u \in heard : u.to[1] \in Roomless
             Fits(c) == /\ asked = {c} /\ c[1] # "elevator"
                        /\ IF frame = <<>> THEN heard = Answered(c) ELSE OnItsWay(c, frame[1])
  <1>1. SUFFICES ASSUME Unambiguous
                 PROVE  Framed' /\ Quiet' /\ \A c \in asked' \cap Controllers : Fits(c)'
    BY HouseFixed DEF AInv
  <1>2. house \in Houses /\ Framed /\ Quiet /\ \A c \in asked \cap Controllers : Fits(c)
    BY <1>1 DEF AInv
  <1>3. ASSUME NEW c \in Controllers, asked' = {c}, c[1] # "elevator",
               NEW a \in Addresses, Encoded(c[1], c[2]) = <<Query(c[1], a)>>,
               frame' = <<Query(c[1], a)>> \/ frame' = <<[Query(c[1], a) EXCEPT !.type = "ack"]>>
        PROVE  Fits(c)'
    <2>1. frame' # <<>> /\ OnItsWay(c, frame[1])'
      BY <1>3, HouseFixed DEF OnItsWay, Query
    <2> QED BY <1>3, <2>1
  <1>4. ASSUME NEW c \in Controllers, Ask(c)
        PROVE  Framed' /\ Quiet' /\ \A d \in asked' \cap Controllers : Fits(d)'
    <2>1. PICK a \in Addresses : Encoded(c[1], c[2]) = <<Query(c[1], a)>>
      BY <1>1, <1>2, <1>4, RoundTrip DEF Ask
    <2>2. Fits(c)'
      BY <1>3, <1>4, <2>1 DEF Ask
    <2>3. c[1] \in Kinds
      <3>1. CASE c[1] \in Roomless
        BY <3>1 DEF Kinds
      <3>2. CASE c[1] \notin Roomless
        BY <1>1, <1>2, <3>2, ControllerRoom DEF Kinds
      <3> QED BY <3>1, <3>2
    <2>4. Framed'
      BY <1>1, <1>2, <1>4, <2>3, EncodedFacts DEF Ask
    <2> QED BY <1>4, <2>2, <2>4 DEF Ask
  <1>5. ASSUME NEW kind \in Kinds, NEW a \in Addresses, AskForHa(kind, a)
        PROVE  Framed' /\ Quiet' /\ \A d \in asked' \cap Controllers : Fits(d)'
    <2> DEFINE n == DecodedRoom(Query(kind, a), a)
               c == <<kind, n>>
    <2>1. frame' = Encoded(kind, n) /\ asked' = {c} /\ heard' = Updates(Query(kind, a))
      BY <1>5 DEF AskForHa
    <2>2. Framed'
      BY <1>1, <1>2, <2>1, EncodedFacts
    <2>3. Quiet'
      BY <2>1, QueryFacts DEF Roomless
    <2>4. n # "wallpad"
      BY <1>1, <1>2, QueryFacts, RoomAtFacts DEF DecodedRoom
    <2> HIDE DEF n
    <2>5. ASSUME NEW d \in asked' \cap Controllers PROVE Fits(d)'
      <3>1. d[1] = kind /\ d[2] = n /\ asked' = {d}
        BY <2>1
      <3>2. kind # "elevator"
        BY <2>1, <2>4 DEF Controllers, Switches
      <3>3. PICK b \in Addresses : Encoded(kind, n) = <<Query(kind, b)>>
        BY <1>1, <1>2, <3>1, <3>2, RoundTrip
      <3> QED BY <1>3, <2>1, <3>1, <3>2, <3>3
    <2> QED BY <2>1, <2>2, <2>3, <2>5
  <1>6. CASE Answer
    <2>1. PICK f \in Frame : frame = <<f>>
      BY <1>2, <1>6 DEF Answer
    <2>2. f.type = "send" /\ frame' = <<[f EXCEPT !.type = "ack"]>> /\ UNCHANGED <<asked, heard>>
      BY <1>6, <2>1 DEF Answer
    <2>3. [f EXCEPT !.type = "ack"] \in Frame
      BY DEF Frame
    <2>4. ASSUME NEW c \in asked \cap Controllers PROVE Fits(c)'
      <3>1. asked = {c} /\ c[1] # "elevator" /\ OnItsWay(c, f)
        BY <1>2, <2>1
      <3>2. PICK a \in Addresses : /\ Encoded(c[1], c[2]) = <<Query(c[1], a)>>
                                   /\ f = Query(c[1], a)
        BY <2>2, <3>1, QueryFacts DEF OnItsWay
      <3> QED BY <1>3, <2>2, <2>4, <3>1, <3>2
    <2> QED BY <1>2, <2>1, <2>2, <2>3, <2>4
  <1>7. ASSUME NEW f \in Frame, Overhear(f)
        PROVE  Framed' /\ Quiet' /\ \A c \in asked' \cap Controllers : Fits(c)'
    BY <1>7 DEF Overhear
  <1>8. CASE Hear
    <2>1. PICK f \in Frame : frame = <<f>>
      BY <1>2, <1>8 DEF Hear
    <2>2. /\ heard' = Updates(f) /\ frame' = <<>> /\ asked' = asked
          /\ f.type = "ack" \/ asked = {}
      BY <1>8, <2>1 DEF Hear
    <2>3. ASSUME NEW c \in asked \cap Controllers PROVE Fits(c)'
      <3>1. asked = {c} /\ c[1] # "elevator" /\ OnItsWay(c, f) /\ f.type = "ack"
        BY <1>2, <2>1, <2>2
      <3>2. PICK a \in Addresses : /\ Encoded(c[1], c[2]) = <<Query(c[1], a)>>
                                   /\ f = [Query(c[1], a) EXCEPT !.type = "ack"]
        BY <3>1, QueryFacts DEF OnItsWay
      <3>3. PICK b \in Addresses : /\ Encoded(c[1], c[2]) = <<Query(c[1], b)>>
                                   /\ Updates([Query(c[1], b) EXCEPT !.type = "ack"]) = Answered(c)
        BY <1>1, <1>2, <3>1, RoundTrip
      <3>4. a = b
        BY <3>2, <3>3, QueryFacts
      <3>5. heard' = Answered(c)
        BY <2>2, <3>2, <3>3, <3>4
      <3> QED BY <2>2, <3>1, <3>5, HouseFixed
    <2> QED BY <2>2, <2>3
  <1>9. CASE Unanswered
    BY <1>9 DEF Unanswered
  <1> QED BY <1>4, <1>5, <1>6, <1>7, <1>8, <1>9 DEF Exchange

-----------------------------------------------------------------------------

\* Every step of the program is an exchange on the bus or none.
LEMMA StepsOfStartup ==
    ASSUME [StartNext]_svars
    PROVE  UNCHANGED house /\ (Exchange \/ UNCHANGED exchange)
  BY DEF StartNext, svars, MainStep, Validate, SkipPanel, PanelFails, BuildPanel, SkipVentilator,
         BuildVentilator, ConnectBroker, NothingToRun, Goes, Connected, ConnectFails, SessionUp,
         SessionLost, Echo, PanelWorks, Exchange, Answer, Overhear, Hear, Unanswered, Ask, AskForHa

LEMMA AInvAlways == StartSpec => []AInv
  <1>1. StartInit => AInv
    BY AInvInit DEF StartInit
  <1>2. AInv /\ [StartNext]_svars => AInv'
    <2> SUFFICES ASSUME AInv, [StartNext]_svars PROVE AInv'
      OBVIOUS
    <2>1. CASE Exchange
      BY <2>1, StepsOfStartup, AInvStep
    <2>2. CASE UNCHANGED <<house, exchange>>
      BY <2>2, HouseFixed DEF AInv, OnItsWay, exchange
    <2> QED BY <2>1, <2>2, StepsOfStartup
  <1> QED BY <1>1, <1>2, PTL DEF StartSpec

\* For every house without ambiguous names or addresses, whatever the wirings
\* cross: an answer reaches the controller it was asked for, complete, and no
\* other (builder, parser, factory and dictionaries agree).
THEOREM AnswersComeHome == StartSpec => []ComesHome
  <1>1. AInv => ComesHome
    BY DEF AInv, ComesHome, Answered
  <1> QED BY <1>1, AInvAlways, PTL

\* For every such house, no answer is taken for another room's, whoever it
\* was meant for (_value_packet, set_list).
THEOREM AnswersKeepTheirAddress == StartSpec => FromItsOwnAddress
  <1>1. ASSUME AInv, [StartNext]_svars, frame # <<>>, Unambiguous,
               NEW u \in heard', u.to[1] \notin Roomless
        PROVE  Encoded(u.to[1], u.to[2]) = <<Query(u.to[1], frame[1].address)>>
    <2>1. house \in Houses /\ (\E f \in Frame : frame = <<f>>) /\ u \notin heard
      BY <1>1 DEF AInv
    <2>2. CASE Hear
      BY <1>1, <2>1, <2>2, OwnAddress DEF Hear
    <2>3. CASE heard' = heard
      BY <2>1, <2>3
    <2> QED
      BY <1>1, <2>1, <2>2, <2>3, StepsOfStartup
      DEF Exchange, Ask, AskForHa, Overhear, Answer, Unanswered, exchange
  <1>2. AInv /\ [StartNext]_svars =>
          [\A u \in heard' :
              frame # <<>> /\ u.to[1] \notin Roomless /\ Unambiguous =>
                  Encoded(u.to[1], u.to[2]) = <<Query(u.to[1], frame[1].address)>>]_<<house, exchange>>
    BY <1>1
  <1> QED BY <1>2, AInvAlways, PTL DEF StartSpec, FromItsOwnAddress

-----------------------------------------------------------------------------

\* What is registered and runs, by the place main has reached.
SInv ==
    /\ stage \in {"options", "refused", "panel", "ventilator", "mqtt", "gather", "ended"} \cup Lines
    /\ stage \notin {"options", "refused"} => Valid
    /\ stage = "panel" => routes = {"bridge"} /\ running = {}
    /\ stage = "panel_line" => /\ "panel" \in Due
                               /\ routes = {"bridge", "panel"} /\ running = {}
    /\ stage = "ventilator" => /\ running = Due \cap {"panel"}
                               /\ routes = {"bridge"} \cup running
    /\ stage \in {"controller_line", "unit_line"} =>
          /\ "ventilator" \in Due
          /\ running = Due \cap {"panel"}
          /\ routes = {"bridge", "ventilator"} \cup running
    /\ stage \in {"mqtt", "gather", "ended"} => running = Due /\ routes = {"bridge"} \cup Due
    /\ stage = "options" => running = {}
    /\ session \in {"down", "up"} => stage \in {"gather", "ended"}
    /\ session = "up" => subscribed = routes

LEMMA SInvInit == StartInit => SInv
  BY DEF StartInit, SInv

LEMMA SInvStep == SInv /\ [StartNext]_svars => SInv'
  <1> SUFFICES ASSUME SInv, [StartNext]_svars PROVE SInv'
    OBVIOUS
  <1>0. options' = options /\ (Valid' <=> Valid) /\ Due' = Due
    BY DEF StartNext, svars, startup, MainStep, Validate, SkipPanel, PanelFails, BuildPanel,
           SkipVentilator, BuildVentilator, ConnectBroker, NothingToRun, Goes, Connected,
           ConnectFails, SessionUp, SessionLost, Echo, PanelWorks, Valid, Due, Buildable, Has
  <1>a. /\ After("options") = "panel" /\ After("panel") = "ventilator"
        /\ After("ventilator") = "mqtt" /\ After("mqtt") = "gather"
    BY DEF After
  <1>d. /\ Due \subseteq {"panel", "ventilator"}
        /\ "panel" \in Due <=> options.wallpad /\ Buildable
        /\ "ventilator" \in Due <=> options.ventilator
    BY DEF Due
  <1> USE DEF Unconnected, Goes
  <1>1. CASE Validate
    BY <1>0, <1>1, <1>a DEF Validate, SInv
  <1>2. CASE SkipPanel
    BY <1>0, <1>2, <1>a, <1>d DEF SkipPanel, SInv, Lines
  <1>3. CASE PanelFails
    BY <1>0, <1>3, <1>a, <1>d DEF PanelFails, SInv, Lines
  <1>4. CASE BuildPanel
    BY <1>0, <1>4, <1>d DEF BuildPanel, SInv, Lines
  <1>5. CASE SkipVentilator
    BY <1>0, <1>5, <1>a, <1>d DEF SkipVentilator, SInv, Lines, Valid
  <1>6. CASE BuildVentilator
    BY <1>0, <1>6, <1>d DEF BuildVentilator, SInv, Lines
  <1>7. ASSUME NEW line \in Lines, Connected(line) PROVE SInv'
    <2>1. CASE line = "panel_line"
      BY <1>0, <1>7, <1>a, <1>d, <2>1 DEF Connected, NextStage, Started, SInv, Lines
    <2>2. CASE line = "controller_line"
      BY <1>0, <1>7, <1>a, <1>d, <2>2 DEF Connected, NextStage, Started, SInv, Lines
    <2>3. CASE line = "unit_line"
      BY <1>0, <1>7, <1>a, <1>d, <2>3 DEF Connected, NextStage, Started, SInv, Lines
    <2> QED BY <2>1, <2>2, <2>3 DEF Lines
  <1>8. CASE ConnectFails
    BY <1>0, <1>8 DEF ConnectFails, SInv
  <1>9. CASE ConnectBroker
    BY <1>0, <1>9, <1>a DEF ConnectBroker, SInv, Lines
  <1>10. CASE NothingToRun
    BY <1>0, <1>10 DEF NothingToRun, SInv, Lines
  <1>11. CASE SessionUp
    BY <1>0, <1>11 DEF SessionUp, SInv
  <1>12. CASE SessionLost
    BY <1>0, <1>12 DEF SessionLost, SInv
  <1>13. CASE Echo
    BY <1>0, <1>13 DEF Echo, SInv
  <1>14. CASE PanelWorks \/ UNCHANGED svars
    BY <1>0, <1>14 DEF PanelWorks, svars, startup, SInv
  <1> QED
    BY <1>1, <1>2, <1>3, <1>4, <1>5, <1>6, <1>7, <1>8, <1>9, <1>10, <1>11, <1>12, <1>13, <1>14
    DEF StartNext, MainStep

\* With any options: a session with the broker finds every part that was
\* asked for registered, subscribed and running.
THEOREM SessionsAreComplete == StartSpec => []SessionComplete
  <1>1. SInv => SessionComplete
    BY DEF SInv, SessionComplete
  <1> QED BY <1>1, SInvInit, SInvStep, PTL DEF StartSpec

=============================================================================
