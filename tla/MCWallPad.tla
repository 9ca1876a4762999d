----------------------------- MODULE MCWallPad -----------------------------
(***************************************************************************)
(* A home with lamps and a fan, and its devices, for TLC.                  *)
(***************************************************************************)
EXTENDS WallPad

CONSTANT Home       \* the rooms of this instance, in sweep order

MCRooms == Range(Home)

MCSweep == Home

MCKind == [r \in MCRooms |-> IF r = "light" THEN "switch" ELSE r]

MCMembers ==
    [r \in MCRooms |-> IF r = "light" THEN <<"light0", "light1", "light2">>
                       ELSE <<"mode", "speed">>]

MCSubs == UNION {Range(MCMembers[r]) : r \in MCRooms}

MCValues == {"on", "off", "heat", "fan_only", "low", "high"}

\* HA switches both lamps and the fan, and changes its speed.
MCPayloads ==
    [s \in MCSubs |->
        CASE s = "light0" -> {}
          [] s = "speed" -> {"low", "off"}
          [] OTHER -> {"on", "off"}]

MCInitState == [s \in MCSubs |-> "off"]

HomeLights == <<"light">>
HomeFan == <<"fan">>

StepsUnit == {1}
=============================================================================
