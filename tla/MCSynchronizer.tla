--------------------------- MODULE MCSynchronizer ---------------------------
(***************************************************************************)
(* Small homes for TLC.  A home is the set of rooms in use, in the order   *)
(* the factory creates them; all homes draw on the same sub-devices.       *)
(***************************************************************************)
EXTENDS Synchronizer

CONSTANT Home       \* the rooms of this instance, in sweep order

MCRooms == Range(Home)

MCSweep == Home

MCKind == [r \in MCRooms |-> IF r = "light" THEN "switch" ELSE r]

MCMembers ==
    [r \in MCRooms |->
        CASE r = "light" -> <<"light0", "light1", "light2">>
          [] r = "gas" -> <<"gas">>
          [] r = "elevator" -> <<"elevator">>
          [] r = "thermostat" -> <<"heating", "target">>]

MCSubs == UNION {Range(MCMembers[r]) : r \in MCRooms}

MCValues == {"on", "off", "heat", "fan_only", "low", "t20", "t300"}

\* HA addresses the group of lights and the first lamp; the second lamp is the
\* sibling whose value their frames carry along.
MCPayloads ==
    [s \in MCSubs |->
        CASE s = "light2" -> {}
          [] s = "heating" -> {"off", "heat", "fan_only"}
          [] s = "target" -> {"t20", "t300"}
          [] OTHER -> {"on", "off"}]

MCInitState ==
    [s \in MCSubs |-> IF s = "target" THEN "t20" ELSE "off"]

\* 300 degrees is accepted from HA and does not fit the frame's byte.
MCUnencodable == {"t300"}

HomeLights == <<"light">>
HomeGasElevator == <<"elevator", "gas">>
HomeThermostat == <<"thermostat">>

StepsShortLong == {0, 1}
StepsUnit == {1}
=============================================================================
