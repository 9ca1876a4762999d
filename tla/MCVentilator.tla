---------------------------- MODULE MCVentilator ----------------------------
(***************************************************************************)
(* A wall controller with every kind of setting, a unit and commands of    *)
(* HA, for TLC; each with a value that the codec does not know.            *)
(***************************************************************************)
EXTENDS Ventilator

MCModes == {"off", "manual", "auto"}
MCSpeeds == {"off", "low", "high"}
MCUnitSpeeds == MCSpeeds \cup {"boost"}
MCModePayloads == {"on", "off", "eco"}
MCSpeedPayloads == MCSpeeds \cup {"full"}
MCSettings ==
  {Off, Setting("manual", "low"), Setting("manual", "high"), Setting("auto", "off"),
   Setting("bypass", "low")}

=============================================================================
