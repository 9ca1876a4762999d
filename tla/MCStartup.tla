----------------------------- MODULE MCStartup -----------------------------
(***************************************************************************)
(* Three homes and seven sets of options.                                  *)
(***************************************************************************)
EXTENDS Startup

R(name, light, lights, plugs, thermo) ==
    [name |-> name, light |-> light, lights |-> lights, plugs |-> plugs, thermo |-> thermo]

\* Heating and lamps cross, as in ROOMS_DEFAULT; a home with gaps, and a switch
\* that shares its address with another room's heating; one with a name twice.
MCHouses ==
    {[rooms |-> <<R("living", "00", 2, 1, "00"), R("room2", "02", 1, 0, "03"),
                  R("room1", "03", 2, 1, "02")>>,
      enabled |-> {"fan", "gas", "elevator"}],
     [rooms |-> <<R("living", "00", 0, 0, NoAddress), R("room1", NoAddress, 1, 1, "02"),
                  R("room2", "02", 0, 1, NoAddress)>>,
      enabled |-> {"fan"}],
     [rooms |-> <<R("room1", "02", 1, 1, NoAddress), R("room1", "03", 2, 0, "03")>>,
      enabled |-> {}]}

MCNames == {"living", "room1", "room2"}
MCAddresses == {"00", "02", "03"}

O(wallpad, comm, ventilator, missing) ==
    [wallpad |-> wallpad, comm |-> comm, ventilator |-> ventilator,
     ventilator_comm |-> "serial", given |-> Entries \ missing]

MCOptions ==
    {O(TRUE, "serial", TRUE, {"socket_host", "socket_port"}),
     O(TRUE, "socket", FALSE, {"serial_port"}),
     O(TRUE, "socket", TRUE, {"socket_port"}),
     O(FALSE, "serial", TRUE, {"mqtt_credentials"}),
     O(FALSE, "serial", FALSE, {}),
     O(TRUE, "serial", TRUE, {"ventilator_port"}),
     O(TRUE, "serial", FALSE, {"file"})}
=============================================================================
