---------------------------- MODULE MCDiscovery ----------------------------
(* A panel with two entities for TLC. *)
EXTENDS Discovery

MCTopics == <<"light", "gas">>

\* The panel's first run, or one after a run that knew the last entity only.
FirstOrNot == {{}, {"gas"}}

\* The first run ever.
First == {{}}
=============================================================================
