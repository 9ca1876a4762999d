---------------------------- MODULE MCTransport ----------------------------
(***************************************************************************)
(* The panel's connection for TLC: the synchronizer and two debug frames.  *)
(***************************************************************************)
EXTENDS Transport

MCWriters == {"sync", "debug1", "debug2"}

=============================================================================
