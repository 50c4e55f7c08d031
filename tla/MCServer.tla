-------------------------------- MODULE MCServer --------------------------------
(* An instance of Server for TLC. *)
EXTENDS Server
=============================================================================
