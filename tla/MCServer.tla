-------------------------------- MODULE MCServer --------------------------------
(***************************************************************************)
(* An instance of Server.tla: two slots for three connections, of which    *)
(* one only takes a slot.                                                  *)
(***************************************************************************)
EXTENDS Server
================================================================================
