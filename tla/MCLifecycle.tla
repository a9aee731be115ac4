------------------------------- MODULE MCLifecycle -------------------------------
(***************************************************************************)
(* Instances of Lifecycle.tla.  A service that forks uses two pids, so     *)
(* three are one service in the background and another that tries to start *)
(* or runs in the foreground, or three that fail.                          *)
(***************************************************************************)
EXTENDS Lifecycle

MCPids == 1..3
================================================================================
