------------------------------ MODULE MCPollTimer ------------------------------
(***************************************************************************)
(* Instances of PollTimer.tla: a wait of a few ticks, ints of five bits.   *)
(***************************************************************************)
EXTENDS PollTimer

MCSteps == {-20, -3, 2, 20}
================================================================================
