----------------------------- MODULE MCHaAgent -----------------------------
(***************************************************************************)
(* Model checking of one agent process.  The state space of HaAgent is     *)
(* finite as it stands: every queue holds at most one message of a kind,   *)
(* and the only constant is whether the stop scripts may fail.             *)
(***************************************************************************)
EXTENDS HaAgentNode
=============================================================================
