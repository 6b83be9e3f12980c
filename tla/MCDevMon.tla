------------------------------ MODULE MCDevMon ------------------------------
(***************************************************************************)
(* Model checking of one device monitor process.  MaxBacklog is 2, so that *)
(* a TIMEOUT can wait behind another one, and a CLOSE behind both.         *)
(***************************************************************************)
EXTENDS DevMonInv
=============================================================================
