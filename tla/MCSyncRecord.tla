---------------------------- MODULE MCSyncRecord ----------------------------
(***************************************************************************)
(* Model checking of the record of one node.  The state space is finite:   *)
(* the counter stops at RebootCount + 1 (see MaxCount).  RebootCount is 1  *)
(* or 2, so that the counter is below, at and above it.                    *)
(***************************************************************************)
EXTENDS SyncRecordInv
=============================================================================
