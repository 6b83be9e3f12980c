----------------------------- MODULE MCRaidMgr ------------------------------
(***************************************************************************)
(* Model checking of raidmgr on the two nodes that there are.  The state   *)
(* space is finite as it stands.  RaidMgr.cfg lets the role move only while *)
(* no recovery is under way, RaidMgrFailover.cfg at any time.              *)
(***************************************************************************)
EXTENDS RaidMgrInv
=============================================================================
