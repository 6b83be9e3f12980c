---------------------------- MODULE MCHaCluster ----------------------------
(***************************************************************************)
(* Model checking of the pair.  Its state space is finite as it stands.    *)
(* There are two nodes, as on every APG; the configurations differ in the  *)
(* circumstances they admit.                                               *)
(***************************************************************************)
EXTENDS HaClusterInv
=============================================================================
