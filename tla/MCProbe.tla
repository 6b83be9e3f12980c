------------------------------ MODULE MCProbe ------------------------------
(***************************************************************************)
(* Model checking of a round of probes.  Its state space is finite as it   *)
(* stands: faults are counted up to XTimes.                                *)
(***************************************************************************)
EXTENDS ProbeInv

\* primary_sc-a, primary_sc-b and nbi, as in cluster.conf.
Internal == <<"eth3", "eth4", "eth1">>
=============================================================================
