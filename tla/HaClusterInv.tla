---------------------------- MODULE HaClusterInv ----------------------------
(***************************************************************************)
(* The inductive invariant of HaCluster when no circumstance of Admitted   *)
(* may occur.  OneActive alone is not inductive: what excludes the second  *)
(* owner is, before it mounts the disk, only what the check has seen.  The *)
(* parts that depend on fewer circumstances are inductive by themselves.   *)
(***************************************************************************)
EXTENDS HaCluster

\* What an agent's place says about its node.
PhaseInv ==
  /\ mips \subseteq data
  /\ \A n \in Node :
       /\ agent[n] \in {"down", "idle", "standby", "split", "assemble"} => n \notin data
       /\ agent[n] \in {"mips", "stopData"} => n \in data /\ n \notin mips
       /\ agent[n] \in {"active", "stopMips"} => n \in mips
       /\ agent[n] \in Releasing => old[n] # "Standby"

\* A node that has passed the check is alone with the disk.
Busy(n) == agent[n] = "assemble" \/ n \in data

ExclusiveInv == \A m, n \in Node : Busy(m) /\ Busy(n) => m = n

\* Takeovers do not overlap, with each other or with a release.
TakingInv ==
  \A m, n \in Node : m # n /\ agent[n] = "split" =>
    /\ agent[m] \notin Taking
    /\ m \in data => m \in mips /\ agent[m] \notin Releasing

\* A check that will not probe has nothing to find: the peer is locked, or the
\* agent comes from nowhere.
LockSkipInv == \A n \in Node : agent[n] = "split" /\ PeerNodeLockd(n) => data \subseteq {n}

ColdSkipInv == \A n \in Node : agent[n] = "split" /\ ~ProbeDue(n) => data \subseteq {n}

LockFileInv == detected \subseteq lock

\* A locked node does not take the role, and in a partition has no part in it.
LockedInv ==
  /\ \A m \in locked : agent[m] \notin Taking
  /\ link = "broken" => \A m \in locked : m \notin data /\ agent[m] \notin Engaged

\* The inductive invariant of the pair (for Admitted = {}).
IInv ==
  /\ TypeOK /\ PhaseInv /\ ExclusiveInv /\ TakingInv
  /\ LockSkipInv /\ ColdSkipInv /\ LockFileInv /\ LockedInv

=============================================================================
