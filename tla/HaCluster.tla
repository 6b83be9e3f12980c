----------------------------- MODULE HaCluster -----------------------------
(***************************************************************************)
(* The agents of the APG pair and the back-plane between them.  Each agent *)
(* is reduced to the steps of HaAgent that the other node can notice: the  *)
(* orders of AMF, splitBrainAlgo(), the jobs that take and release /data   *)
(* and the MIP addresses, and the reset of a node whose agent has failed.  *)
(* When the back-plane breaks, each node has an AMF of its own and the     *)
(* only guard left is the split-brain algorithm: probe the MIP addresses,  *)
(* and remember a split brain across the reset in the lock file.           *)
(*                                                                         *)
(* The algorithm is not safe in every circumstance.  Admitted names those  *)
(* that may happen:                                                        *)
(*   "virtual"    the node is virtual: the addresses on the public         *)
(*                interface are not probed                                 *)
(*   "overlap"    two nodes take or release the role at a time, ordered by *)
(*                AMF or because one of them is failing over               *)
(*   "coldStart"  in a partition, AMF gives the role to an agent that has  *)
(*                had no role and found no split brain since it started    *)
(*   "lockRace"   the back-plane breaks between the locking of a node and  *)
(*                the release of its role                                  *)
(*   "lockFile"   the lock file cannot be created                          *)
(***************************************************************************)
CONSTANTS Node, Admitted

Circumstances == {"virtual", "overlap", "coldStart", "lockRace", "lockFile"}

ASSUME AdmittedAssumption == Admitted \subseteq Circumstances

VARIABLES
  agent,      \* where each agent is
  old,        \* Global::m_oldhaState as the next Active order will set it
  data,       \* the nodes with /data mounted and DRBD primary
  mips,       \* the nodes that have the MIP addresses
  lock,       \* the nodes with a lock file
  detected,   \* history: nodes that found a split brain and have neither
              \* become standby nor passed the check since
  link,       \* the back-plane
  locked      \* the nodes whose AMF admin state is LOCKED

roleVars == <<data, mips>>
fileVars == <<lock, detected>>
netVars  == <<link, locked>>
vars == <<agent, old, roleVars, fileVars, netVars>>

Taking    == {"split", "assemble", "mips"}
Releasing == {"stopMips", "stopData"}
Engaged   == Taking \cup Releasing \cup {"active"}

\* The type invariant.
TypeOK ==
  /\ agent \in [Node -> Engaged \cup {"down", "idle", "standby", "failed"}]
  /\ old \in [Node -> {"Undefined", "Standby", "Quiesced"}]
  /\ data \subseteq Node /\ mips \subseteq Node
  /\ lock \subseteq Node /\ detected \subseteq Node
  /\ link \in {"up", "broken"} /\ locked \subseteq Node

Init ==
  /\ agent = [n \in Node |-> "down"] /\ old = [n \in Node |-> "Undefined"]
  /\ data = {} /\ mips = {} /\ lock = {} /\ detected = {}
  /\ link = "up" /\ locked = {}

Peers(n) == Node \ {n}

GoTo(n, pc) == agent' = [agent EXCEPT ![n] = pc]

-----------------------------------------------------------------------------
(* AMF and the nodes (external), with recovery policy NODE_FAILFAST.         *)

\* The node has come up and its agent is instantiated.
Boot(n) ==
  /\ agent[n] = "down"
  /\ GoTo(n, "idle") /\ old' = [old EXCEPT ![n] = "Undefined"]
  /\ UNCHANGED <<roleVars, fileVars, netVars>>

\* RMLFile(): unlink() may fail, which is only logged.
RMLFile(n) == lock' = lock \ {n} \/ UNCHANGED lock

\* STNBYAdm::start() removes the lock file.
OrderStandby(n) ==
  /\ agent[n] = "idle" /\ n \notin locked /\ link = "up"
  /\ \E m \in Peers(n) : agent[m] = "active"
  /\ GoTo(n, "standby") /\ old' = [old EXCEPT ![n] = "Standby"]
  /\ RMLFile(n) /\ detected' = detected \ {n}
  /\ UNCHANGED <<roleVars, netVars>>

\* A node that is in the middle of nothing.
Settled(m) == agent[m] \notin Taking /\ (m \in data => m \in mips /\ agent[m] \notin Releasing)

\* One AMF for both nodes gives the role to one of them only once the other
\* has released it or has been reset.  In a partition the AMF of a node does
\* not know what the other does.
AmfGivesRole(n) ==
  \/ link = "up" /\ \A m \in Peers(n) : agent[m] \notin Engaged \cup {"failed"}
  \/ /\ link = "broken"
     /\ "overlap" \in Admitted \/ \A m \in Peers(n) : Settled(m)
     /\ "coldStart" \in Admitted \/ old[n] # "Undefined" \/ n \in detected

OrderActive(n) ==
  /\ agent[n] \in {"idle", "standby"} /\ n \notin locked
  /\ AmfGivesRole(n)
  /\ GoTo(n, "split")
  /\ UNCHANGED <<old, roleVars, fileVars, netVars>>

\* A release that does not meet a takeover on the other node.
ReleaseAlone(n) == "overlap" \in Admitted \/ \A m \in Peers(n) : agent[m] \notin Taking

\* Quiesced or remove: stopApp().
StopApp(n) ==
  /\ \/ agent[n] = "active" /\ ReleaseAlone(n) /\ GoTo(n, "stopMips")
     \/ agent[n] \in {"idle", "standby"} /\ GoTo(n, "idle")
  /\ \E s \in {"Quiesced", "Undefined"} : old' = [old EXCEPT ![n] = s]
  /\ UNCHANGED <<roleVars, fileVars, netVars>>

\* The agent or DRBD fails, or a job does: the node is to be reset.
Fail(n) ==
  /\ agent[n] \notin {"down", "failed"}
  /\ GoTo(n, "failed")
  /\ UNCHANGED <<old, roleVars, fileVars, netVars>>

\* Whatever the node held goes with it; the lock file stays.  A node may be
\* reset at any time, and a process without any part of the role may end.
Reset(n) ==
  /\ agent[n] # "down"
  /\ GoTo(n, "down")
  /\ data' = data \ {n} /\ mips' = mips \ {n}
  /\ UNCHANGED <<old, fileVars, netVars>>

\* A bug: the failing node unmounts the disk under the addresses.
FailoverStop_DiskFirst(n) ==
  /\ agent[n] = "failed" /\ ReleaseAlone(n)
  /\ \/ n \in data /\ data' = data \ {n} /\ UNCHANGED mips
     \/ n \in mips \ data /\ mips' = mips \ {n} /\ UNCHANGED data
  /\ UNCHANGED <<agent, old, fileVars, netVars>>

\* nodefailOver() begins with shutDown_all(): the node gives up the addresses,
\* then the disk, before it is reset.
FailoverStop(n) ==
  /\ agent[n] = "failed" /\ ReleaseAlone(n)
  /\ \/ n \in mips /\ mips' = mips \ {n} /\ UNCHANGED data
     \/ n \in data \ mips /\ data' = data \ {n} /\ UNCHANGED mips
  /\ UNCHANGED <<agent, old, fileVars, netVars>>

\* An admin operation is only accepted while no assignment is changing.  AMF
\* then takes a locked node's role away (StopApp).
Stable == \A n \in Node : agent[n] \in {"down", "idle", "standby", "active"}

AdminLock(n) ==
  /\ link = "up" /\ Stable /\ n \notin locked
  /\ locked' = locked \cup {n}
  /\ UNCHANGED <<agent, old, roleVars, fileVars, link>>

AdminUnlock(n) ==
  /\ link = "up" /\ Stable /\ n \in locked
  /\ locked' = locked \ {n}
  /\ UNCHANGED <<agent, old, roleVars, fileVars, link>>

BreakLink ==
  /\ link = "up" /\ link' = "broken"
  /\ "lockRace" \in Admitted \/ \A m \in locked : m \notin data /\ agent[m] \notin Engaged
  /\ UNCHANGED <<agent, old, roleVars, fileVars, locked>>

RepairLink ==
  /\ link = "broken" /\ link' = "up"
  /\ UNCHANGED <<agent, old, roleVars, fileVars, locked>>

-----------------------------------------------------------------------------
(* RoleMgr::splitBrainAlgo()                                                 *)

\* A bug: only the internal addresses are probed, on a native node too.
MipAnswers_InternalOnly(n) == \E m \in Peers(n) : m \in mips /\ link = "up"

\* Some MIP address of the other node answers.  ARP reaches all of them, the
\* public one also in a partition; a virtual node pings the internal ones.
MipAnswers(n) ==
  \E m \in Peers(n) : m \in mips /\ (link = "up" \/ "virtual" \notin Admitted)

\* A bug: a peer whose state cannot be read counts as locked.
PeerNodeLockd_OnError(n) == link = "broken" \/ Peers(n) \subseteq locked

\* The peer is locked, as far as the information model can be read.
PeerNodeLockd(n) == Peers(n) \subseteq locked

\* A bug: the lock file of an agent that has just started is not looked at.
ProbeDue_NoLockFile(n) == old[n] # "Undefined"

ProbeDue(n) == old[n] # "Undefined" \/ n \in lock

\* The role can be taken: remove the traces of the lock file.
TakeRole(n) ==
  /\ GoTo(n, "assemble")
  /\ RMLFile(n) /\ detected' = detected \ {n}

\* A bug: the node is reset without making the lock file.
SplitBrainDetected_NoLockFile(n) ==
  /\ GoTo(n, "failed")
  /\ detected' = detected \cup {n} /\ UNCHANGED lock

\* Make the lock file, then nodefailOver(); a failure is only logged.
SplitBrainDetected(n) ==
  /\ GoTo(n, "failed")
  /\ detected' = detected \cup {n}
  /\ lock' = lock \cup {n} \/ ("lockFile" \in Admitted /\ UNCHANGED lock)

\* No probe: the peer is locked, or the agent had no role before.
SplitBrainSkip(n) ==
  /\ agent[n] = "split"
  /\ PeerNodeLockd(n) \/ ~ProbeDue(n)
  /\ TakeRole(n)
  /\ UNCHANGED <<old, roleVars, netVars>>

\* Probe; also when the peer is locked but the information model fails.
SplitBrainProbe(n) ==
  /\ agent[n] = "split" /\ ProbeDue(n)
  /\ \/ MipAnswers(n) /\ SplitBrainDetected(n)
     \/ ~MipAnswers(n) /\ TakeRole(n)
  /\ UNCHANGED <<old, roleVars, netVars>>

-----------------------------------------------------------------------------
(* StartJobs() and StopJobs(); a job that fails is followed by Fail.         *)

\* DRBD (external) refuses a second primary while the two are connected.
Assemble(n) ==
  /\ agent[n] = "assemble"
  /\ link = "up" => data \subseteq {n}
  /\ data' = data \cup {n} /\ GoTo(n, "mips")
  /\ UNCHANGED <<old, mips, fileVars, netVars>>

\* The addresses, and the servers that HaAgent shows behind them.
SetMipAddrs(n) ==
  /\ agent[n] = "mips"
  /\ mips' = mips \cup {n} /\ GoTo(n, "active")
  /\ UNCHANGED <<old, data, fileVars, netVars>>

UsetMipAddrs(n) ==
  /\ agent[n] = "stopMips"
  /\ mips' = mips \ {n} /\ GoTo(n, "stopData")
  /\ UNCHANGED <<old, data, fileVars, netVars>>

\* A bug: /data is unmounted while the addresses are still up.
Disable_Early(n) ==
  /\ agent[n] \in Releasing
  /\ data' = data \ {n} /\ GoTo(n, IF agent[n] = "stopData" THEN "idle" ELSE agent[n])
  /\ UNCHANGED <<old, mips, fileVars, netVars>>

Disable(n) ==
  /\ agent[n] = "stopData"
  /\ data' = data \ {n} /\ GoTo(n, "idle")
  /\ UNCHANGED <<old, mips, fileVars, netVars>>

-----------------------------------------------------------------------------
AgentStep(n) ==
  \/ SplitBrainSkip(n) \/ SplitBrainProbe(n) \/ Assemble(n) \/ SetMipAddrs(n)
  \/ UsetMipAddrs(n) \/ Disable(n)

NodeStep(n) ==
  \/ Boot(n) \/ OrderStandby(n) \/ OrderActive(n) \/ StopApp(n)
  \/ Fail(n) \/ FailoverStop(n) \/ Reset(n) \/ AdminLock(n) \/ AdminUnlock(n)

Next == BreakLink \/ RepairLink \/ \E n \in Node : AgentStep(n) \/ NodeStep(n)

Spec == Init /\ [][Next]_vars

-----------------------------------------------------------------------------
\* At most one node has /data mounted and at most one answers for the MIP
\* addresses, through partitions, failed takeovers, resets and locks, as long
\* as none of the circumstances of Admitted occurs (splitBrainAlgo()).
OneActive ==
  \A m, n \in Node :
    /\ m \in data /\ n \in data => m = n
    /\ m \in mips /\ n \in mips => m = n

\* In a partition the lock file goes only when no other node is active: the
\* memory of a split brain outlives any number of resets.
LockFileKept ==
  [][\A n \in Node :
       link = "broken" /\ n \in lock /\ n \notin lock' => Peers(n) \cap (data \cup mips) = {}]_vars

\* rolemngr.cpp: "If there is no response for either of the requests, then
\* there is no active node exist in the cluster."
NoResponseNoActive ==
  [][\A n \in Node :
       SplitBrainProbe(n) /\ agent'[n] = "assemble"
         => \A m \in Peers(n) : agent[m] \notin Engaged \ {"split"} /\ m \notin data]_vars

\* rolemngr.cpp: "It is safe to assume that, if the peer node is locked, we
\* are out of split brain condition and take the active role safely."
LockedPeerInactive ==
  [][\A n \in Node :
       SplitBrainSkip(n) /\ PeerNodeLockd(n) => Peers(n) \cap (data \cup mips) = {}]_vars

\* The cluster implements the abstract role: see ActiveRole.
Role == INSTANCE ActiveRole WITH owners <- data, addr <- mips

RoleSpec == Role!Spec

Has(n) == {r \in {"data", "mips"} : n \in IF r = "data" THEN data ELSE mips}

\* Each node of the pair as the agent that HaAgent implements: see NodeRole.
Member(n) == INSTANCE NodeRole WITH
               place <- agent[n], has <- Has(n),
               lock <- IF n \in lock THEN "present" ELSE "absent",
               old <- IF agent[n] \in {"idle", "standby", "split"} THEN old[n] ELSE "None"

\* The pair is composed of agents that make the moves of NodeRole and no
\* other: what HaCluster adds to them is AMF, the back-plane and the probe.
MembersSpec ==
  /\ \A n \in Node : Member(n)!Init
  /\ [][\A n \in Node : Member(n)!Next \/ UNCHANGED Member(n)!vars]_vars

=============================================================================
