--------------------------- MODULE RaidMgrProofs ---------------------------
(***************************************************************************)
(* Proofs about RaidMgr.                                                   *)
(***************************************************************************)
EXTENDS RaidMgrInv, TLAPS

\* The two nodes are each other's peer.
LEMMA Peers ==
  ASSUME NEW n \in Node
  PROVE  /\ Peer(n) \in Node /\ Peer(n) # n /\ Peer(Peer(n)) = n
         /\ \A m \in Node : m = n \/ m = Peer(n)
<1>1. PICK a \in Node, b \in Node : a # b /\ Node = {a, b}
  BY NodeAssumption
<1>2. \E m \in Node : m # n
  BY <1>1
<1>3. Peer(n) \in Node /\ Peer(n) # n
  BY <1>2 DEF Peer
<1>4. \A m \in Node : m = n \/ m = Peer(n)
  BY <1>1, <1>3
<1>5. \E m \in Node : m # Peer(n)
  BY <1>3
<1>6. Peer(Peer(n)) \in Node /\ Peer(Peer(n)) # Peer(n)
  BY <1>5 DEF Peer
<1> QED
  BY <1>3, <1>4, <1>6

Safe == RoleInv /\ RecoverInv /\ ActiveHasData

-----------------------------------------------------------------------------
(* Types                                                                     *)

LEMMA StepNames ==
  /\ {"off", "peer", "role", "test", "up", "last", "again", "mount", "active", "release", "disable",
      "secondary", "failed", "deact", "umount", "demote", "down"} \subseteq AgentSteps
  /\ {"none", "up", "ok", "fail", "deact", "umount", "demote", "down"} \subseteq RemoteSteps
  /\ {"off", "role", "ssh", "deact", "sshAct", "act", "cstate", "sync", "pdisk", "invalidate"} = RecSteps
BY DEF AgentSteps, RemoteSteps, RecSteps, DeactSteps

\* What raidmgr does to DRBD keeps its types, whoever runs it.
LEMMA DeactivateType ==
  ASSUME TypeOK, NEW n \in Node, NEW pc, NEW next, NEW done, NEW fail,
         Deactivate(n, pc, next, done, fail) \/ Activate(n, pc, next, done, fail)
  PROVE  /\ up' \in [Node -> BOOLEAN] /\ role' \in [Node -> {"Primary", "Secondary"}]
         /\ disk' = disk /\ link' \in {"Connected", "Sync", "Paused", "Apart"}
         /\ mounted' \in [Node -> BOOLEAN]
<1>1. CASE Deactivate(n, pc, next, done, fail)
  BY <1>1 DEF TypeOK, Deactivate, DrbdSecondary, DrbdDown, drbdVars
<1>2. CASE Activate(n, pc, next, done, fail)
  BY <1>2 DEF TypeOK, Activate, drbdVars
<1> QED
  BY <1>1, <1>2

LEMMA AgentType ==
  ASSUME TypeOK, NEW n \in Node, Assemble(n) \/ Unmount(n) \/ AgentStep(n)
  PROVE  TypeOK'
<1> USE DEF AgentGoto, drbdVars
<1>1. CASE Assemble(n) \/ Unmount(n) \/ AssemblePeer(n) \/ AssembleTest(n) \/ AssembleLast(n) \/ Disable(n)
  BY <1>1, StepNames DEF TypeOK, Assemble, Unmount, AssemblePeer, AssembleTest, AssembleLast, Disable
<1>2. CASE AssembleRole(n)
  BY <1>2, StepNames DEF TypeOK, AssembleRole, DrbdPrimary
<1>3. CASE AssembleRestart(n)
  <2>1. PICK next \in AgentSteps :
          /\ Deactivate(n, agent[n], next, "up", "failed") \/ Activate(n, agent[n], next, "again", "failed")
          /\ AgentGoto(n, next)
    BY <1>3 DEF AssembleRestart
  <2> QED
    BY <2>1, DeactivateType DEF TypeOK
<1>4. CASE Mount(n) \/ UnmountDone(n)
  BY <1>4, StepNames DEF TypeOK, Mount, UnmountDone
<1>5. CASE DisableSecondary(n)
  BY <1>5, StepNames DEF TypeOK, DisableSecondary, DrbdSecondary
<1> QED
  BY <1>1, <1>2, <1>3, <1>4, <1>5 DEF AgentStep

LEMMA RecType ==
  ASSUME TypeOK, NEW n \in Node, Recover(n) \/ RecStep(n) \/ RemoteStep(n) \/ RemoteOrphan(n)
  PROVE  TypeOK'
<1> USE Peers, StepNames DEF RecGoto, RemoteGoto, drbdVars
<1>1. CASE Recover(n) \/ RecoverRole(n) \/ RecoverCState(n) \/ RecoverPDisk(n)
  BY <1>1 DEF TypeOK, Recover, RecoverRole, RecoverCState, RecoverPDisk
<1>2. CASE RecoverSsh(n) \/ RecoverReply(n)
  BY <1>2 DEF TypeOK, RecoverSsh, RecoverReply
<1>3. CASE RecoverSync(n) \/ RecoverInvalidate(n)
  BY <1>3 DEF TypeOK, RecoverSync, RecoverInvalidate, DrbdInvalidate
<1>4. CASE RemoteStep(n)
  <2>1. PICK next \in RemoteSteps :
          /\ Deactivate(n, remote[n], next, "ok", "fail") \/ Activate(n, remote[n], next, "ok", "fail")
          /\ RemoteGoto(n, next)
    BY <1>4 DEF RemoteStep
  <2> QED
    BY <2>1, DeactivateType DEF TypeOK
<1>5. CASE RemoteOrphan(n)
  BY <1>5 DEF TypeOK, RemoteOrphan
<1> QED
  BY <1>1, <1>2, <1>3, <1>4, <1>5 DEF RecStep

LEMMA EnvType ==
  ASSUME TypeOK, NEW n \in Node, Reset(n) \/ Boot(n) \/ Drbd
  PROVE  TypeOK'
<1>1. CASE Reset(n)
  BY <1>1, Peers, StepNames DEF TypeOK, Reset
<1>2. CASE Boot(n)
  BY <1>2 DEF TypeOK, Boot
<1>3. CASE Drbd
  BY <1>3, Peers DEF TypeOK, Drbd, Joined
<1> QED
  BY <1>1, <1>2, <1>3

-----------------------------------------------------------------------------
(* The commands over ssh                                                     *)

\* What runs on the peer goes on to a later step of the same command.
LEMMA RemoteNext ==
  ASSUME TypeOK, NEW n \in Node, RemoteStep(n)
  PROVE  \E next \in RemoteSteps :
           /\ remote' = [remote EXCEPT ![n] = next] /\ UNCHANGED rec
           /\ \/ remote[n] = "deact" /\ next \in {"ok", "umount", "down"}
              \/ remote[n] = "umount" /\ next \in {"demote", "fail"}
              \/ remote[n] = "demote" /\ next \in {"down", "fail"}
              \/ remote[n] \in {"down", "up"} /\ next \in {"ok", "fail"}
BY DEF RemoteStep, RemoteGoto, Deactivate, Activate

\* What a recovery does to itself and to the command on the peer.
LEMMA RecNext ==
  ASSUME TypeOK, NEW n \in Node, RecStep(n)
  PROVE  \E next \in RecSteps, answer \in RemoteSteps :
           /\ rec' = [rec EXCEPT ![n] = next]
           /\ remote' = [remote EXCEPT ![Peer(n)] = answer]
           /\ \/ answer = remote[Peer(n)] /\ next \notin {"deact", "act"}
                 /\ \/ next = "off" /\ rec[n] # "off"
                    \/ rec[n] = "role" /\ next = "ssh"
                    \/ rec[n] = "cstate" /\ next \in {"sync", "pdisk"}
                    \/ rec[n] = "pdisk" /\ next = "invalidate"
              \/ /\ remote[Peer(n)] = "none"
                 /\ \/ rec[n] = "ssh" /\ next = "deact" /\ answer = "deact"
                    \/ rec[n] = "sshAct" /\ next = "act" /\ answer = "up"
              \/ /\ remote[Peer(n)] \in {"ok", "fail"} /\ answer = "none"
                 /\ \/ rec[n] = "deact" /\ next \in {"sshAct", "off"}
                    \/ rec[n] = "act" /\ next \in {"cstate", "off"}
<1> USE Peers, StepNames DEF RecGoto
<1>1. remote[Peer(n)] \in RemoteSteps /\ remote = [remote EXCEPT ![Peer(n)] = remote[Peer(n)]]
  BY DEF TypeOK
<1>2. CASE RecoverSsh(n)
  BY <1>1, <1>2 DEF RecoverSsh
<1>3. CASE RecoverReply(n)
  BY <1>1, <1>3 DEF RecoverReply
<1>4. CASE RecoverRole(n) \/ RecoverCState(n) \/ RecoverSync(n) \/ RecoverPDisk(n) \/ RecoverInvalidate(n)
  BY <1>1, <1>4 DEF RecoverRole, RecoverCState, RecoverSync, RecoverPDisk, RecoverInvalidate
<1> QED
  BY <1>2, <1>3, <1>4 DEF RecStep

\* Nobody else touches the two.
LEMMA Untouched ==
  ASSUME NEW n \in Node, Drbd \/ Assemble(n) \/ Unmount(n) \/ AgentStep(n) \/ Boot(n)
  PROVE  UNCHANGED <<rec, remote>>
BY DEF Drbd, Assemble, Unmount, AgentStep, Boot, AgentGoto, AssemblePeer, AssembleRole, AssembleTest,
       AssembleRestart, AssembleLast, Mount, UnmountDone, Disable, DisableSecondary

LEMMA AnswerNext ==
  ASSUME TypeOK, AnswerInv, Next
  PROVE  AnswerInv'
<1> USE Peers DEF DeactSteps
<1>1. PICK n \in Node :
        \/ Drbd \/ Assemble(n) \/ Unmount(n) \/ AgentStep(n) \/ Boot(n)
        \/ Recover(n) \/ RecStep(n) \/ RemoteStep(n) \/ RemoteOrphan(n) \/ Reset(n)
  BY NodeAssumption DEF Next
<1>2. CASE Drbd \/ Assemble(n) \/ Unmount(n) \/ AgentStep(n) \/ Boot(n)
  BY <1>2, Untouched DEF AnswerInv
<1>3. CASE Recover(n)
  BY <1>3 DEF Recover, RecGoto, TypeOK, AnswerInv
<1>4. CASE RecStep(n)
  BY <1>4, RecNext DEF TypeOK, AnswerInv
<1>5. CASE RemoteStep(n)
  BY <1>5, RemoteNext DEF TypeOK, AnswerInv
<1>6. CASE RemoteOrphan(n)
  BY <1>6 DEF RemoteOrphan, RemoteGoto, TypeOK, AnswerInv
<1>7. CASE Reset(n)
  BY <1>7 DEF Reset, TypeOK, AnswerInv
<1> QED
  BY <1>1, <1>2, <1>3, <1>4, <1>5, <1>6, <1>7

\* No step takes a recovery, or what runs for it, back.
LEMMA AdvanceNext ==
  ASSUME TypeOK, Next, NEW m \in Node
  PROVE  /\ rec[m] # "off" /\ rec'[m] # rec[m] => RecRank[rec'[m]] > RecRank[rec[m]]
         /\ remote[m] # "none" /\ remote'[m] # remote[m] =>
              RemoteRank[remote'[m]] > RemoteRank[remote[m]]
<1> USE Peers
<1>1. PICK n \in Node :
        \/ Drbd \/ Assemble(n) \/ Unmount(n) \/ AgentStep(n) \/ Boot(n)
        \/ Recover(n) \/ RecStep(n) \/ RemoteStep(n) \/ RemoteOrphan(n) \/ Reset(n)
  BY NodeAssumption DEF Next
<1>2. CASE Drbd \/ Assemble(n) \/ Unmount(n) \/ AgentStep(n) \/ Boot(n)
  BY <1>2, Untouched
<1>3. CASE Recover(n)
  BY <1>3 DEF Recover, RecGoto, TypeOK
<1>4. CASE RecStep(n)
  <2>1. rec[m] # "off" /\ rec'[m] # rec[m] => RecRank[rec'[m]] > RecRank[rec[m]]
    <3>1. CASE m = n
      <4>1. rec[n] \in RecSteps
        BY DEF TypeOK
      <4> QED
        BY <1>4, <3>1, <4>1, RecNext DEF TypeOK, RecRank, RecSteps
    <3>2. CASE m # n
      BY <1>4, <3>2, RecNext DEF TypeOK
    <3> QED
      BY <3>1, <3>2
  <2>2. remote[m] # "none" /\ remote'[m] # remote[m] => RemoteRank[remote'[m]] > RemoteRank[remote[m]]
    <3>1. remote'[m] = remote[m] \/ remote[m] = "none" \/ (remote[m] \in {"ok", "fail"} /\ remote'[m] = "none")
      BY <1>4, RecNext DEF TypeOK
    <3> QED
      BY <3>1 DEF RemoteRank
  <2> QED
    BY <2>1, <2>2
<1>5. CASE RemoteStep(n)
  BY <1>5, RemoteNext DEF TypeOK, RemoteRank
<1>6. CASE RemoteOrphan(n)
  BY <1>6 DEF RemoteOrphan, RemoteGoto, TypeOK, RemoteRank
<1>7. CASE Reset(n)
  <2>1. rec'[m] = rec[m] \/ rec'[m] = "off"
    BY <1>7 DEF Reset, TypeOK
  <2>2. remote'[m] = remote[m] \/ remote'[m] = "none"
    BY <1>7 DEF Reset, TypeOK
  <2>3. rec[m] \in RecSteps /\ remote[m] \in RemoteSteps
    BY DEF TypeOK
  <2> QED
    BY <2>1, <2>2, <2>3 DEF RecRank, RemoteRank, RecSteps, RemoteSteps, DeactSteps
<1> QED
  BY <1>1, <1>2, <1>3, <1>4, <1>5, <1>6, <1>7

-----------------------------------------------------------------------------
(* Safety                                                                    *)

\* What the invariant says of one node and its agent.
Own(n) ==
  /\ role[n] = "Primary" => agent[n] # "off" /\ up[n]
  /\ mounted[n] => role[n] = "Primary"
  /\ agent[n] = "active" => role[n] = "Primary" /\ mounted[n]

\* The invariant in parts.
LEMMA Parts ==
  Safe <=> /\ \A n \in Node : Own(n) /\ (agent[n] # "off" => agent[Peer(n)] = "off")
           /\ RecoverInv
BY DEF Safe, RoleInv, ActiveHasData, Own, IsPrimary

\* When nobody recovers, that is all.
LEMMA QuietSafe ==
  ASSUME NEW n \in Node, Quiet, agent[Peer(n)] = "off", Own(n), Own(Peer(n))
  PROVE  Safe
<1>1. \A m \in Node : Own(m)
  BY Peers
<1>2. \A m \in Node : agent[m] # "off" => agent[Peer(m)] = "off"
  BY Peers
<1>3. RecoverInv
  BY DEF Quiet, RecoverInv
<1> QED
  BY <1>1, <1>2, <1>3, Parts

\* The agent works on its own node.
LEMMA AgentLocal ==
  ASSUME TypeOK, NEW n \in Node, Assemble(n) \/ Unmount(n) \/ AgentStep(n)
  PROVE  /\ UNCHANGED <<rec, remote>>
         /\ \A m \in Node \ {n} : /\ agent'[m] = agent[m] /\ role'[m] = role[m]
                                  /\ up'[m] = up[m] /\ mounted'[m] = mounted[m]
<1> USE DEF AgentGoto, drbdVars, TypeOK
<1>1. CASE Assemble(n) \/ Unmount(n) \/ AssemblePeer(n) \/ AssembleTest(n) \/ AssembleLast(n) \/ Disable(n)
  BY <1>1 DEF Assemble, Unmount, AssemblePeer, AssembleTest, AssembleLast, Disable
<1>2. CASE AssembleRole(n)
  BY <1>2 DEF AssembleRole, DrbdPrimary
<1>3. CASE AssembleRestart(n)
  BY <1>3 DEF AssembleRestart, Deactivate, Activate, DrbdSecondary, DrbdDown
<1>4. CASE Mount(n) \/ UnmountDone(n) \/ DisableSecondary(n)
  BY <1>4 DEF Mount, UnmountDone, DisableSecondary, DrbdSecondary
<1> QED
  BY <1>1, <1>2, <1>3, <1>4 DEF AgentStep

\* A node whose agent runs raidmgr is Primary only as long as the agent knows.
LEMMA AgentOwn ==
  ASSUME TypeOK, NEW n \in Node, Own(n), Assemble(n) \/ Unmount(n) \/ AgentStep(n)
  PROVE  Own(n)'
<1> USE DEF AgentGoto, drbdVars, TypeOK, Own, IsPrimary
<1>1. CASE Assemble(n) \/ Unmount(n) \/ AssemblePeer(n) \/ AssembleTest(n) \/ AssembleLast(n) \/ Disable(n)
  BY <1>1 DEF Assemble, Unmount, AssemblePeer, AssembleTest, AssembleLast, Disable
<1>2. CASE AssembleRole(n)
  BY <1>2 DEF AssembleRole, DrbdPrimary
<1>3. CASE AssembleRestart(n)
  <2>1. PICK next \in AgentSteps :
          /\ Deactivate(n, agent[n], next, "up", "failed") \/ Activate(n, agent[n], next, "again", "failed")
          /\ AgentGoto(n, next)
    BY <1>3 DEF AssembleRestart
  <2>2. CASE Deactivate(n, agent[n], next, "up", "failed")
    BY <2>1, <2>2 DEF Deactivate, DrbdSecondary, DrbdDown
  <2>3. CASE Activate(n, agent[n], next, "again", "failed")
    BY <2>1, <2>3 DEF Activate
  <2> QED
    BY <2>1, <2>2, <2>3
<1>4. CASE Mount(n)
  BY <1>4 DEF Mount
<1>5. CASE UnmountDone(n)
  BY <1>5 DEF UnmountDone
<1>6. CASE DisableSecondary(n)
  BY <1>6 DEF DisableSecondary, DrbdSecondary
<1> QED
  BY <1>1, <1>2, <1>3, <1>4, <1>5, <1>6 DEF AgentStep

\* The agent moves the role only when nobody recovers.
LEMMA AgentSafe ==
  ASSUME TypeOK, Safe, "failover" \notin Admitted, NEW n \in Node,
         Assemble(n) \/ Unmount(n) \/ AgentStep(n)
  PROVE  Safe'
<1>1. Quiet /\ agent[Peer(n)] = "off"
  <2>1. CASE Assemble(n) \/ Unmount(n)
    BY <2>1, Parts DEF Assemble, Unmount, MayMove
  <2>2. CASE AgentStep(n)
    <3>1. agent[n] \notin {"off", "active"}
      BY <2>2 DEF AgentStep, AssemblePeer, AssembleRole, AssembleTest, AssembleRestart, AssembleLast,
                  Mount, UnmountDone, Disable, DisableSecondary, Deactivate, Activate
    <3>2. ~Resting
      BY <3>1 DEF Resting
    <3> QED
      BY <3>1, <3>2, Parts DEF RecoverInv, Quiet
  <2> QED
    BY <2>1, <2>2
<1>2. Own(n)' /\ Own(Peer(n))'
  <2>1. Own(n) /\ Own(Peer(n))
    BY Parts, Peers
  <2>2. Own(n)'
    BY <2>1, AgentOwn
  <2> QED
    BY <2>1, <2>2, AgentLocal, Peers DEF Own
<1>3. Quiet' /\ agent'[Peer(n)] = "off"
  BY <1>1, AgentLocal, Peers DEF Quiet
<1>4. n \in Node /\ Quiet' /\ (agent[Peer(n)] = "off")' /\ Own(n)' /\ Own(Peer(n))' => Safe'
  BY QuietSafe, PTL
<1> QED
  BY <1>1, <1>2, <1>3, <1>4

\* A recovery works from the active node on the other one.
LEMMA RecSafe ==
  ASSUME TypeOK, Safe, "failover" \notin Admitted, NEW n \in Node,
         Recover(n) \/ RecStep(n) \/ RemoteOrphan(n)
  PROVE  Safe'
<1> USE Peers DEF RecGoto, RemoteGoto, drbdVars
<1>1. UNCHANGED <<agent, role, up, mounted>>
  BY DEF Recover, RecStep, RecoverRole, RecoverSsh, RecoverReply, RecoverCState, RecoverSync,
         RecoverPDisk, RecoverInvalidate, DrbdInvalidate, RemoteOrphan
<1>2. \A m \in Node : Own(m)' /\ (agent'[m] # "off" => agent'[Peer(m)] = "off")
  BY <1>1, Parts DEF Own
<1>3. Resting
  BY Parts DEF Recover, RecStep, RecoverRole, RecoverSsh, RecoverReply, RecoverCState, RecoverSync,
               RecoverPDisk, RecoverInvalidate, RemoteOrphan, RecoverInv
<1>4. Resting'
  BY <1>1, <1>3 DEF Resting
<1>5. RecoverInv'
  <2> USE DEF TypeOK, RecoverInv
  <2>0. RecoverInv /\ \A m \in Node : Own(m) /\ (agent[m] # "off" => agent[Peer(m)] = "off")
    BY Parts
  <2>1. CASE Recover(n)
    BY <1>1, <1>4, <2>0, <2>1 DEF Recover, IsUpToDate
  <2>2. CASE RecoverRole(n)
    BY <1>1, <1>3, <1>4, <2>0, <2>2 DEF RecoverRole, IsUpToDate, IsPrimary, Own, Resting
  <2>3. CASE RecoverSsh(n)
    BY <1>1, <1>4, <2>0, <2>3 DEF RecoverSsh, IsUpToDate
  <2>4. CASE RecoverReply(n)
    BY <1>1, <1>4, <2>0, <2>4 DEF RecoverReply, IsUpToDate
  <2>5. CASE RecoverCState(n) \/ RecoverPDisk(n)
    BY <1>1, <1>4, <2>0, <2>5 DEF RecoverCState, RecoverPDisk, IsUpToDate
  <2>6. CASE RecoverSync(n)
    BY <1>1, <1>4, <2>0, <2>6 DEF RecoverSync, IsUpToDate
  <2>7. CASE RecoverInvalidate(n)
    <3>1. \A m \in Node : rec'[m] # "off" /\ agent[m] = "active" => m # n /\ FALSE
      BY <2>0, <2>7 DEF RecoverInvalidate
    <3> QED
      BY <1>1, <1>4, <2>0, <2>7, <3>1 DEF RecoverInvalidate
  <2>8. CASE RemoteOrphan(n)
    BY <1>1, <1>4, <2>0, <2>8 DEF RemoteOrphan, IsUpToDate
  <2> QED
    BY <2>1, <2>2, <2>3, <2>4, <2>5, <2>6, <2>7, <2>8 DEF RecStep
<1> QED
  BY <1>2, <1>5 DEF Safe, RoleInv, ActiveHasData, Own, IsPrimary

\* The command on the peer works on a node without a role.
LEMMA RemoteSafe ==
  ASSUME TypeOK, Safe, NEW n \in Node, RemoteStep(n)
  PROVE  Safe'
<1>1. PICK next \in RemoteSteps :
        /\ Deactivate(n, remote[n], next, "ok", "fail") \/ Activate(n, remote[n], next, "ok", "fail")
        /\ RemoteGoto(n, next)
  BY DEF RemoteStep
<1>2. remote[n] # "none" /\ UNCHANGED <<agent, rec, disk>> /\ remote' = [remote EXCEPT ![n] = next]
  BY <1>1 DEF Deactivate, Activate, RemoteGoto, DrbdSecondary, DrbdDown, drbdVars
<1>3. agent[n] = "off" /\ Resting /\ Own(n) /\ RecoverInv
  BY <1>2, Parts DEF RecoverInv
<1>4. role'[n] = "Secondary" /\ ~mounted'[n]
  <2>1. role[n] = "Secondary" /\ ~mounted[n]
    BY <1>3 DEF Own, TypeOK
  <2>2. CASE Deactivate(n, remote[n], next, "ok", "fail")
    BY <2>1, <2>2 DEF Deactivate, DrbdSecondary, DrbdDown, drbdVars, TypeOK
  <2>3. CASE Activate(n, remote[n], next, "ok", "fail")
    BY <2>1, <2>3 DEF Activate, drbdVars, TypeOK
  <2> QED
    BY <1>1, <2>2, <2>3
<1>5. \A m \in Node \ {n} : role'[m] = role[m] /\ up'[m] = up[m] /\ mounted'[m] = mounted[m]
  BY <1>1 DEF Deactivate, Activate, DrbdSecondary, DrbdDown, drbdVars, TypeOK
<1>6. \A m \in Node : Own(m)' /\ (agent'[m] # "off" => agent'[Peer(m)] = "off")
  BY <1>2, <1>3, <1>4, <1>5, Parts DEF Own
<1>7. RecoverInv'
  BY <1>2, <1>3, <1>5 DEF RecoverInv, Resting, IsUpToDate, TypeOK
<1> QED
  BY <1>6, <1>7 DEF Safe, RoleInv, ActiveHasData, Own, IsPrimary

\* Resets, boots and what DRBD does by itself.
LEMMA EnvSafe ==
  ASSUME TypeOK, Safe, NEW n \in Node, Reset(n) \/ Boot(n) \/ Drbd
  PROVE  Safe'
<1>0. RecoverInv /\ \A m \in Node : Own(m) /\ (agent[m] # "off" => agent[Peer(m)] = "off")
  BY Parts
<1>1. \A m \in Node : Own(m)' /\ (agent'[m] # "off" => agent'[Peer(m)] = "off")
  BY <1>0, Peers DEF Reset, Boot, Drbd, Own, TypeOK
<1>2. RecoverInv'
  <2>1. CASE Reset(n)
    <3>1. /\ agent' = [agent EXCEPT ![n] = "off"] /\ remote' = [remote EXCEPT ![n] = "none"]
          /\ disk' = disk /\ up' = [up EXCEPT ![n] = FALSE]
          /\ rec'[n] = "off" /\ rec'[Peer(n)] \in {"off", rec[Peer(n)]}
      BY <2>1, Peers DEF Reset, TypeOK
    <3>2. Resting => Resting'
      BY <3>1 DEF Resting, TypeOK
    <3> QED
      BY <1>0, <3>1, <3>2, Peers DEF RecoverInv, IsUpToDate, TypeOK
  <2>2. CASE Boot(n)
    BY <1>0, <2>2 DEF Boot, RecoverInv, Resting, IsUpToDate, TypeOK
  <2>3. CASE Drbd
    <3>1. \A m \in Node : role[m] = "Primary" /\ disk[m] = "UpToDate" => disk'[m] = "UpToDate"
      BY <2>3 DEF Drbd, TypeOK
    <3> QED
      BY <1>0, <2>3, <3>1 DEF Drbd, RecoverInv, Resting, IsUpToDate, Own
  <2> QED
    BY <2>1, <2>2, <2>3
<1> QED
  BY <1>1, <1>2 DEF Safe, RoleInv, ActiveHasData, Own, IsPrimary

-----------------------------------------------------------------------------
(* The theorems                                                              *)

\* The inductive invariant holds in every reachable state (do_assemble(),
\* do_disable(), do_recover()).
THEOREM Inductive == Spec => []IInv
<1>1. Init => IInv
  <2> SUFFICES ASSUME Init PROVE IInv
    OBVIOUS
  <2>1. TypeOK
    BY StepNames DEF Init, TypeOK
  <2>2. Safe
    BY Peers DEF Init, Safe, RoleInv, RecoverInv, ActiveHasData
  <2>3. AnswerInv
    BY Peers DEF Init, AnswerInv
  <2> QED
    BY <2>1, <2>2, <2>3 DEF IInv, Safe
<1>2. IInv /\ [Next]_vars => IInv'
  <2> SUFFICES ASSUME IInv, [Next]_vars PROVE IInv'
    OBVIOUS
  <2>1. CASE Next
    <3>1. TypeOK'
      BY <2>1, AgentType, RecType, EnvType, NodeAssumption DEF Next, IInv
    <3>2. ASSUME "failover" \notin Admitted PROVE Safe'
      BY <2>1, <3>2, AgentSafe, RecSafe, RemoteSafe, EnvSafe, NodeAssumption DEF Next, IInv, Safe
    <3>3. AnswerInv'
      BY <2>1, AnswerNext DEF IInv
    <3> QED
      BY <3>1, <3>2, <3>3 DEF IInv, Safe
  <2>2. CASE UNCHANGED vars
    BY <2>2 DEF vars, drbdVars, IInv, TypeOK, AnswerInv, RoleInv, RecoverInv, ActiveHasData, Resting, IsPrimary, IsUpToDate
  <2> QED
    BY <2>1, <2>2
<1> QED
  BY <1>1, <1>2, PTL DEF Spec

\* The types of the state, whatever is admitted.
THEOREM Types == Spec => []TypeOK
<1>1. IInv => TypeOK
  BY DEF IInv
<1> QED
  BY <1>1, Inductive, PTL

\* The answer that a recovery gets over ssh is that of its own command, even if
\* the role moves and nodes are reset (do_recover()).
THEOREM OwnAnswer == Spec => []AnswerInv
<1>1. IInv => AnswerInv
  BY DEF IInv
<1> QED
  BY <1>1, Inductive, PTL

\* Neither a recovery nor its command on the peer ever repeats a step
\* (do_recover(), do_deactivate(), do_activate()).
THEOREM Advances == Spec => RecoveryAdvances
<1> DEFINE Adv == \A n \in Node :
             /\ rec[n] # "off" /\ rec'[n] # rec[n] => RecRank[rec'[n]] > RecRank[rec[n]]
             /\ remote[n] # "none" /\ remote'[n] # remote[n] =>
                  RemoteRank[remote'[n]] > RemoteRank[remote[n]]
<1>1. TypeOK /\ [Next]_vars => [Adv]_vars
  BY AdvanceNext
<1> QED
  BY <1>1, Types, PTL DEF Spec, RecoveryAdvances

\* As long as the role does not move during a recovery, no recovery takes the
\* data from the active node, nor does one that outlives its node
\* (do_recover(), do_deactivate()).
THEOREM DataKept == "failover" \notin Admitted => (Spec => []ActiveHasData)
<1> SUFFICES ASSUME "failover" \notin Admitted PROVE Spec => []ActiveHasData
  OBVIOUS
<1>1. IInv => ActiveHasData
  BY DEF IInv
<1> QED
  BY <1>1, Inductive, PTL

\* Nor is the peer taken down unless a good copy is in use here (do_recover()).
THEOREM ByPrimary == "failover" \notin Admitted => (Spec => []RecoveryByPrimary)
<1> SUFFICES ASSUME "failover" \notin Admitted PROVE Spec => []RecoveryByPrimary
  OBVIOUS
<1>1. IInv => RecoveryByPrimary
  BY DEF IInv, RecoverInv, ActiveHasData, RecoveryByPrimary
<1> QED
  BY <1>1, Inductive, PTL

=============================================================================
