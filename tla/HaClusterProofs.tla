--------------------------- MODULE HaClusterProofs ---------------------------
(***************************************************************************)
(* What the pair guarantees, for any set of nodes: each part of the        *)
(* invariant under the circumstances it depends on, that the role has one  *)
(* owner when none of them may occur, and the two refinements.             *)
(***************************************************************************)
EXTENDS HaClusterInv, TLAPS

\* The initial state satisfies the invariant.
LEMMA InitInv == Init => IInv
  BY DEF Init, IInv, TypeOK, PhaseInv, ExclusiveInv, Busy, TakingInv, LockSkipInv, ColdSkipInv,
         LockFileInv, LockedInv, Engaged, Taking, Releasing

\* Every variable keeps its type.
LEMMA TypeStep ==
  ASSUME TypeOK, [Next]_vars
  PROVE  TypeOK'
  <1> USE DEF TypeOK, GoTo, roleVars, fileVars, netVars, Engaged, Taking,
              Releasing
  <1>1. CASE UNCHANGED vars
    BY <1>1 DEF vars
  <1>2. CASE BreakLink
    BY <1>2 DEF BreakLink
  <1>3. CASE RepairLink
    BY <1>3 DEF RepairLink
  <1>4. ASSUME NEW n \in Node, AgentStep(n) \/ NodeStep(n) PROVE TypeOK'
    <2>1. CASE SplitBrainSkip(n)
      BY <2>1 DEF SplitBrainSkip, TakeRole, RMLFile
    <2>2. CASE SplitBrainProbe(n)
      BY <2>2 DEF SplitBrainProbe, TakeRole, SplitBrainDetected, RMLFile, MipAnswers
    <2>3. CASE Assemble(n)
      BY <2>3 DEF Assemble
    <2>4. CASE SetMipAddrs(n)
      BY <2>4 DEF SetMipAddrs
    <2>5. CASE UsetMipAddrs(n)
      BY <2>5 DEF UsetMipAddrs
    <2>6. CASE Disable(n)
      BY <2>6 DEF Disable
    <2>7. CASE Boot(n)
      BY <2>7 DEF Boot
    <2>8. CASE OrderStandby(n)
      BY <2>8 DEF OrderStandby, RMLFile
    <2>9. CASE OrderActive(n)
      BY <2>9 DEF OrderActive, AmfGivesRole, Settled
    <2>10. CASE StopApp(n)
      BY <2>10 DEF StopApp, ReleaseAlone
    <2>11. CASE Fail(n)
      BY <2>11 DEF Fail
    <2>12. CASE FailoverStop(n)
      BY <2>12 DEF FailoverStop, ReleaseAlone
    <2>13. CASE Reset(n)
      BY <2>13 DEF Reset
    <2>14. CASE AdminLock(n)
      BY <2>14 DEF AdminLock, Stable
    <2>15. CASE AdminUnlock(n)
      BY <2>15 DEF AdminUnlock, Stable
    <2> QED BY <1>4, <2>1, <2>2, <2>3, <2>4, <2>5, <2>6, <2>7, <2>8, <2>9, <2>10,
              <2>11, <2>12, <2>13, <2>14, <2>15, Zenon
           DEF AgentStep, NodeStep
  <1> QED BY <1>1, <1>2, <1>3, <1>4, Zenon DEF Next

\* An agent's place says what its node has, whatever circumstances are admitted.
LEMMA PhaseStep ==
  ASSUME TypeOK, PhaseInv, [Next]_vars
  PROVE  PhaseInv'
  <1> USE DEF TypeOK, PhaseInv, GoTo, roleVars, fileVars, netVars, Engaged, Taking,
              Releasing
  <1>1. CASE UNCHANGED vars
    BY <1>1 DEF vars
  <1>2. CASE BreakLink
    BY <1>2 DEF BreakLink
  <1>3. CASE RepairLink
    BY <1>3 DEF RepairLink
  <1>4. ASSUME NEW n \in Node, AgentStep(n) \/ NodeStep(n) PROVE PhaseInv'
    <2>1. CASE SplitBrainSkip(n)
      BY <2>1 DEF SplitBrainSkip, TakeRole, RMLFile
    <2>2. CASE SplitBrainProbe(n)
      BY <2>2 DEF SplitBrainProbe, TakeRole, SplitBrainDetected, RMLFile, MipAnswers
    <2>3. CASE Assemble(n)
      BY <2>3 DEF Assemble
    <2>4. CASE SetMipAddrs(n)
      BY <2>4 DEF SetMipAddrs
    <2>5. CASE UsetMipAddrs(n)
      BY <2>5 DEF UsetMipAddrs
    <2>6. CASE Disable(n)
      BY <2>6 DEF Disable
    <2>7. CASE Boot(n)
      BY <2>7 DEF Boot
    <2>8. CASE OrderStandby(n)
      BY <2>8 DEF OrderStandby, RMLFile
    <2>9. CASE OrderActive(n)
      BY <2>9 DEF OrderActive, AmfGivesRole, Settled
    <2>10. CASE StopApp(n)
      BY <2>10 DEF StopApp, ReleaseAlone
    <2>11. CASE Fail(n)
      BY <2>11 DEF Fail
    <2>12. CASE FailoverStop(n)
      BY <2>12 DEF FailoverStop, ReleaseAlone
    <2>13. CASE Reset(n)
      BY <2>13 DEF Reset
    <2>14. CASE AdminLock(n)
      BY <2>14 DEF AdminLock, Stable
    <2>15. CASE AdminUnlock(n)
      BY <2>15 DEF AdminUnlock, Stable
    <2> QED BY <1>4, <2>1, <2>2, <2>3, <2>4, <2>5, <2>6, <2>7, <2>8, <2>9, <2>10,
              <2>11, <2>12, <2>13, <2>14, <2>15, Zenon
           DEF AgentStep, NodeStep
  <1> QED BY <1>1, <1>2, <1>3, <1>4, Zenon DEF Next

\* Takeovers do not overlap if AMF and failing nodes do not make them.
LEMMA TakingStep ==
  ASSUME "overlap" \notin Admitted, TypeOK, PhaseInv, TakingInv, [Next]_vars
  PROVE  TakingInv'
  <1> USE DEF TypeOK, PhaseInv, TakingInv, Peers, GoTo, roleVars, fileVars, netVars, Engaged, Taking,
              Releasing
  <1>1. CASE UNCHANGED vars
    BY <1>1 DEF vars
  <1>2. CASE BreakLink
    BY <1>2 DEF BreakLink
  <1>3. CASE RepairLink
    BY <1>3 DEF RepairLink
  <1>4. ASSUME NEW n \in Node, AgentStep(n) \/ NodeStep(n) PROVE TakingInv'
    <2>1. CASE SplitBrainSkip(n)
      BY <2>1 DEF SplitBrainSkip, TakeRole, RMLFile
    <2>2. CASE SplitBrainProbe(n)
      BY <2>2 DEF SplitBrainProbe, TakeRole, SplitBrainDetected, RMLFile, MipAnswers
    <2>3. CASE Assemble(n)
      BY <2>3 DEF Assemble
    <2>4. CASE SetMipAddrs(n)
      BY <2>4 DEF SetMipAddrs
    <2>5. CASE UsetMipAddrs(n)
      BY <2>5 DEF UsetMipAddrs
    <2>6. CASE Disable(n)
      BY <2>6 DEF Disable
    <2>7. CASE Boot(n)
      BY <2>7 DEF Boot
    <2>8. CASE OrderStandby(n)
      BY <2>8 DEF OrderStandby, RMLFile
    <2>9. CASE OrderActive(n)
      BY <2>9 DEF OrderActive, AmfGivesRole, Settled
    <2>10. CASE StopApp(n)
      BY <2>10 DEF StopApp, ReleaseAlone
    <2>11. CASE Fail(n)
      BY <2>11 DEF Fail
    <2>12. CASE FailoverStop(n)
      BY <2>12 DEF FailoverStop, ReleaseAlone
    <2>13. CASE Reset(n)
      BY <2>13 DEF Reset
    <2>14. CASE AdminLock(n)
      BY <2>14 DEF AdminLock, Stable
    <2>15. CASE AdminUnlock(n)
      BY <2>15 DEF AdminUnlock, Stable
    <2> QED BY <1>4, <2>1, <2>2, <2>3, <2>4, <2>5, <2>6, <2>7, <2>8, <2>9, <2>10,
              <2>11, <2>12, <2>13, <2>14, <2>15, Zenon
           DEF AgentStep, NodeStep
  <1> QED BY <1>1, <1>2, <1>3, <1>4, Zenon DEF Next

\* A locked node stays out of the role if no partition begins before it has
\* given the role up.
LEMMA LockedStep ==
  ASSUME "lockRace" \notin Admitted, TypeOK, PhaseInv, LockedInv, LockSkipInv, [Next]_vars
  PROVE  LockedInv' /\ LockSkipInv'
  <1> USE DEF TypeOK, PhaseInv, LockedInv, LockSkipInv, PeerNodeLockd, Peers,
              GoTo, roleVars, fileVars, netVars, Engaged, Taking,
              Releasing
  <1>1. CASE UNCHANGED vars
    BY <1>1 DEF vars
  <1>2. CASE BreakLink
    BY <1>2 DEF BreakLink
  <1>3. CASE RepairLink
    BY <1>3 DEF RepairLink
  <1>4. ASSUME NEW n \in Node, AgentStep(n) \/ NodeStep(n) PROVE LockedInv' /\ LockSkipInv'
    <2>1. CASE SplitBrainSkip(n)
      BY <2>1 DEF SplitBrainSkip, TakeRole, RMLFile
    <2>2. CASE SplitBrainProbe(n)
      BY <2>2 DEF SplitBrainProbe, TakeRole, SplitBrainDetected, RMLFile, MipAnswers
    <2>3. CASE Assemble(n)
      BY <2>3 DEF Assemble
    <2>4. CASE SetMipAddrs(n)
      BY <2>4 DEF SetMipAddrs
    <2>5. CASE UsetMipAddrs(n)
      BY <2>5 DEF UsetMipAddrs
    <2>6. CASE Disable(n)
      BY <2>6 DEF Disable
    <2>7. CASE Boot(n)
      BY <2>7 DEF Boot
    <2>8. CASE OrderStandby(n)
      BY <2>8 DEF OrderStandby, RMLFile
    <2>9. CASE OrderActive(n)
      BY <2>9 DEF OrderActive, AmfGivesRole, Settled
    <2>10. CASE StopApp(n)
      BY <2>10 DEF StopApp, ReleaseAlone
    <2>11. CASE Fail(n)
      BY <2>11 DEF Fail
    <2>12. CASE FailoverStop(n)
      BY <2>12 DEF FailoverStop, ReleaseAlone
    <2>13. CASE Reset(n)
      BY <2>13 DEF Reset
    <2>14. CASE AdminLock(n)
      BY <2>14 DEF AdminLock, Stable
    <2>15. CASE AdminUnlock(n)
      BY <2>15 DEF AdminUnlock, Stable
    <2> QED BY <1>4, <2>1, <2>2, <2>3, <2>4, <2>5, <2>6, <2>7, <2>8, <2>9, <2>10,
              <2>11, <2>12, <2>13, <2>14, <2>15, Zenon
           DEF AgentStep, NodeStep
  <1> QED BY <1>1, <1>2, <1>3, <1>4, Zenon DEF Next

\* The rest of the invariant: one node is alone with the disk.
LEMMA ExclusiveStep ==
  ASSUME Admitted = {}, IInv, [Next]_vars
  PROVE  ExclusiveInv' /\ ColdSkipInv' /\ LockFileInv'
  <1> USE DEF IInv, TypeOK, PhaseInv, ExclusiveInv, Busy, TakingInv, LockSkipInv, ColdSkipInv,
              LockFileInv, LockedInv, PeerNodeLockd, ProbeDue, Peers, GoTo, roleVars, fileVars, netVars, Engaged, Taking,
              Releasing
  <1>1. CASE UNCHANGED vars
    BY <1>1 DEF vars
  <1>2. CASE BreakLink
    BY <1>2 DEF BreakLink
  <1>3. CASE RepairLink
    BY <1>3 DEF RepairLink
  <1>4. ASSUME NEW n \in Node, AgentStep(n) \/ NodeStep(n) PROVE ExclusiveInv' /\ ColdSkipInv' /\ LockFileInv'
    <2>1. CASE SplitBrainSkip(n)
      BY <2>1 DEF SplitBrainSkip, TakeRole, RMLFile
    <2>2. CASE SplitBrainProbe(n)
      BY <2>2 DEF SplitBrainProbe, TakeRole, SplitBrainDetected, RMLFile, MipAnswers
    <2>3. CASE Assemble(n)
      BY <2>3 DEF Assemble
    <2>4. CASE SetMipAddrs(n)
      BY <2>4 DEF SetMipAddrs
    <2>5. CASE UsetMipAddrs(n)
      BY <2>5 DEF UsetMipAddrs
    <2>6. CASE Disable(n)
      BY <2>6 DEF Disable
    <2>7. CASE Boot(n)
      BY <2>7 DEF Boot
    <2>8. CASE OrderStandby(n)
      BY <2>8 DEF OrderStandby, RMLFile
    <2>9. CASE OrderActive(n)
      BY <2>9 DEF OrderActive, AmfGivesRole, Settled
    <2>10. CASE StopApp(n)
      BY <2>10 DEF StopApp, ReleaseAlone
    <2>11. CASE Fail(n)
      BY <2>11 DEF Fail
    <2>12. CASE FailoverStop(n)
      BY <2>12 DEF FailoverStop, ReleaseAlone
    <2>13. CASE Reset(n)
      BY <2>13 DEF Reset
    <2>14. CASE AdminLock(n)
      BY <2>14 DEF AdminLock, Stable
    <2>15. CASE AdminUnlock(n)
      BY <2>15 DEF AdminUnlock, Stable
    <2> QED BY <1>4, <2>1, <2>2, <2>3, <2>4, <2>5, <2>6, <2>7, <2>8, <2>9, <2>10,
              <2>11, <2>12, <2>13, <2>14, <2>15, Zenon
           DEF AgentStep, NodeStep
  <1> QED BY <1>1, <1>2, <1>3, <1>4, Zenon DEF Next

\* The invariant is inductive as long as no excluded circumstance occurs.
THEOREM Inductive ==
  ASSUME Admitted = {}
  PROVE  Spec => []IInv
  <1>1. IInv /\ [Next]_vars => IInv'
    BY TypeStep, PhaseStep, TakingStep, LockedStep, ExclusiveStep DEF IInv
  <1> QED BY InitInv, <1>1, PTL DEF Spec

\* The types of the state, whatever circumstances are admitted (splitBrainAlgo(),
\* StartJobs(), StopJobs()).
THEOREM Types == Spec => []TypeOK
  <1>1. Init => TypeOK
    BY InitInv DEF IInv
  <1>2. TypeOK /\ [Next]_vars => TypeOK'
    BY TypeStep
  <1> QED BY <1>1, <1>2, PTL DEF Spec

\* At most one node has the disk and at most one the addresses.
THEOREM OneOwner ==
  ASSUME Admitted = {}
  PROVE  Spec => []OneActive
  <1>1. IInv => OneActive
    BY DEF IInv, TypeOK, PhaseInv, ExclusiveInv, Busy, OneActive
  <1> QED BY Inductive, <1>1, PTL

\* The places of the agents and what their nodes have agree, whatever happens.
THEOREM Phases == Spec => [](TypeOK /\ PhaseInv)
  <1>1. Init => TypeOK /\ PhaseInv
    BY InitInv DEF IInv
  <1>2. TypeOK /\ PhaseInv /\ [Next]_vars => (TypeOK /\ PhaseInv)'
    BY TypeStep, PhaseStep
  <1> QED BY <1>1, <1>2, PTL DEF Spec

\* What a check relies on when takeovers do not overlap.
LEMMA NoOverlap ==
  ASSUME "overlap" \notin Admitted
  PROVE  Spec => [](TypeOK /\ PhaseInv /\ TakingInv)
  <1> DEFINE I == TypeOK /\ PhaseInv /\ TakingInv
  <1>1. Init => I
    BY InitInv DEF IInv
  <1>2. I /\ [Next]_vars => I'
    BY TypeStep, PhaseStep, TakingStep
  <1> QED BY <1>1, <1>2, PTL DEF Spec

\* What is known of a locked node when no partition overtakes its release.
LEMMA NoLockRace ==
  ASSUME "lockRace" \notin Admitted
  PROVE  Spec => [](TypeOK /\ PhaseInv /\ LockedInv /\ LockSkipInv)
  <1> DEFINE I == TypeOK /\ PhaseInv /\ LockedInv /\ LockSkipInv
  <1>1. Init => I
    BY InitInv DEF IInv
  <1>2. I /\ [Next]_vars => I'
    BY TypeStep, PhaseStep, LockedStep
  <1> QED BY <1>1, <1>2, PTL DEF Spec

\* No step to the role follows a check that missed an active node, on native
\* nodes whose takeovers do not overlap: cold starts, lock files that cannot be
\* made and locked nodes make no difference to what a probe finds.
THEOREM CheckSound ==
  ASSUME Admitted \cap {"virtual", "overlap"} = {}
  PROVE  Spec => NoResponseNoActive
  <1>1. "virtual" \notin Admitted /\ "overlap" \notin Admitted
    OBVIOUS
  <1>2. TypeOK /\ PhaseInv /\ TakingInv /\ [Next]_vars =>
          [\A n \in Node :
             SplitBrainProbe(n) /\ agent'[n] = "assemble"
               => \A m \in Peers(n) : agent[m] \notin Engaged \ {"split"} /\ m \notin data]_vars
    BY <1>1 DEF TypeOK, PhaseInv, TakingInv, SplitBrainProbe, SplitBrainDetected, TakeRole,
       GoTo, MipAnswers, Peers, Engaged, Taking, Releasing
  <1> QED BY NoOverlap, <1>1, <1>2, PTL DEF Spec, NoResponseNoActive

\* A locked peer has nothing of the role when the check is skipped for it, as
\* long as no partition begins before it has given the role up.
THEOREM LockSound ==
  ASSUME "lockRace" \notin Admitted
  PROVE  Spec => LockedPeerInactive
  <1>1. TypeOK /\ PhaseInv /\ LockSkipInv /\ [Next]_vars =>
          [\A n \in Node :
             SplitBrainSkip(n) /\ PeerNodeLockd(n) => Peers(n) \cap (data \cup mips) = {}]_vars
    BY DEF TypeOK, PhaseInv, LockSkipInv, SplitBrainSkip, Peers
  <1> QED BY NoLockRace, <1>1, PTL DEF Spec, LockedPeerInactive

\* The lock file outlives every reset of a partition with an active peer, even
\* if AMF gives the role to agents that do not probe.
THEOREM LockFileSound ==
  ASSUME Admitted \subseteq {"coldStart", "lockFile"}
  PROVE  Spec => LockFileKept
  <1> DEFINE Kept ==
        \A n \in Node :
          link = "broken" /\ n \in lock /\ n \notin lock' => Peers(n) \cap (data \cup mips) = {}
  <1> DEFINE I == TypeOK /\ PhaseInv /\ TakingInv /\ LockSkipInv
  <1>1. "virtual" \notin Admitted /\ "overlap" \notin Admitted /\ "lockRace" \notin Admitted
    OBVIOUS
  <1>2. ASSUME I, Next PROVE Kept
    <2>1. ASSUME NEW n \in Node, AgentStep(n) \/ NodeStep(n) PROVE Kept
      <3> USE DEF fileVars, Peers
      <3>1. CASE SplitBrainSkip(n)
        BY <1>2, <3>1 DEF SplitBrainSkip, TakeRole, RMLFile, TypeOK, PhaseInv, LockSkipInv, ProbeDue
      <3>2. CASE SplitBrainProbe(n)
        BY <1>1, <1>2, <3>2 DEF SplitBrainProbe, TakeRole, RMLFile, SplitBrainDetected,
           MipAnswers, TypeOK, PhaseInv, TakingInv
      <3>3. CASE OrderStandby(n)
        BY <3>3 DEF OrderStandby
      <3>4. CASE \/ Assemble(n) \/ SetMipAddrs(n) \/ UsetMipAddrs(n) \/ Disable(n)
                 \/ Boot(n) \/ OrderActive(n) \/ StopApp(n) \/ Fail(n) \/ FailoverStop(n)
                 \/ Reset(n) \/ AdminLock(n) \/ AdminUnlock(n)
        BY <3>4 DEF Assemble, SetMipAddrs, UsetMipAddrs, Disable, Boot, OrderActive, StopApp,
           Fail, FailoverStop, Reset, AdminLock, AdminUnlock
      <3> QED BY <2>1, <3>1, <3>2, <3>3, <3>4, Zenon DEF AgentStep, NodeStep
    <2>2. CASE BreakLink \/ RepairLink
      BY <2>2 DEF BreakLink, RepairLink, fileVars
    <2> QED BY <1>2, <2>1, <2>2, Zenon DEF Next
  <1>3. I /\ [Next]_vars => [Kept]_vars
    BY <1>2
  <1> QED BY NoOverlap, NoLockRace, <1>1, <1>3, PTL DEF Spec, LockFileKept

\* The cluster implements the abstract role.
THEOREM Refinement ==
  ASSUME Admitted = {}
  PROVE  Spec => RoleSpec
  <1>1. Init => Role!Init
    BY DEF Init, Role!Init
  <1>2. ASSUME IInv, [Next]_vars PROVE [Role!Next]_<<data, mips>>
    <2> USE DEF roleVars
    <2>1. ASSUME NEW n \in Node, AgentStep(n) \/ NodeStep(n)
          PROVE  [Role!Next]_<<data, mips>>
      <3> USE DEF IInv, TypeOK, PhaseInv, ExclusiveInv, Busy
      <3>1. CASE Assemble(n)
        <4>1. data = {} /\ data' = {n} /\ mips' = mips
          BY <1>2, <3>1 DEF Assemble
        <4> QED BY <4>1 DEF Role!Next, Role!Take
      <3>2. CASE SetMipAddrs(n)
        <4>1. data = {n} /\ mips' = {n} /\ data' = data
          BY <1>2, <3>2 DEF SetMipAddrs
        <4> QED BY <4>1 DEF Role!Next, Role!Announce
      <3>3. CASE UsetMipAddrs(n)
        <4>1. mips' = {} /\ data' = data
          BY <1>2, <3>3 DEF UsetMipAddrs
        <4> QED BY <4>1 DEF Role!Next, Role!Withdraw
      <3>4. CASE Disable(n)
        <4>1. data' = {} /\ mips' = {}
          BY <1>2, <3>4 DEF Disable
        <4> QED BY <4>1 DEF Role!Next, Role!GiveUp
      <3>5. CASE Reset(n)
        <4>1. CASE n \in data
          <5>1. data' = {} /\ mips' = {}
            BY <1>2, <3>5, <4>1 DEF Reset
          <5> QED BY <5>1 DEF Role!Next, Role!GiveUp
        <4>2. CASE n \notin data
          <5>1. data' = data /\ mips' = mips
            BY <1>2, <3>5, <4>2 DEF Reset
          <5> QED BY <5>1
        <4> QED BY <4>1, <4>2
      <3>6. CASE FailoverStop(n)
        <4>1. CASE n \in mips
          <5>1. mips' = {} /\ data' = data
            BY <1>2, <3>6, <4>1 DEF FailoverStop
          <5> QED BY <5>1 DEF Role!Next, Role!Withdraw
        <4>2. CASE n \notin mips
          <5>1. data' = {} /\ mips' = {}
            BY <1>2, <3>6, <4>2 DEF FailoverStop
          <5> QED BY <5>1 DEF Role!Next, Role!GiveUp
        <4> QED BY <4>1, <4>2
      <3>7. CASE \/ SplitBrainSkip(n) \/ SplitBrainProbe(n) \/ Boot(n) \/ OrderStandby(n)
                 \/ OrderActive(n) \/ StopApp(n) \/ Fail(n) \/ AdminLock(n) \/ AdminUnlock(n)
        BY <3>7 DEF SplitBrainSkip, SplitBrainProbe, Boot, OrderStandby, OrderActive, StopApp,
           Fail, AdminLock, AdminUnlock
      <3> QED BY <2>1, <3>1, <3>2, <3>3, <3>4, <3>5, <3>6, <3>7, Zenon DEF AgentStep, NodeStep
    <2>2. CASE BreakLink \/ RepairLink \/ UNCHANGED vars
      BY <2>2 DEF BreakLink, RepairLink, vars
    <2> QED BY <1>2, <2>1, <2>2, Zenon DEF Next
  <1> QED BY Inductive, <1>1, <1>2, PTL DEF Spec, RoleSpec, Role!Spec

\* What a step of node k is for member n.
LEMMA OtherMember ==
  ASSUME NEW n \in Node, NEW k \in Node \ {n}, TypeOK, AgentStep(k) \/ NodeStep(k)
  PROVE  UNCHANGED Member(n)!vars
  <1>1. /\ agent'[n] = agent[n] /\ old'[n] = old[n]
        /\ (n \in data' <=> n \in data) /\ (n \in mips' <=> n \in mips)
        /\ (n \in lock' <=> n \in lock)
    BY DEF AgentStep, NodeStep, TypeOK, GoTo, roleVars, fileVars, netVars, SplitBrainSkip,
       SplitBrainProbe, TakeRole, RMLFile, SplitBrainDetected, Assemble, SetMipAddrs,
       UsetMipAddrs, Disable, Boot, OrderStandby, OrderActive, StopApp, Fail, FailoverStop, Reset,
       AdminLock, AdminUnlock
  <1> QED BY <1>1 DEF Member!vars, Has

\* A step of node n is a move of its member.
LEMMA OwnMember ==
  ASSUME NEW n \in Node, TypeOK, PhaseInv, AgentStep(n) \/ NodeStep(n)
  PROVE  Member(n)!Next \/ UNCHANGED Member(n)!vars
  <1> USE DEF TypeOK, PhaseInv, GoTo, Has, roleVars, fileVars, netVars, Engaged, Taking, Releasing,
              Member!vars, Member!GoTo, Member!Comes, Member!RMLFile
  <1>1. CASE SplitBrainSkip(n)
    <2>1. Member(n)!CheckPassed
      BY <1>1 DEF SplitBrainSkip, TakeRole, RMLFile, Member!CheckPassed
    <2> QED BY <2>1 DEF Member!Next
  <1>2. CASE SplitBrainProbe(n)
    <2>1. Member(n)!CheckPassed \/ Member(n)!SplitBrain
      BY <1>2 DEF SplitBrainProbe, TakeRole, RMLFile, SplitBrainDetected, ProbeDue,
         Member!CheckPassed, Member!SplitBrain
    <2> QED BY <2>1 DEF Member!Next
  <1>3. CASE Assemble(n)
    <2>1. Member(n)!Assemble
      BY <1>3 DEF Assemble, Member!Assemble, Member!Take
    <2> QED BY <2>1 DEF Member!Next
  <1>4. CASE SetMipAddrs(n)
    <2>1. Member(n)!SetMipAddrs
      BY <1>4 DEF SetMipAddrs, Member!SetMipAddrs, Member!Take
    <2> QED BY <2>1 DEF Member!Next
  <1>5. CASE UsetMipAddrs(n)
    <2>1. Member(n)!UsetMipAddrs
      BY <1>5 DEF UsetMipAddrs, Member!UsetMipAddrs
    <2> QED BY <2>1 DEF Member!Next
  <1>6. CASE Disable(n)
    <2>1. Member(n)!Disable
      BY <1>6 DEF Disable, Member!Disable
    <2> QED BY <2>1 DEF Member!Next
  <1>7. CASE Boot(n)
    <2>1. Member(n)!Boot
      BY <1>7 DEF Boot, Member!Boot
    <2> QED BY <2>1 DEF Member!Next
  <1>8. CASE OrderStandby(n)
    <2>1. Member(n)!OrderStandby
      BY <1>8 DEF OrderStandby, RMLFile, Member!OrderStandby
    <2> QED BY <2>1 DEF Member!Next
  <1>9. CASE OrderActive(n)
    <2>1. Member(n)!OrderActive
      BY <1>9 DEF OrderActive, Member!OrderActive
    <2> QED BY <2>1 DEF Member!Next
  <1>10. CASE StopApp(n)
    <2>1. Member(n)!StopApp
      BY <1>10 DEF StopApp, Member!StopApp
    <2> QED BY <2>1 DEF Member!Next
  <1>11. CASE Fail(n)
    <2>1. Member(n)!Fail
      BY <1>11 DEF Fail, Member!Fail
    <2> QED BY <2>1 DEF Member!Next
  <1>12. CASE FailoverStop(n)
    <2>1. Member(n)!Fail
      BY <1>12 DEF FailoverStop, Member!Fail, Member!Down
    <2> QED BY <2>1 DEF Member!Next
  <1>13. CASE Reset(n)
    <2>1. Member(n)!Reset
      BY <1>13 DEF Reset, Member!Reset
    <2> QED BY <2>1 DEF Member!Next
  <1>14. CASE AdminLock(n) \/ AdminUnlock(n)
    BY <1>14 DEF AdminLock, AdminUnlock
  <1> QED BY <1>1, <1>2, <1>3, <1>4, <1>5, <1>6, <1>7, <1>8, <1>9, <1>10, <1>11, <1>12, <1>13,
            <1>14, Zenon DEF AgentStep, NodeStep

\* Each node of the pair makes only the moves of NodeRole, which one process of
\* HaAgent is proved to make: whatever circumstances are admitted.
THEOREM MembersRefine == Spec => MembersSpec
  <1>1. Init => \A n \in Node : Member(n)!Init
    BY DEF Init, Member!Init, Has
  <1>2. TypeOK /\ PhaseInv /\ [Next]_vars =>
          [\A n \in Node : Member(n)!Next \/ UNCHANGED Member(n)!vars]_vars
    <2> SUFFICES ASSUME TypeOK, PhaseInv, Next, NEW n \in Node
                 PROVE  Member(n)!Next \/ UNCHANGED Member(n)!vars
      OBVIOUS
    <2>1. CASE BreakLink \/ RepairLink
      BY <2>1 DEF BreakLink, RepairLink, Member!vars, Has, roleVars, fileVars
    <2>2. ASSUME NEW k \in Node, AgentStep(k) \/ NodeStep(k)
          PROVE  Member(n)!Next \/ UNCHANGED Member(n)!vars
      BY <2>2, OtherMember, OwnMember
    <2> QED BY <2>1, <2>2, Zenon DEF Next
  <1> QED BY Phases, <1>1, <1>2, PTL DEF Spec, MembersSpec

=============================================================================
