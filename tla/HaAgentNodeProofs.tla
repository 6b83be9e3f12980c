-------------------------- MODULE HaAgentNodeProofs --------------------------
(***************************************************************************)
(* Proof that one agent process, whatever its threads do, makes only the   *)
(* moves of NodeRole, and so has of the role what its place says.  Every   *)
(* action of HaAgent is a move of NodeRole or leaves the place of the node *)
(* as it is; which one needs the invariant IInv of HaAgentInv.             *)
(***************************************************************************)
EXTENDS HaAgentNode, HaAgentProofs

Stays == UNCHANGED Node!vars

\* The first process of a node is an idle agent.
LEMMA NodeInit == Init => Node!Init
  BY DEF Init, FreshProcess, Node!Init, Place, PassivePlace, Standby, Old, Comes, Broken

\* The moves that each action of the agent can be.
LEMMA NodeMoves ==
  ASSUME IInv, Next
  PROVE  Stays \/ Node!Next
  <1> USE DEF amfVars, admVars, roleVars, watchVars, stopVars, nodeVars, Stays, Node!vars, Place, Standby,
         PassivePlace, ActivePlace, StartedPlace, Old, Comes, Broken, Handling, Checking,
         AfterStart, Closing, Node!GoTo, Node!Comes, Node!RMLFile, Node!Take, Node!Down,
         Node!Ladder
  <1>1. ASSUME Ends PROVE Stays \/ Node!Reset \/ Node!Fail
    BY <1>1 DEF Ends, EndProcess, Reboot, ResetProcess, Node!Reset, Node!Fail
  <1>2. ASSUME JoinStbyToActivate PROVE Stays
    BY <1>2 DEF JoinStbyToActivate, Deactivate, IInv, MainInv, OneRole, OrderlyInv, CallInv
  <1>3. ASSUME StartActv PROVE Stays \/ Node!OrderActive
    BY <1>3 DEF StartActv, Node!OrderActive, IInv, MainInv, StartInv, NoApp, ThreadInv,
       RoleInv, RoleMgrExists, OrderlyInv, CallInv
  <1>4. ASSUME StartStby PROVE Stays \/ Node!OrderStandby \/ Node!Stray
    BY <1>4 DEF StartStby, RMLFile, Node!OrderStandby, Node!Stray, IInv, MainInv, StartInv,
       NoApp, DownInv, ResourceInv, ResourceOrder, OrderlyInv, CallInv, TypeOK, Resources
  <1>5. ASSUME StartFails PROVE Stays \/ Node!OrderStandby \/ Node!Fail \/ Node!Stray
    BY <1>5 DEF StartFails, RMLFile, Deactivate, Answer, Node!OrderStandby, Node!Fail,
       Node!Stray, IInv, MainInv, StartInv, NoApp, DownInv, ResourceInv, ResourceOrder,
       OrderlyInv, CallInv, TypeOK, Resources
  <1>6. ASSUME WaitOnTask PROVE Stays \/ Node!Fail
    BY <1>6 DEF WaitOnTask, Answer, Node!Fail, IInv, MainInv, StartInv, NoApp, OrderlyInv,
       CallInv
  <1>7. ASSUME StopActv PROVE Stays
    BY <1>7 DEF StopActv
  <1>8. ASSUME JoinActv PROVE Stays \/ Node!Fail
    BY <1>8 DEF JoinActv, Deactivate, Node!Fail, IInv, MainInv, OneRole, StopInv, StopOrders,
       OrderInv, ThreadInv, StoppingWatchers, RoleInv, RoleMgrExists, OrderlyInv,
       StopOfServing, TypeOK, Threads, Watchers
  <1>9. ASSUME StopStby PROVE Stays
    BY <1>9 DEF StopStby
  <1>10. ASSUME JoinStbyToStop PROVE Stays \/ Node!StopApp
    BY <1>10 DEF JoinStbyToStop, Deactivate, Node!StopApp, IInv, MainInv, OneRole, StopInv,
       StopOrders, OrderInv
  <1>11. ASSUME Reply PROVE Stays \/ Node!Fail
    BY <1>11 DEF Reply, Answer, Node!Fail, IInv, OrderlyInv, CallInv
  <1>12. ASSUME ReturnFromUsr2 PROVE Stays
    BY <1>12 DEF ReturnFromUsr2
  <1>13. ASSUME ActvStart PROVE Stays
    BY <1>13 DEF ActvStart, IInv, ThreadInv, RoleInv, RoleMgrExists
  <1>14. ASSUME ActvShutdown PROVE Stays
    BY <1>14 DEF ActvShutdown
  <1>15. ASSUME ActvJoin PROVE Stays
    BY <1>15 DEF ActvJoin
  <1>16. ASSUME StbyStart PROVE Stays
    BY <1>16 DEF StbyStart, IInv, MainInv, OneRole
  <1>17. ASSUME StbyReady PROVE Stays
    BY <1>17 DEF StbyReady
  <1>18. ASSUME StbyShutdown PROVE Stays
    BY <1>18 DEF StbyShutdown, CloseMonitor, CloseBeforeInit
  <1>19. ASSUME StbyJoin PROVE Stays
    BY <1>19 DEF StbyJoin
  <1>20. ASSUME InitPipe PROVE Stays \/ Node!Fail
    BY <1>20 DEF InitPipe, RoleTo, Node!Fail
  <1>21. ASSUME InitObjects PROVE Stays \/ Node!Fail
    BY <1>21 DEF InitObjects, RoleTo, Node!Fail
  <1>22. ASSUME HealthCheck PROVE Stays \/ Node!Fail
    BY <1>22 DEF HealthCheck, RoleFailover, RoleTo, ShutDownAll, Node!Fail
  <1>23. ASSUME SplitBrainAlgo
        PROVE  Stays \/ Node!CheckPassed \/ Node!SplitBrain \/ Node!Stray
    BY <1>23 DEF SplitBrainAlgo, RMLFile, RoleFailover, RoleTo, ShutDownAll, Node!CheckPassed,
       Node!SplitBrain, Node!Stray, IInv, MainInv, DownInv, NoApp, ThreadInv, RoleInv,
       RoleMgrExists, ResourceInv, ResourceOrder, TypeOK, Resources
  <1>24. ASSUME Assemble PROVE Stays \/ Node!Assemble \/ Node!Fail \/ Node!Stray
    BY <1>24 DEF Assemble, RoleTo, StartJob, Node!Assemble, Node!Fail, Node!Stray, IInv,
       MainInv, DownInv, NoApp, ThreadInv, RoleInv, RoleMgrExists, ResourceInv, JobsInv,
       CleanInv, TypeOK, Resources
  <1>25. ASSUME SetMipAddrs PROVE Stays \/ Node!SetMipAddrs \/ Node!Fail \/ Node!Stray
    BY <1>25 DEF SetMipAddrs, RoleTo, StartJob, Node!SetMipAddrs, Node!Fail, Node!Stray, IInv,
       MainInv, DownInv, NoApp, ThreadInv, RoleInv, RoleMgrExists, ResourceInv, JobsInv,
       HeldInv, TypeOK, Resources
  <1>26. ASSUME AposJobs PROVE Stays \/ Node!Fail
    BY <1>26 DEF AposJobs, RoleTo, StartJob, Node!Fail, IInv, ThreadInv, RoleInv,
       RoleMgrExists, ResourceInv, JobsInv, HeldInv
  <1>27. ASSUME StartMonitor PROVE Stays \/ Node!Fail
    BY <1>27 DEF StartMonitor, RoleTo, Node!Fail, IInv, ThreadInv, RoleInv, RoleMgrExists
  <1>28. ASSUME RoleError PROVE Stays
    BY <1>28 DEF RoleError, RoleTo, ShutDownAll, IInv, ResourceInv, JobsInv
  <1>29. ASSUME RoleReady PROVE Stays
    BY <1>29 DEF RoleReady, RoleTo
  <1>30. ASSUME RoleStop PROVE Stays \/ Node!StopApp
    BY <1>30 DEF RoleStop, RoleTo, ShutDownAll, Node!StopApp, IInv, AnswerInv, DoneInv,
       OrderlyInv, CallInv, StopOfServing, ShutdownInv, TypeOK, Threads
  <1>31. ASSUME RoleStopped PROVE Stays
    BY <1>31 DEF RoleStopped, RoleTo
  <1>32. ASSUME RoleClose PROVE Stays
    BY <1>32 DEF RoleClose, CloseMonitor, CloseBeforeInit, RoleTo
  <1>33. ASSUME RoleJoin PROVE Stays
    BY <1>33 DEF RoleJoin, RoleTo
  <1>34. ASSUME MonInit PROVE Stays \/ Node!Fail
    BY <1>34 DEF MonInit, ShutDownAll, Node!Fail, IInv, TypeOK, Watchers
  <1>35. ASSUME MonClose PROVE Stays
    BY <1>35 DEF MonClose
  <1>36. ASSUME NEW t \in Threads, StopApos(t) PROVE Stays \/ Node!Fail
    BY <1>36 DEF StopApos, StopFails, ShutDownAll, Node!Fail, IInv, ResourceInv,
       ResourceOrder, TypeOK, Threads
  <1>37. ASSUME NEW t \in Threads, UsetMipAddrs(t)
        PROVE  Stays \/ Node!UsetMipAddrs \/ Node!Fail \/ Node!Stray
    BY <1>37 DEF UsetMipAddrs, StopFails, ShutDownAll, Node!UsetMipAddrs, Node!Fail,
       Node!Stray, IInv, ThreadInv, StoppingWatchers, WatchInv, RoleMgrExists, RoleInv,
       ResourceInv, ResourceOrder, JobsInv, OrderlyInv, AloneInv, TypeOK, Threads, Watchers,
       Resources
  <1>38. ASSUME NEW t \in Threads, Disable(t)
        PROVE  Stays \/ Node!Disable \/ Node!Fail \/ Node!Stray
    BY <1>38 DEF Disable, StopFails, ShutDownAll, Node!Disable, Node!Fail, Node!Stray, IInv,
       MainInv, StopInv, StopOrders, OrderInv, DownInv, NoApp, ThreadInv, StoppingWatchers,
       WatchInv, RoleMgrExists, RoleInv, ResourceInv, JobsInv, OrderlyInv, CallInv, AloneInv,
       ShutdownInv, TypeOK, Threads, Watchers, Resources
  <1>39. ASSUME SetActive PROVE Stays
    BY <1>39 DEF SetActive, Dispatched, Allowed, StoreHaState, IInv, MainInv, OneRole,
       PollInv, NoApp, AnswerInv, ServingInv, OrderlyInv, CallInv, TypeOK, HaStates
  <1>40. ASSUME SetStandby PROVE Stays
    BY <1>40 DEF SetStandby, Dispatched, Allowed, StoreHaState, IInv, MainInv, OneRole,
       PollInv, NoApp, OrderlyInv, CallInv, TypeOK, HaStates
  <1>41. ASSUME NEW s \in {"Quiescing", "Quiesced"}, SetQuiesced(s)
        PROVE  Stays \/ Node!StopApp
    BY <1>41 DEF SetQuiesced, Dispatched, Allowed, StoreHaState, Node!StopApp, IInv, MainInv,
       PollInv, NoApp, OrderlyInv, CallInv
  <1>42. ASSUME NEW o \in {"Remove", "Terminate"}, RemoveOrTerminate(o)
        PROVE  Stays \/ Node!StopApp
    BY <1>42 DEF RemoveOrTerminate, Dispatched, Allowed, StoreHaState, Node!StopApp, IInv,
       MainInv, PollInv, NoApp, OrderlyInv, CallInv
  <1>43. ASSUME DispatchFails PROVE Stays \/ Node!Fail
    BY <1>43 DEF DispatchFails, Node!Fail
  <1>44. ASSUME Usr2 PROVE Stays \/ Node!Fail
    BY <1>44 DEF Usr2, Node!Fail
  <1>45. ASSUME Instantiate PROVE Stays \/ Node!Boot \/ Node!Restart
    BY <1>45 DEF Instantiate, Node!Boot, Node!Restart, IInv, MainInv, PollInv, NoApp, DownInv,
       ResourceInv, ResourceOrder, OrderlyInv, CallInv, LeftInv, TypeOK
  <1>46. ASSUME NEW w \in Watchers, NodefailOver(w) PROVE Stays \/ Node!Fail
    BY <1>46 DEF NodefailOver, ShutDownAll, Node!Fail
  <1> HIDE DEF Stays
  <1> QED
    BY <1>1, <1>2, <1>3, <1>4, <1>5, <1>6, <1>7, <1>8, <1>9, <1>10, <1>11, <1>12, <1>13,
       <1>14, <1>15, <1>16, <1>17, <1>18, <1>19, <1>20, <1>21, <1>22, <1>23, <1>24, <1>25,
       <1>26, <1>27, <1>28, <1>29, <1>30, <1>31, <1>32, <1>33, <1>34, <1>35, <1>36, <1>37,
       <1>38, <1>39, <1>40, <1>41, <1>42, <1>43, <1>44, <1>45, <1>46, StepCases, Zenon
    DEF Node!Next

LEMMA NodeSame == UNCHANGED vars => Stays
  BY DEF vars, amfVars, admVars, roleVars, watchVars, stopVars, nodeVars, Stays, Node!vars, Place, Standby,
         PassivePlace, ActivePlace, StartedPlace, Old, Comes, Broken, Handling

\* The agent implements NodeRole: its threads, AMF's callbacks, failures and
\* crashes amount to moves that the other node can rely on.
THEOREM NodeRefinement == Spec => NodeSpec
  <1>1. IInv /\ [Next]_vars => [Node!Next]_(Node!vars)
    BY NodeMoves, NodeSame DEF Stays
  <1> QED BY <1>1, NodeInit, Inductive, PTL DEF Spec, NodeSpec, Node!Spec

\* What a node has is what its place says; this is inductive in NodeRole.
LEMMA HoldsStep ==
  ASSUME Node!Holds, [Node!Next]_(Node!vars)
  PROVE  Node!Holds'
  <1> USE DEF Node!Holds, Node!Ladder, Node!GoTo, Node!Comes
  <1>1. CASE UNCHANGED Node!vars
    BY <1>1 DEF Node!vars
  <1>2. CASE Node!Boot \/ Node!OrderStandby \/ Node!OrderActive \/ Node!StopApp
    BY <1>2 DEF Node!Boot, Node!OrderStandby, Node!OrderActive, Node!StopApp
  <1>3. CASE Node!CheckPassed \/ Node!SplitBrain
    BY <1>3 DEF Node!CheckPassed, Node!SplitBrain
  <1>4. CASE Node!Assemble \/ Node!SetMipAddrs
    BY <1>4 DEF Node!Assemble, Node!SetMipAddrs, Node!Take
  <1>5. CASE Node!UsetMipAddrs \/ Node!Disable
    BY <1>5 DEF Node!UsetMipAddrs, Node!Disable
  <1>6. CASE Node!Fail
    BY <1>6 DEF Node!Fail, Node!Down
  <1>7. CASE Node!Reset \/ Node!Restart \/ Node!Stray
    BY <1>7 DEF Node!Reset, Node!Restart, Node!Stray
  <1> QED BY <1>1, <1>2, <1>3, <1>4, <1>5, <1>6, <1>7, Zenon DEF Node!Next

\* An agent that has not passed its check, or has released the role, has no
\* part of it; one that is taking or releasing it has the disk without the
\* addresses for exactly one step; an active one has both.
THEOREM NodeHolds == Spec => []Node!Holds
  <1>1. Node!Init => Node!Holds
    BY DEF Node!Init, Node!Holds, Node!Ladder
  <1> QED BY <1>1, HoldsStep, NodeRefinement, PTL DEF NodeSpec, Node!Spec

=============================================================================
