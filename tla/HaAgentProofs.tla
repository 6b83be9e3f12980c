---------------------------- MODULE HaAgentProofs ----------------------------
(***************************************************************************)
(* Proofs of the safety properties of HaAgent for every run of the agent,  *)
(* with or without failing stop scripts: the inductive invariant IInv of   *)
(* HaAgentInv, one lemma per part and in it one step per action, and what  *)
(* it implies.                                                             *)
(***************************************************************************)
EXTENDS HaAgentInv, TLAPS

\* The steps that end the process or the node; all of them leave a fresh one.
Ends == EndProcess \/ Reboot

\* The names the agent's sets consist of.
LEMMA Members ==
  /\ {"ACTVAdm", "STNBYAdm", "RoleMgr", "DRBDMon"} \subseteq Tasks
  /\ {"tasksDone", "compRestart", "shutdownOrdered", "startJobsDone"} \subseteq Flags
  /\ {"data", "mips", "apos"} \subseteq Resources
  /\ {"DRBDMon", "Pipe", "RoleMgr"} \subseteq Threads
  /\ {"DRBDMon", "Pipe"} \subseteq Watchers
  BY DEF Tasks, Flags, Resources, Threads, Watchers

\* The jobs of RoleMgr and of the two watchers are StopJobs() of a thread, and
\* every way a process ends is EndProcess or Reboot.
LEMMA StepCases ==
  ASSUME Next
  PROVE  \/ Ends
         \/ JoinStbyToActivate \/ StartActv \/ StartStby \/ StartFails \/ WaitOnTask
         \/ StopActv \/ JoinActv \/ StopStby \/ JoinStbyToStop \/ Reply \/ ReturnFromUsr2
         \/ ActvStart \/ ActvShutdown \/ ActvJoin
         \/ StbyStart \/ StbyReady \/ StbyShutdown \/ StbyJoin
         \/ InitPipe \/ InitObjects \/ HealthCheck \/ SplitBrainAlgo
         \/ Assemble \/ SetMipAddrs \/ AposJobs \/ StartMonitor \/ RoleError \/ RoleReady
         \/ RoleStop \/ RoleStopped \/ RoleClose \/ RoleJoin \/ MonInit \/ MonClose
         \/ \E t \in Threads : StopApos(t) \/ UsetMipAddrs(t) \/ Disable(t)
         \/ SetActive \/ SetStandby \/ DispatchFails \/ Usr2 \/ Instantiate
         \/ \E s \in {"Quiescing", "Quiesced"} : SetQuiesced(s)
         \/ \E o \in {"Remove", "Terminate"} : RemoveOrTerminate(o)
         \/ \E w \in Watchers : NodefailOver(w)
  <1>1. ExitMain \/ Kill \/ NullReactor \/ PipeWithoutObject \/ MonExit => Ends
    BY DEF Ends, ExitMain, Kill, NullReactor, PipeWithoutObject, MonExit
  <1>2. (\E w \in Watchers : UseAfterFree(w)) => Ends
    BY DEF Ends, UseAfterFree
  <1>3. (\E t \in Threads : FailoverReboot(t)) => Ends
    BY DEF Ends, FailoverReboot
  <1> QED
    BY <1>1, <1>2, <1>3, Members, Zenon DEF Next, Agent, MainThread, ActvThread, StbyThread,
       RoleThread, MonThread, PipeThread, StopJobs, Crash, Environment

\* A process that ends leaves the invariant to the next one.
LEMMA EndsInv ==
  ASSUME TypeOK, ResourceInv, Ends
  PROVE  IInv'
  <1> USE Members DEF Ends, EndProcess, Reboot, ResetProcess
  <1>1. TypeOK'
    BY DEF TypeOK, HaStates, Orders
  <1>2. MainInv'
    BY DEF MainInv, OneRole, PollInv, StartInv, StopInv, ReplyInv, OrderInv, DownInv, NoApp
  <1>3. ThreadInv' /\ ShutdownInv'
    BY DEF ThreadInv, StoppingWatchers, WatchInv, RoleInv, RoleMgrExists, ShutdownInv, Closing,
           Threads
  <1>4. ResourceInv'
    BY DEF TypeOK, ResourceInv, ResourceOrder, JobsInv, HeldInv, CleanInv, Threads
  <1>5. AnswerInv'
    BY DEF AnswerInv, DoneInv, ServingInv
  <1>6. OrderlyInv'
    BY DEF OrderlyInv, CallInv, StopOfServing, AloneInv, LeftInv
  <1>7. WaitInv'
    BY DEF WaitInv, MonTold, Closing, Threads
  <1> QED BY <1>1, <1>2, <1>3, <1>4, <1>5, <1>6, <1>7 DEF IInv

\* The type invariant for a process that ends, without the other parts.
LEMMA EndsType == TypeOK /\ Ends => TypeOK'
  BY Members DEF TypeOK, Ends, EndProcess, Reboot, ResetProcess, HaStates, Orders

\* Every action keeps every variable in its type.
LEMMA TypeStep ==
  ASSUME TypeOK, [Next]_vars
  PROVE  TypeOK'
  <1> USE Members DEF amfVars, admVars, roleVars, watchVars, stopVars, nodeVars, TypeOK, HaStates,
         Orders
  <1>1. CASE Ends
    BY <1>1, EndsType
  <1>2. CASE UNCHANGED vars
    BY <1>2 DEF vars
  <1>3. CASE JoinStbyToActivate
    BY <1>3 DEF JoinStbyToActivate, Deactivate
  <1>4. CASE StartActv
    BY <1>4 DEF StartActv
  <1>5. CASE StartStby
    BY <1>5 DEF StartStby, RMLFile
  <1>6. CASE StartFails
    BY <1>6 DEF StartFails, RMLFile, Deactivate, Answer
  <1>7. CASE WaitOnTask
    BY <1>7 DEF WaitOnTask, Answer
  <1>8. CASE StopActv
    BY <1>8 DEF StopActv
  <1>9. CASE JoinActv
    BY <1>9 DEF JoinActv, Deactivate
  <1>10. CASE StopStby
    BY <1>10 DEF StopStby
  <1>11. CASE JoinStbyToStop
    BY <1>11 DEF JoinStbyToStop, Deactivate
  <1>12. CASE Reply
    BY <1>12 DEF Reply, Answer
  <1>13. CASE ReturnFromUsr2
    BY <1>13 DEF ReturnFromUsr2
  <1>14. CASE ActvStart
    BY <1>14 DEF ActvStart
  <1>15. CASE ActvShutdown
    BY <1>15 DEF ActvShutdown
  <1>16. CASE ActvJoin
    BY <1>16 DEF ActvJoin
  <1>17. CASE StbyStart
    BY <1>17 DEF StbyStart
  <1>18. CASE StbyReady
    BY <1>18 DEF StbyReady
  <1>19. CASE StbyShutdown
    BY <1>19 DEF StbyShutdown, CloseMonitor, CloseBeforeInit
  <1>20. CASE StbyJoin
    BY <1>20 DEF StbyJoin
  <1>21. CASE InitPipe
    BY <1>21 DEF InitPipe, RoleTo, RunLoop
  <1>22. CASE InitObjects
    BY <1>22 DEF InitObjects, RoleTo
  <1>23. CASE HealthCheck
    BY <1>23 DEF HealthCheck, RoleFailover, RoleTo, ShutDownAll
  <1>24. CASE SplitBrainAlgo
    BY <1>24 DEF SplitBrainAlgo, RMLFile, RoleFailover, RoleTo, ShutDownAll
  <1>25. CASE Assemble
    BY <1>25 DEF Assemble, RoleTo, StartJob
  <1>26. CASE SetMipAddrs
    BY <1>26 DEF SetMipAddrs, RoleTo, StartJob
  <1>27. CASE AposJobs
    BY <1>27 DEF AposJobs, RoleTo, StartJob
  <1>28. CASE StartMonitor
    BY <1>28 DEF StartMonitor, RoleTo
  <1>29. CASE RoleError
    BY <1>29 DEF RoleError, RoleTo, ShutDownAll
  <1>30. CASE RoleReady
    BY <1>30 DEF RoleReady, RoleTo
  <1>31. CASE RoleStop
    BY <1>31 DEF RoleStop, RoleTo, ShutDownAll
  <1>32. CASE RoleStopped
    BY <1>32 DEF RoleStopped, RoleTo
  <1>33. CASE RoleClose
    BY <1>33 DEF RoleClose, RoleTo, CloseMonitor, CloseBeforeInit
  <1>34. CASE RoleJoin
    BY <1>34 DEF RoleJoin, RoleTo
  <1>35. CASE MonInit
    BY <1>35 DEF MonInit, ShutDownAll
  <1>36. CASE MonClose
    BY <1>36 DEF MonClose
  <1>37. ASSUME NEW t \in Threads, StopApos(t) PROVE TypeOK'
    BY <1>37 DEF StopApos, StopFails, ShutDownAll
  <1>38. ASSUME NEW t \in Threads, UsetMipAddrs(t) PROVE TypeOK'
    BY <1>38 DEF UsetMipAddrs, StopFails, ShutDownAll
  <1>39. ASSUME NEW t \in Threads, Disable(t) PROVE TypeOK'
    BY <1>39 DEF Disable, StopFails, ShutDownAll
  <1>40. CASE SetActive
    BY <1>40 DEF SetActive, Dispatched, Allowed, StoreHaState
  <1>41. CASE SetStandby
    BY <1>41 DEF SetStandby, Dispatched, Allowed, StoreHaState
  <1>42. ASSUME NEW s \in {"Quiescing", "Quiesced"}, SetQuiesced(s) PROVE TypeOK'
    BY <1>42 DEF SetQuiesced, Dispatched, Allowed, StoreHaState
  <1>43. ASSUME NEW o \in {"Remove", "Terminate"}, RemoveOrTerminate(o) PROVE TypeOK'
    BY <1>43 DEF RemoveOrTerminate, Dispatched, Allowed, StoreHaState
  <1>44. CASE DispatchFails
    BY <1>44 DEF DispatchFails
  <1>45. CASE Usr2
    BY <1>45 DEF Usr2
  <1>46. CASE Instantiate
    BY <1>46 DEF Instantiate
  <1>47. ASSUME NEW w \in Watchers, NodefailOver(w) PROVE TypeOK'
    BY <1>47 DEF NodefailOver, ShutDownAll, Threads
  <1> QED BY <1>1, <1>2, <1>3, <1>4, <1>5, <1>6, <1>7, <1>8, <1>9, <1>10, <1>11, <1>12,
         <1>13, <1>14, <1>15, <1>16, <1>17, <1>18, <1>19, <1>20, <1>21, <1>22, <1>23, <1>24,
         <1>25, <1>26, <1>27, <1>28, <1>29, <1>30, <1>31, <1>32, <1>33, <1>34, <1>35, <1>36,
         <1>37, <1>38, <1>39, <1>40, <1>41, <1>42, <1>43, <1>44, <1>45, <1>46, <1>47,
         StepCases, Zenon

\* The callbacks find the applications as their HAState says.
LEMMA MainStep ==
  ASSUME TypeOK, ResourceInv, MainInv, [Next]_vars
  PROVE  MainInv'
  <1> USE Members DEF amfVars, admVars, roleVars, watchVars, stopVars, nodeVars, TypeOK, MainInv,
         OneRole, PollInv, StartInv, StopInv, ReplyInv, OrderInv, DownInv, NoApp,
         StopOrders, HaStates
  <1>1. CASE Ends
    BY <1>1, EndsInv DEF IInv
  <1>2. CASE UNCHANGED vars
    BY <1>2 DEF vars
  <1>3. CASE JoinStbyToActivate
    BY <1>3 DEF JoinStbyToActivate, Deactivate
  <1>4. CASE StartActv
    BY <1>4 DEF StartActv
  <1>5. CASE StartStby
    BY <1>5 DEF StartStby, RMLFile
  <1>6. CASE StartFails
    BY <1>6 DEF StartFails, RMLFile, Deactivate, Answer
  <1>7. CASE WaitOnTask
    BY <1>7 DEF WaitOnTask, Answer
  <1>8. CASE StopActv
    BY <1>8 DEF StopActv
  <1>9. CASE JoinActv
    BY <1>9 DEF JoinActv, Deactivate
  <1>10. CASE StopStby
    BY <1>10 DEF StopStby
  <1>11. CASE JoinStbyToStop
    BY <1>11 DEF JoinStbyToStop, Deactivate
  <1>12. CASE Reply
    BY <1>12 DEF Reply, Answer
  <1>13. CASE ReturnFromUsr2
    BY <1>13 DEF ReturnFromUsr2
  <1>14. CASE ActvStart
    BY <1>14 DEF ActvStart
  <1>15. CASE ActvShutdown
    BY <1>15 DEF ActvShutdown
  <1>16. CASE ActvJoin
    BY <1>16 DEF ActvJoin
  <1>17. CASE StbyStart
    BY <1>17 DEF StbyStart
  <1>18. CASE StbyReady
    BY <1>18 DEF StbyReady
  <1>19. CASE StbyShutdown
    BY <1>19 DEF StbyShutdown, CloseMonitor, CloseBeforeInit
  <1>20. CASE StbyJoin
    BY <1>20 DEF StbyJoin
  <1>21. CASE InitPipe
    BY <1>21 DEF InitPipe, RoleTo
  <1>22. CASE InitObjects
    BY <1>22 DEF InitObjects, RoleTo
  <1>23. CASE HealthCheck
    BY <1>23 DEF HealthCheck, RoleFailover, RoleTo, ShutDownAll
  <1>24. CASE SplitBrainAlgo
    BY <1>24 DEF SplitBrainAlgo, RMLFile, RoleFailover, RoleTo, ShutDownAll
  <1>25. CASE Assemble
    BY <1>25 DEF Assemble, RoleTo, StartJob
  <1>26. CASE SetMipAddrs
    BY <1>26 DEF SetMipAddrs, RoleTo, StartJob
  <1>27. CASE AposJobs
    BY <1>27 DEF AposJobs, RoleTo, StartJob
  <1>28. CASE StartMonitor
    BY <1>28 DEF StartMonitor, RoleTo
  <1>29. CASE RoleError
    BY <1>29 DEF RoleError, RoleTo, ShutDownAll
  <1>30. CASE RoleReady
    BY <1>30 DEF RoleReady, RoleTo
  <1>31. CASE RoleStop
    BY <1>31 DEF RoleStop, RoleTo, ShutDownAll
  <1>32. CASE RoleStopped
    BY <1>32 DEF RoleStopped, RoleTo
  <1>33. CASE RoleClose
    BY <1>33 DEF RoleClose, RoleTo, CloseMonitor, CloseBeforeInit
  <1>34. CASE RoleJoin
    BY <1>34 DEF RoleJoin, RoleTo
  <1>35. CASE MonInit
    BY <1>35 DEF MonInit, ShutDownAll
  <1>36. CASE MonClose
    BY <1>36 DEF MonClose
  <1>37. ASSUME NEW t \in Threads, StopApos(t) PROVE MainInv'
    BY <1>37 DEF StopApos, StopFails, ShutDownAll
  <1>38. ASSUME NEW t \in Threads, UsetMipAddrs(t) PROVE MainInv'
    BY <1>38 DEF UsetMipAddrs, StopFails, ShutDownAll
  <1>39. ASSUME NEW t \in Threads, Disable(t) PROVE MainInv'
    BY <1>39 DEF Disable, StopFails, ShutDownAll
  <1>40. CASE SetActive
    BY <1>40 DEF SetActive, Dispatched, Allowed, StoreHaState
  <1>41. CASE SetStandby
    BY <1>41 DEF SetStandby, Dispatched, Allowed, StoreHaState
  <1>42. ASSUME NEW s \in {"Quiescing", "Quiesced"}, SetQuiesced(s) PROVE MainInv'
    BY <1>42 DEF SetQuiesced, Dispatched, Allowed, StoreHaState
  <1>43. ASSUME NEW o \in {"Remove", "Terminate"}, RemoveOrTerminate(o) PROVE MainInv'
    BY <1>43 DEF RemoveOrTerminate, Dispatched, Allowed, StoreHaState
  <1>44. CASE DispatchFails
    BY <1>44 DEF DispatchFails
  <1>45. CASE Usr2
    BY <1>45 DEF Usr2
  <1>46. CASE Instantiate
    BY <1>46 DEF Instantiate
  <1>47. ASSUME NEW w \in Watchers, NodefailOver(w) PROVE MainInv'
    BY <1>47 DEF NodefailOver, ShutDownAll
  <1> QED BY <1>1, <1>2, <1>3, <1>4, <1>5, <1>6, <1>7, <1>8, <1>9, <1>10, <1>11, <1>12,
         <1>13, <1>14, <1>15, <1>16, <1>17, <1>18, <1>19, <1>20, <1>21, <1>22, <1>23, <1>24,
         <1>25, <1>26, <1>27, <1>28, <1>29, <1>30, <1>31, <1>32, <1>33, <1>34, <1>35, <1>36,
         <1>37, <1>38, <1>39, <1>40, <1>41, <1>42, <1>43, <1>44, <1>45, <1>46, <1>47,
         StepCases, Zenon

\* No thread outlives what it belongs to.
LEMMA ThreadStep ==
  ASSUME TypeOK, ResourceInv, MainInv, ThreadInv, [Next]_vars
  PROVE  ThreadInv'
  <1> USE Members DEF amfVars, admVars, roleVars, watchVars, stopVars, nodeVars, TypeOK, MainInv,
         OneRole, PollInv, StartInv, StopInv, ReplyInv, OrderInv, DownInv, NoApp,
         StopOrders, ThreadInv, StoppingWatchers, WatchInv, RoleInv, RoleMgrExists,
         Watchers, Threads
  <1>1. CASE Ends
    BY <1>1, EndsInv DEF IInv
  <1>2. CASE UNCHANGED vars
    BY <1>2 DEF vars
  <1>3. CASE JoinStbyToActivate
    BY <1>3 DEF JoinStbyToActivate, Deactivate
  <1>4. CASE StartActv
    BY <1>4 DEF StartActv
  <1>5. CASE StartStby
    BY <1>5 DEF StartStby, RMLFile
  <1>6. CASE StartFails
    BY <1>6 DEF StartFails, RMLFile, Deactivate, Answer
  <1>7. CASE WaitOnTask
    BY <1>7 DEF WaitOnTask, Answer
  <1>8. CASE StopActv
    BY <1>8 DEF StopActv
  <1>9. CASE JoinActv
    BY <1>9 DEF JoinActv, Deactivate
  <1>10. CASE StopStby
    BY <1>10 DEF StopStby
  <1>11. CASE JoinStbyToStop
    BY <1>11 DEF JoinStbyToStop, Deactivate
  <1>12. CASE Reply
    BY <1>12 DEF Reply, Answer
  <1>13. CASE ReturnFromUsr2
    BY <1>13 DEF ReturnFromUsr2
  <1>14. CASE ActvStart
    BY <1>14 DEF ActvStart
  <1>15. CASE ActvShutdown
    BY <1>15 DEF ActvShutdown
  <1>16. CASE ActvJoin
    BY <1>16 DEF ActvJoin
  <1>17. CASE StbyStart
    BY <1>17 DEF StbyStart
  <1>18. CASE StbyReady
    BY <1>18 DEF StbyReady
  <1>19. CASE StbyShutdown
    BY <1>19 DEF StbyShutdown, CloseMonitor, CloseBeforeInit
  <1>20. CASE StbyJoin
    BY <1>20 DEF StbyJoin
  <1>21. CASE InitPipe
    BY <1>21 DEF InitPipe, RoleTo
  <1>22. CASE InitObjects
    BY <1>22 DEF InitObjects, RoleTo
  <1>23. CASE HealthCheck
    BY <1>23 DEF HealthCheck, RoleFailover, RoleTo, ShutDownAll
  <1>24. CASE SplitBrainAlgo
    BY <1>24 DEF SplitBrainAlgo, RMLFile, RoleFailover, RoleTo, ShutDownAll
  <1>25. CASE Assemble
    BY <1>25 DEF Assemble, RoleTo, StartJob
  <1>26. CASE SetMipAddrs
    BY <1>26 DEF SetMipAddrs, RoleTo, StartJob
  <1>27. CASE AposJobs
    BY <1>27 DEF AposJobs, RoleTo, StartJob
  <1>28. CASE StartMonitor
    BY <1>28 DEF StartMonitor, RoleTo
  <1>29. CASE RoleError
    BY <1>29 DEF RoleError, RoleTo, ShutDownAll
  <1>30. CASE RoleReady
    BY <1>30 DEF RoleReady, RoleTo
  <1>31. CASE RoleStop
    BY <1>31 DEF RoleStop, RoleTo, ShutDownAll
  <1>32. CASE RoleStopped
    BY <1>32 DEF RoleStopped, RoleTo
  <1>33. CASE RoleClose
    BY <1>33 DEF RoleClose, RoleTo, CloseMonitor, CloseBeforeInit
  <1>34. CASE RoleJoin
    BY <1>34 DEF RoleJoin, RoleTo
  <1>35. CASE MonInit
    BY <1>35 DEF MonInit, ShutDownAll
  <1>36. CASE MonClose
    BY <1>36 DEF MonClose
  <1>37. ASSUME NEW t \in Threads, StopApos(t) PROVE ThreadInv'
    BY <1>37 DEF StopApos, StopFails, ShutDownAll
  <1>38. ASSUME NEW t \in Threads, UsetMipAddrs(t) PROVE ThreadInv'
    BY <1>38 DEF UsetMipAddrs, StopFails, ShutDownAll
  <1>39. ASSUME NEW t \in Threads, Disable(t) PROVE ThreadInv'
    BY <1>39 DEF Disable, StopFails, ShutDownAll
  <1>40. CASE SetActive
    BY <1>40 DEF SetActive, Dispatched, Allowed, StoreHaState
  <1>41. CASE SetStandby
    BY <1>41 DEF SetStandby, Dispatched, Allowed, StoreHaState
  <1>42. ASSUME NEW s \in {"Quiescing", "Quiesced"}, SetQuiesced(s) PROVE ThreadInv'
    BY <1>42 DEF SetQuiesced, Dispatched, Allowed, StoreHaState
  <1>43. ASSUME NEW o \in {"Remove", "Terminate"}, RemoveOrTerminate(o) PROVE ThreadInv'
    BY <1>43 DEF RemoveOrTerminate, Dispatched, Allowed, StoreHaState
  <1>44. CASE DispatchFails
    BY <1>44 DEF DispatchFails
  <1>45. CASE Usr2
    BY <1>45 DEF Usr2
  <1>46. CASE Instantiate
    BY <1>46 DEF Instantiate
  <1>47. ASSUME NEW w \in Watchers, NodefailOver(w) PROVE ThreadInv'
    BY <1>47 DEF NodefailOver, ShutDownAll
  <1> QED BY <1>1, <1>2, <1>3, <1>4, <1>5, <1>6, <1>7, <1>8, <1>9, <1>10, <1>11, <1>12,
         <1>13, <1>14, <1>15, <1>16, <1>17, <1>18, <1>19, <1>20, <1>21, <1>22, <1>23, <1>24,
         <1>25, <1>26, <1>27, <1>28, <1>29, <1>30, <1>31, <1>32, <1>33, <1>34, <1>35, <1>36,
         <1>37, <1>38, <1>39, <1>40, <1>41, <1>42, <1>43, <1>44, <1>45, <1>46, <1>47,
         StepCases, Zenon

\* Only a stop order of the main thread closes the RoleMgr.
LEMMA ShutdownStep ==
  ASSUME TypeOK, ResourceInv, MainInv, ThreadInv, ShutdownInv, [Next]_vars
  PROVE  ShutdownInv'
  <1> USE Members DEF amfVars, admVars, roleVars, watchVars, stopVars, nodeVars, TypeOK, MainInv,
         OneRole, PollInv, StartInv, StopInv, ReplyInv, OrderInv, DownInv, NoApp,
         StopOrders, ThreadInv, StoppingWatchers, WatchInv, RoleInv, RoleMgrExists,
         ShutdownInv, Closing
  <1>1. CASE Ends
    BY <1>1, EndsInv DEF IInv
  <1>2. CASE UNCHANGED vars
    BY <1>2 DEF vars
  <1>3. CASE JoinStbyToActivate
    BY <1>3 DEF JoinStbyToActivate, Deactivate
  <1>4. CASE StartActv
    BY <1>4 DEF StartActv
  <1>5. CASE StartStby
    BY <1>5 DEF StartStby, RMLFile
  <1>6. CASE StartFails
    BY <1>6 DEF StartFails, RMLFile, Deactivate, Answer
  <1>7. CASE WaitOnTask
    BY <1>7 DEF WaitOnTask, Answer
  <1>8. CASE StopActv
    BY <1>8 DEF StopActv
  <1>9. CASE JoinActv
    BY <1>9 DEF JoinActv, Deactivate
  <1>10. CASE StopStby
    BY <1>10 DEF StopStby
  <1>11. CASE JoinStbyToStop
    BY <1>11 DEF JoinStbyToStop, Deactivate
  <1>12. CASE Reply
    BY <1>12 DEF Reply, Answer
  <1>13. CASE ReturnFromUsr2
    BY <1>13 DEF ReturnFromUsr2
  <1>14. CASE ActvStart
    BY <1>14 DEF ActvStart
  <1>15. CASE ActvShutdown
    BY <1>15 DEF ActvShutdown
  <1>16. CASE ActvJoin
    BY <1>16 DEF ActvJoin
  <1>17. CASE StbyStart
    BY <1>17 DEF StbyStart
  <1>18. CASE StbyReady
    BY <1>18 DEF StbyReady
  <1>19. CASE StbyShutdown
    BY <1>19 DEF StbyShutdown, CloseMonitor, CloseBeforeInit
  <1>20. CASE StbyJoin
    BY <1>20 DEF StbyJoin
  <1>21. CASE InitPipe
    BY <1>21 DEF InitPipe, RoleTo
  <1>22. CASE InitObjects
    BY <1>22 DEF InitObjects, RoleTo
  <1>23. CASE HealthCheck
    BY <1>23 DEF HealthCheck, RoleFailover, RoleTo, ShutDownAll
  <1>24. CASE SplitBrainAlgo
    BY <1>24 DEF SplitBrainAlgo, RMLFile, RoleFailover, RoleTo, ShutDownAll
  <1>25. CASE Assemble
    BY <1>25 DEF Assemble, RoleTo, StartJob
  <1>26. CASE SetMipAddrs
    BY <1>26 DEF SetMipAddrs, RoleTo, StartJob
  <1>27. CASE AposJobs
    BY <1>27 DEF AposJobs, RoleTo, StartJob
  <1>28. CASE StartMonitor
    BY <1>28 DEF StartMonitor, RoleTo
  <1>29. CASE RoleError
    BY <1>29 DEF RoleError, RoleTo, ShutDownAll
  <1>30. CASE RoleReady
    BY <1>30 DEF RoleReady, RoleTo
  <1>31. CASE RoleStop
    BY <1>31 DEF RoleStop, RoleTo, ShutDownAll
  <1>32. CASE RoleStopped
    BY <1>32 DEF RoleStopped, RoleTo
  <1>33. CASE RoleClose
    BY <1>33 DEF RoleClose, RoleTo, CloseMonitor, CloseBeforeInit
  <1>34. CASE RoleJoin
    BY <1>34 DEF RoleJoin, RoleTo
  <1>35. CASE MonInit
    BY <1>35 DEF MonInit, ShutDownAll
  <1>36. CASE MonClose
    BY <1>36 DEF MonClose
  <1>37. ASSUME NEW t \in Threads, StopApos(t) PROVE ShutdownInv'
    BY <1>37 DEF StopApos, StopFails, ShutDownAll
  <1>38. ASSUME NEW t \in Threads, UsetMipAddrs(t) PROVE ShutdownInv'
    BY <1>38 DEF UsetMipAddrs, StopFails, ShutDownAll
  <1>39. ASSUME NEW t \in Threads, Disable(t) PROVE ShutdownInv'
    BY <1>39 DEF Disable, StopFails, ShutDownAll
  <1>40. CASE SetActive
    BY <1>40 DEF SetActive, Dispatched, Allowed, StoreHaState
  <1>41. CASE SetStandby
    BY <1>41 DEF SetStandby, Dispatched, Allowed, StoreHaState
  <1>42. ASSUME NEW s \in {"Quiescing", "Quiesced"}, SetQuiesced(s) PROVE ShutdownInv'
    BY <1>42 DEF SetQuiesced, Dispatched, Allowed, StoreHaState
  <1>43. ASSUME NEW o \in {"Remove", "Terminate"}, RemoveOrTerminate(o) PROVE ShutdownInv'
    BY <1>43 DEF RemoveOrTerminate, Dispatched, Allowed, StoreHaState
  <1>44. CASE DispatchFails
    BY <1>44 DEF DispatchFails
  <1>45. CASE Usr2
    BY <1>45 DEF Usr2
  <1>46. CASE Instantiate
    BY <1>46 DEF Instantiate
  <1>47. ASSUME NEW w \in Watchers, NodefailOver(w) PROVE ShutdownInv'
    BY <1>47 DEF NodefailOver, ShutDownAll
  <1> QED BY <1>1, <1>2, <1>3, <1>4, <1>5, <1>6, <1>7, <1>8, <1>9, <1>10, <1>11, <1>12,
         <1>13, <1>14, <1>15, <1>16, <1>17, <1>18, <1>19, <1>20, <1>21, <1>22, <1>23, <1>24,
         <1>25, <1>26, <1>27, <1>28, <1>29, <1>30, <1>31, <1>32, <1>33, <1>34, <1>35, <1>36,
         <1>37, <1>38, <1>39, <1>40, <1>41, <1>42, <1>43, <1>44, <1>45, <1>46, <1>47,
         StepCases, Zenon

\* The resources held are those the jobs done so far have taken.
LEMMA ResourceStep ==
  ASSUME TypeOK, MainInv, ThreadInv, ShutdownInv, ResourceInv, [Next]_vars
  PROVE  ResourceInv'
  <1> USE Members DEF amfVars, admVars, roleVars, watchVars, stopVars, nodeVars, TypeOK, MainInv,
         OneRole, PollInv, StartInv, StopInv, ReplyInv, OrderInv, DownInv, NoApp,
         StopOrders, ThreadInv, StoppingWatchers, WatchInv, RoleInv, RoleMgrExists,
         ShutdownInv, Closing, ResourceInv, ResourceOrder, JobsInv, AfterStart, HeldInv,
         CleanInv, Watchers, Threads, Resources
  <1>1. CASE Ends
    BY <1>1, EndsInv DEF IInv
  <1>2. CASE UNCHANGED vars
    BY <1>2 DEF vars
  <1>3. CASE JoinStbyToActivate
    BY <1>3 DEF JoinStbyToActivate, Deactivate
  <1>4. CASE StartActv
    BY <1>4 DEF StartActv
  <1>5. CASE StartStby
    BY <1>5 DEF StartStby, RMLFile
  <1>6. CASE StartFails
    BY <1>6 DEF StartFails, RMLFile, Deactivate, Answer
  <1>7. CASE WaitOnTask
    BY <1>7 DEF WaitOnTask, Answer
  <1>8. CASE StopActv
    BY <1>8 DEF StopActv
  <1>9. CASE JoinActv
    BY <1>9 DEF JoinActv, Deactivate
  <1>10. CASE StopStby
    BY <1>10 DEF StopStby
  <1>11. CASE JoinStbyToStop
    BY <1>11 DEF JoinStbyToStop, Deactivate
  <1>12. CASE Reply
    BY <1>12 DEF Reply, Answer
  <1>13. CASE ReturnFromUsr2
    BY <1>13 DEF ReturnFromUsr2
  <1>14. CASE ActvStart
    BY <1>14 DEF ActvStart
  <1>15. CASE ActvShutdown
    BY <1>15 DEF ActvShutdown
  <1>16. CASE ActvJoin
    BY <1>16 DEF ActvJoin
  <1>17. CASE StbyStart
    BY <1>17 DEF StbyStart
  <1>18. CASE StbyReady
    BY <1>18 DEF StbyReady
  <1>19. CASE StbyShutdown
    BY <1>19 DEF StbyShutdown, CloseMonitor, CloseBeforeInit
  <1>20. CASE StbyJoin
    BY <1>20 DEF StbyJoin
  <1>21. CASE InitPipe
    BY <1>21 DEF InitPipe, RoleTo
  <1>22. CASE InitObjects
    BY <1>22 DEF InitObjects, RoleTo
  <1>23. CASE HealthCheck
    BY <1>23 DEF HealthCheck, RoleFailover, RoleTo, ShutDownAll
  <1>24. CASE SplitBrainAlgo
    BY <1>24 DEF SplitBrainAlgo, RMLFile, RoleFailover, RoleTo, ShutDownAll
  <1>25. CASE Assemble
    BY <1>25 DEF Assemble, RoleTo, StartJob
  <1>26. CASE SetMipAddrs
    BY <1>26 DEF SetMipAddrs, RoleTo, StartJob
  <1>27. CASE AposJobs
    <2>1. "data" \in held /\ "mips" \in held
      BY <1>27 DEF AposJobs
    <2>2. \/ held' = held \cup {"apos"} /\ role' = "monitor"
             /\ flags' = flags \cup {"startJobsDone"}
          \/ role' = "error" /\ left' = "dirty" /\ flags' = flags
             /\ (held' = held \/ held' = held \cup {"apos"})
      BY <1>27, Zenon DEF AposJobs, StartJob, RoleTo
    <2>3. held \cup {"apos"} = Resources
      BY <2>1
    <2> QED BY <1>27, <2>1, <2>2, <2>3 DEF AposJobs
  <1>28. CASE StartMonitor
    BY <1>28 DEF StartMonitor, RoleTo
  <1>29. CASE RoleError
    BY <1>29 DEF RoleError, RoleTo, ShutDownAll
  <1>30. CASE RoleReady
    BY <1>30 DEF RoleReady, RoleTo
  <1>31. CASE RoleStop
    BY <1>31 DEF RoleStop, RoleTo, ShutDownAll
  <1>32. CASE RoleStopped
    BY <1>32 DEF RoleStopped, RoleTo
  <1>33. CASE RoleClose
    BY <1>33 DEF RoleClose, RoleTo, CloseMonitor, CloseBeforeInit
  <1>34. CASE RoleJoin
    BY <1>34 DEF RoleJoin, RoleTo
  <1>35. CASE MonInit
    BY <1>35 DEF MonInit, ShutDownAll
  <1>36. CASE MonClose
    BY <1>36 DEF MonClose
  <1>37. ASSUME NEW t \in Threads, StopApos(t) PROVE ResourceInv'
    BY <1>37 DEF StopApos, StopFails, ShutDownAll
  <1>38. ASSUME NEW t \in Threads, UsetMipAddrs(t) PROVE ResourceInv'
    BY <1>38 DEF UsetMipAddrs, StopFails, ShutDownAll
  <1>39. ASSUME NEW t \in Threads, Disable(t) PROVE ResourceInv'
    BY <1>39 DEF Disable, StopFails, ShutDownAll
  <1>40. CASE SetActive
    BY <1>40 DEF SetActive, Dispatched, Allowed, StoreHaState
  <1>41. CASE SetStandby
    BY <1>41 DEF SetStandby, Dispatched, Allowed, StoreHaState
  <1>42. ASSUME NEW s \in {"Quiescing", "Quiesced"}, SetQuiesced(s) PROVE ResourceInv'
    BY <1>42 DEF SetQuiesced, Dispatched, Allowed, StoreHaState
  <1>43. ASSUME NEW o \in {"Remove", "Terminate"}, RemoveOrTerminate(o) PROVE ResourceInv'
    BY <1>43 DEF RemoveOrTerminate, Dispatched, Allowed, StoreHaState
  <1>44. CASE DispatchFails
    BY <1>44 DEF DispatchFails
  <1>45. CASE Usr2
    BY <1>45 DEF Usr2
  <1>46. CASE Instantiate
    BY <1>46 DEF Instantiate
  <1>47. ASSUME NEW w \in Watchers, NodefailOver(w) PROVE ResourceInv'
    BY <1>47 DEF NodefailOver, ShutDownAll
  <1> QED BY <1>1, <1>2, <1>3, <1>4, <1>5, <1>6, <1>7, <1>8, <1>9, <1>10, <1>11, <1>12,
         <1>13, <1>14, <1>15, <1>16, <1>17, <1>18, <1>19, <1>20, <1>21, <1>22, <1>23, <1>24,
         <1>25, <1>26, <1>27, <1>28, <1>29, <1>30, <1>31, <1>32, <1>33, <1>34, <1>35, <1>36,
         <1>37, <1>38, <1>39, <1>40, <1>41, <1>42, <1>43, <1>44, <1>45, <1>46, <1>47,
         StepCases, Zenon

\* tasksDone without compRestart stands for finished jobs.
LEMMA AnswerStep ==
  ASSUME TypeOK, MainInv, ThreadInv, ShutdownInv, ResourceInv, AnswerInv, [Next]_vars
  PROVE  AnswerInv'
  <1> USE Members DEF amfVars, admVars, roleVars, watchVars, stopVars, nodeVars, TypeOK, MainInv,
         OneRole, PollInv, StartInv, StopInv, ReplyInv, OrderInv, DownInv, NoApp,
         StopOrders, ThreadInv, StoppingWatchers, WatchInv, RoleInv, RoleMgrExists,
         ShutdownInv, Closing, ResourceInv, ResourceOrder, JobsInv, AfterStart, HeldInv,
         CleanInv, AnswerInv, DoneInv, ServingInv, HaStates
  <1>1. CASE Ends
    BY <1>1, EndsInv DEF IInv
  <1>2. CASE UNCHANGED vars
    BY <1>2 DEF vars
  <1>3. CASE JoinStbyToActivate
    BY <1>3 DEF JoinStbyToActivate, Deactivate
  <1>4. CASE StartActv
    BY <1>4 DEF StartActv
  <1>5. CASE StartStby
    BY <1>5 DEF StartStby, RMLFile
  <1>6. CASE StartFails
    BY <1>6 DEF StartFails, RMLFile, Deactivate, Answer
  <1>7. CASE WaitOnTask
    BY <1>7 DEF WaitOnTask, Answer
  <1>8. CASE StopActv
    BY <1>8 DEF StopActv
  <1>9. CASE JoinActv
    BY <1>9 DEF JoinActv, Deactivate
  <1>10. CASE StopStby
    BY <1>10 DEF StopStby
  <1>11. CASE JoinStbyToStop
    BY <1>11 DEF JoinStbyToStop, Deactivate
  <1>12. CASE Reply
    BY <1>12 DEF Reply, Answer
  <1>13. CASE ReturnFromUsr2
    BY <1>13 DEF ReturnFromUsr2
  <1>14. CASE ActvStart
    BY <1>14 DEF ActvStart
  <1>15. CASE ActvShutdown
    BY <1>15 DEF ActvShutdown
  <1>16. CASE ActvJoin
    BY <1>16 DEF ActvJoin
  <1>17. CASE StbyStart
    BY <1>17 DEF StbyStart
  <1>18. CASE StbyReady
    BY <1>18 DEF StbyReady
  <1>19. CASE StbyShutdown
    BY <1>19 DEF StbyShutdown, CloseMonitor, CloseBeforeInit
  <1>20. CASE StbyJoin
    BY <1>20 DEF StbyJoin
  <1>21. CASE InitPipe
    BY <1>21 DEF InitPipe, RoleTo
  <1>22. CASE InitObjects
    BY <1>22 DEF InitObjects, RoleTo
  <1>23. CASE HealthCheck
    BY <1>23 DEF HealthCheck, RoleFailover, RoleTo, ShutDownAll
  <1>24. CASE SplitBrainAlgo
    BY <1>24 DEF SplitBrainAlgo, RMLFile, RoleFailover, RoleTo, ShutDownAll
  <1>25. CASE Assemble
    BY <1>25 DEF Assemble, RoleTo, StartJob
  <1>26. CASE SetMipAddrs
    BY <1>26 DEF SetMipAddrs, RoleTo, StartJob
  <1>27. CASE AposJobs
    BY <1>27 DEF AposJobs, RoleTo, StartJob
  <1>28. CASE StartMonitor
    BY <1>28 DEF StartMonitor, RoleTo
  <1>29. CASE RoleError
    BY <1>29 DEF RoleError, RoleTo, ShutDownAll
  <1>30. CASE RoleReady
    BY <1>30 DEF RoleReady, RoleTo
  <1>31. CASE RoleStop
    BY <1>31 DEF RoleStop, RoleTo, ShutDownAll
  <1>32. CASE RoleStopped
    BY <1>32 DEF RoleStopped, RoleTo
  <1>33. CASE RoleClose
    BY <1>33 DEF RoleClose, RoleTo, CloseMonitor, CloseBeforeInit
  <1>34. CASE RoleJoin
    BY <1>34 DEF RoleJoin, RoleTo
  <1>35. CASE MonInit
    BY <1>35 DEF MonInit, ShutDownAll
  <1>36. CASE MonClose
    BY <1>36 DEF MonClose
  <1>37. ASSUME NEW t \in Threads, StopApos(t) PROVE AnswerInv'
    BY <1>37 DEF StopApos, StopFails, ShutDownAll
  <1>38. ASSUME NEW t \in Threads, UsetMipAddrs(t) PROVE AnswerInv'
    BY <1>38 DEF UsetMipAddrs, StopFails, ShutDownAll
  <1>39. ASSUME NEW t \in Threads, Disable(t) PROVE AnswerInv'
    BY <1>39 DEF Disable, StopFails, ShutDownAll, Threads, Watchers
  <1>40. CASE SetActive
    BY <1>40 DEF SetActive, Dispatched, Allowed, StoreHaState
  <1>41. CASE SetStandby
    BY <1>41 DEF SetStandby, Dispatched, Allowed, StoreHaState
  <1>42. ASSUME NEW s \in {"Quiescing", "Quiesced"}, SetQuiesced(s) PROVE AnswerInv'
    BY <1>42 DEF SetQuiesced, Dispatched, Allowed, StoreHaState
  <1>43. ASSUME NEW o \in {"Remove", "Terminate"}, RemoveOrTerminate(o) PROVE AnswerInv'
    BY <1>43 DEF RemoveOrTerminate, Dispatched, Allowed, StoreHaState
  <1>44. CASE DispatchFails
    BY <1>44 DEF DispatchFails
  <1>45. CASE Usr2
    BY <1>45 DEF Usr2
  <1>46. CASE Instantiate
    BY <1>46 DEF Instantiate
  <1>47. ASSUME NEW w \in Watchers, NodefailOver(w) PROVE AnswerInv'
    BY <1>47 DEF NodefailOver, ShutDownAll
  <1> QED BY <1>1, <1>2, <1>3, <1>4, <1>5, <1>6, <1>7, <1>8, <1>9, <1>10, <1>11, <1>12,
         <1>13, <1>14, <1>15, <1>16, <1>17, <1>18, <1>19, <1>20, <1>21, <1>22, <1>23, <1>24,
         <1>25, <1>26, <1>27, <1>28, <1>29, <1>30, <1>31, <1>32, <1>33, <1>34, <1>35, <1>36,
         <1>37, <1>38, <1>39, <1>40, <1>41, <1>42, <1>43, <1>44, <1>45, <1>46, <1>47,
         StepCases, Zenon

\* Unless a failure is being handled, only RoleMgr can be in StopJobs().
LEMMA OnlyRoleMgr ==
  ASSUME TypeOK, ThreadInv, ~Handling
  PROVE  \A w \in Watchers : stop[w] = "no"
  BY DEF TypeOK, ThreadInv, StoppingWatchers, WatchInv, Handling, Watchers

\* What a stop of the application, and AMF's next order, can find.
LEMMA OrderlyStep ==
  ASSUME TypeOK, MainInv, ThreadInv, ShutdownInv, ResourceInv, AnswerInv, OrderlyInv,
         [Next]_vars
  PROVE  OrderlyInv'
  <1> USE Members DEF amfVars, admVars, roleVars, watchVars, stopVars, nodeVars, TypeOK, MainInv,
         OneRole, PollInv, StartInv, StopInv, ReplyInv, OrderInv, DownInv, NoApp,
         StopOrders, ThreadInv, StoppingWatchers, WatchInv, RoleInv, RoleMgrExists,
         ShutdownInv, Closing, ResourceInv, ResourceOrder, JobsInv, AfterStart, HeldInv,
         CleanInv, AnswerInv, DoneInv, ServingInv, HaStates, OrderlyInv, CallInv,
         StopOfServing, AloneInv, LeftInv, Broken, Handling
  <1>1. CASE Ends
    BY <1>1, EndsInv DEF IInv
  <1>2. CASE UNCHANGED vars
    BY <1>2 DEF vars
  <1>3. CASE JoinStbyToActivate
    BY <1>3 DEF JoinStbyToActivate, Deactivate
  <1>4. CASE StartActv
    BY <1>4 DEF StartActv
  <1>5. CASE StartStby
    BY <1>5 DEF StartStby, RMLFile
  <1>6. CASE StartFails
    BY <1>6 DEF StartFails, RMLFile, Deactivate, Answer
  <1>7. CASE WaitOnTask
    BY <1>7 DEF WaitOnTask, Answer
  <1>8. CASE StopActv
    BY <1>8 DEF StopActv
  <1>9. CASE JoinActv
    BY <1>9 DEF JoinActv, Deactivate
  <1>10. CASE StopStby
    BY <1>10 DEF StopStby
  <1>11. CASE JoinStbyToStop
    BY <1>11 DEF JoinStbyToStop, Deactivate
  <1>12. CASE Reply
    BY <1>12 DEF Reply, Answer
  <1>13. CASE ReturnFromUsr2
    BY <1>13 DEF ReturnFromUsr2
  <1>14. CASE ActvStart
    BY <1>14 DEF ActvStart
  <1>15. CASE ActvShutdown
    BY <1>15 DEF ActvShutdown
  <1>16. CASE ActvJoin
    BY <1>16 DEF ActvJoin
  <1>17. CASE StbyStart
    BY <1>17 DEF StbyStart
  <1>18. CASE StbyReady
    BY <1>18 DEF StbyReady
  <1>19. CASE StbyShutdown
    BY <1>19 DEF StbyShutdown, CloseMonitor, CloseBeforeInit
  <1>20. CASE StbyJoin
    BY <1>20 DEF StbyJoin
  <1>21. CASE InitPipe
    BY <1>21 DEF InitPipe, RoleTo
  <1>22. CASE InitObjects
    BY <1>22 DEF InitObjects, RoleTo
  <1>23. CASE HealthCheck
    BY <1>23 DEF HealthCheck, RoleFailover, RoleTo, ShutDownAll
  <1>24. CASE SplitBrainAlgo
    BY <1>24 DEF SplitBrainAlgo, RMLFile, RoleFailover, RoleTo, ShutDownAll
  <1>25. CASE Assemble
    BY <1>25 DEF Assemble, RoleTo, StartJob
  <1>26. CASE SetMipAddrs
    BY <1>26 DEF SetMipAddrs, RoleTo, StartJob
  <1>27. CASE AposJobs
    BY <1>27 DEF AposJobs, RoleTo, StartJob
  <1>28. CASE StartMonitor
    BY <1>28 DEF StartMonitor, RoleTo
  <1>29. CASE RoleError
    <2>1. AloneInv'
      BY <1>29, OnlyRoleMgr DEF RoleError, RoleTo, ShutDownAll, Threads, Watchers, Resources
    <2>2. CallInv' /\ StopOfServing' /\ LeftInv'
      BY <1>29 DEF RoleError, RoleTo, ShutDownAll
    <2> QED BY <2>1, <2>2
  <1>30. CASE RoleReady
    BY <1>30 DEF RoleReady, RoleTo
  <1>31. CASE RoleStop
    <2>1. AloneInv'
      BY <1>31, OnlyRoleMgr DEF RoleStop, RoleTo, ShutDownAll, Threads, Watchers, Resources
    <2>2. CallInv' /\ StopOfServing' /\ LeftInv'
      BY <1>31 DEF RoleStop, RoleTo, ShutDownAll
    <2> QED BY <2>1, <2>2
  <1>32. CASE RoleStopped
    BY <1>32 DEF RoleStopped, RoleTo
  <1>33. CASE RoleClose
    BY <1>33 DEF RoleClose, RoleTo, CloseMonitor, CloseBeforeInit
  <1>34. CASE RoleJoin
    BY <1>34 DEF RoleJoin, RoleTo
  <1>35. CASE MonInit
    BY <1>35 DEF MonInit, ShutDownAll
  <1>36. CASE MonClose
    BY <1>36 DEF MonClose
  <1>37. ASSUME NEW t \in Threads, StopApos(t) PROVE OrderlyInv'
    <2>1. AloneInv'
      BY <1>37 DEF StopApos, StopFails, Threads, Watchers
    <2>2. CallInv' /\ StopOfServing' /\ LeftInv'
      BY <1>37 DEF StopApos, StopFails, ShutDownAll
    <2> QED BY <2>1, <2>2
  <1>38. ASSUME NEW t \in Threads, UsetMipAddrs(t) PROVE OrderlyInv'
    <2>1. AloneInv'
      BY <1>38 DEF UsetMipAddrs, StopFails, Threads, Watchers
    <2>2. CallInv' /\ StopOfServing' /\ LeftInv'
      BY <1>38 DEF UsetMipAddrs, StopFails, ShutDownAll
    <2> QED BY <2>1, <2>2
  <1>39. ASSUME NEW t \in Threads, Disable(t) PROVE OrderlyInv'
    <2>1. proc = "up" /\ proc' = proc /\ amf' = amf /\ actv' = actv /\ role' = role
      BY <1>39 DEF Disable, Threads, Watchers
    <2>2. CallInv' /\ LeftInv' /\ AloneInv'
      BY <1>39, <2>1 DEF Disable, StopFails, Threads, Watchers
    <2>3. "mips" \notin held /\ "apos" \notin held
      BY <1>39 DEF Disable
    <2>4. CASE held' = held \ {"data"} /\ left' = (IF held' = {} THEN "clean" ELSE left)
                 /\ flags' = flags \ {"tasksDone", "startJobsDone"}
      <3>1. held' = {}
        BY <2>3, <2>4 DEF Resources
      <3> QED BY <1>39, <2>1, <2>2, <2>4, <3>1 DEF Disable
    <2>5. CASE StopFails(t, "data")
      BY <1>39, <2>1, <2>2, <2>5 DEF Disable, StopFails, ShutDownAll
    <2> QED BY <1>39, <2>4, <2>5 DEF Disable
  <1>40. CASE SetActive
    BY <1>40 DEF SetActive, Dispatched, Allowed, StoreHaState
  <1>41. CASE SetStandby
    BY <1>41 DEF SetStandby, Dispatched, Allowed, StoreHaState
  <1>42. ASSUME NEW s \in {"Quiescing", "Quiesced"}, SetQuiesced(s) PROVE OrderlyInv'
    BY <1>42 DEF SetQuiesced, Dispatched, Allowed, StoreHaState
  <1>43. ASSUME NEW o \in {"Remove", "Terminate"}, RemoveOrTerminate(o) PROVE OrderlyInv'
    BY <1>43 DEF RemoveOrTerminate, Dispatched, Allowed, StoreHaState
  <1>44. CASE DispatchFails
    BY <1>44 DEF DispatchFails
  <1>45. CASE Usr2
    BY <1>45 DEF Usr2
  <1>46. CASE Instantiate
    BY <1>46 DEF Instantiate
  <1>47. ASSUME NEW w \in Watchers, NodefailOver(w) PROVE OrderlyInv'
    BY <1>47 DEF NodefailOver, ShutDownAll
  <1> QED BY <1>1, <1>2, <1>3, <1>4, <1>5, <1>6, <1>7, <1>8, <1>9, <1>10, <1>11, <1>12,
         <1>13, <1>14, <1>15, <1>16, <1>17, <1>18, <1>19, <1>20, <1>21, <1>22, <1>23, <1>24,
         <1>25, <1>26, <1>27, <1>28, <1>29, <1>30, <1>31, <1>32, <1>33, <1>34, <1>35, <1>36,
         <1>37, <1>38, <1>39, <1>40, <1>41, <1>42, <1>43, <1>44, <1>45, <1>46, <1>47,
         StepCases, Zenon

\* No message that a join depends on is lost, and nobody is inside
\* nodefailOver() or a component restart without being in shutDown_all().
LEMMA WaitStep ==
  ASSUME TypeOK, MainInv, ThreadInv, ShutdownInv, WaitInv, [Next]_vars
  PROVE  WaitInv'
  <1> USE Members DEF amfVars, admVars, roleVars, watchVars, stopVars, nodeVars, TypeOK, MainInv,
         OneRole, StartInv, StopInv, DownInv, NoApp, ThreadInv, StoppingWatchers, WatchInv,
         RoleInv, RoleMgrExists, ShutdownInv, Closing, WaitInv, MonTold
  <1>1. CASE Ends
    BY <1>1 DEF Ends, EndProcess, Reboot, ResetProcess
  <1>2. CASE UNCHANGED vars
    BY <1>2 DEF vars
  <1>3. CASE JoinStbyToActivate
    BY <1>3 DEF JoinStbyToActivate, Deactivate
  <1>4. CASE StartActv
    BY <1>4 DEF StartActv
  <1>5. CASE StartStby
    BY <1>5 DEF StartStby, RMLFile
  <1>6. CASE StartFails
    BY <1>6 DEF StartFails, RMLFile, Deactivate, Answer
  <1>7. CASE WaitOnTask
    BY <1>7 DEF WaitOnTask, Answer
  <1>8. CASE StopActv
    BY <1>8 DEF StopActv
  <1>9. CASE JoinActv
    BY <1>9 DEF JoinActv, Deactivate
  <1>10. CASE StopStby
    BY <1>10 DEF StopStby
  <1>11. CASE JoinStbyToStop
    BY <1>11 DEF JoinStbyToStop, Deactivate
  <1>12. CASE Reply
    BY <1>12 DEF Reply, Answer
  <1>13. CASE ReturnFromUsr2
    BY <1>13 DEF ReturnFromUsr2
  <1>14. CASE ActvStart
    BY <1>14 DEF ActvStart
  <1>15. CASE ActvShutdown
    BY <1>15 DEF ActvShutdown
  <1>16. CASE ActvJoin
    BY <1>16 DEF ActvJoin
  <1>17. CASE StbyStart
    BY <1>17 DEF StbyStart
  <1>18. CASE StbyReady
    BY <1>18 DEF StbyReady
  <1>19. CASE StbyShutdown
    BY <1>19 DEF StbyShutdown, CloseMonitor, CloseBeforeInit
  <1>20. CASE StbyJoin
    BY <1>20 DEF StbyJoin
  <1>21. CASE InitPipe
    BY <1>21 DEF InitPipe, RoleTo
  <1>22. CASE InitObjects
    BY <1>22 DEF InitObjects, RoleTo
  <1>23. CASE HealthCheck
    BY <1>23 DEF HealthCheck, RoleFailover, RoleTo, ShutDownAll
  <1>24. CASE SplitBrainAlgo
    BY <1>24 DEF SplitBrainAlgo, RMLFile, RoleFailover, RoleTo, ShutDownAll
  <1>25. CASE Assemble
    BY <1>25 DEF Assemble, RoleTo, StartJob
  <1>26. CASE SetMipAddrs
    BY <1>26 DEF SetMipAddrs, RoleTo, StartJob
  <1>27. CASE AposJobs
    BY <1>27 DEF AposJobs, RoleTo, StartJob
  <1>28. CASE StartMonitor
    BY <1>28 DEF StartMonitor, RoleTo
  <1>29. CASE RoleError
    BY <1>29 DEF RoleError, RoleTo, ShutDownAll
  <1>30. CASE RoleReady
    BY <1>30 DEF RoleReady, RoleTo
  <1>31. CASE RoleStop
    BY <1>31 DEF RoleStop, RoleTo, ShutDownAll
  <1>32. CASE RoleStopped
    BY <1>32 DEF RoleStopped, RoleTo
  <1>33. CASE RoleClose
    BY <1>33 DEF RoleClose, CloseMonitor, CloseBeforeInit, RoleTo
  <1>34. CASE RoleJoin
    BY <1>34 DEF RoleJoin, RoleTo
  <1>35. CASE MonInit
    BY <1>35 DEF MonInit, ShutDownAll
  <1>36. CASE MonClose
    BY <1>36 DEF MonClose
  <1>37. ASSUME NEW t \in Threads, StopApos(t) PROVE WaitInv'
    BY <1>37 DEF StopApos, StopFails, ShutDownAll
  <1>38. ASSUME NEW t \in Threads, UsetMipAddrs(t) PROVE WaitInv'
    BY <1>38 DEF UsetMipAddrs, StopFails, ShutDownAll
  <1>39. ASSUME NEW t \in Threads, Disable(t) PROVE WaitInv'
    BY <1>39 DEF Disable, StopFails, ShutDownAll
  <1>40. CASE SetActive
    BY <1>40 DEF SetActive, Dispatched, Allowed, StoreHaState
  <1>41. CASE SetStandby
    BY <1>41 DEF SetStandby, Dispatched, Allowed, StoreHaState
  <1>42. ASSUME NEW s \in {"Quiescing", "Quiesced"}, SetQuiesced(s) PROVE WaitInv'
    BY <1>42 DEF SetQuiesced, Dispatched, Allowed, StoreHaState
  <1>43. ASSUME NEW o \in {"Remove", "Terminate"}, RemoveOrTerminate(o) PROVE WaitInv'
    BY <1>43 DEF RemoveOrTerminate, Dispatched, Allowed, StoreHaState
  <1>44. CASE DispatchFails
    BY <1>44 DEF DispatchFails
  <1>45. CASE Usr2
    BY <1>45 DEF Usr2
  <1>46. CASE Instantiate
    BY <1>46 DEF Instantiate
  <1>47. ASSUME NEW w \in Watchers, NodefailOver(w) PROVE WaitInv'
    <2>1. stop \in [Threads -> {"no", "apos", "mips", "data", "ok"}] /\ w \in Threads
      BY DEF Threads
    <2>2. \/ stop' = [stop EXCEPT ![w] = "apos"] \/ stop' = [stop EXCEPT ![w] = "ok"]
      BY <1>47 DEF NodefailOver, ShutDownAll
    <2>3. \A t \in failover' : stop'[t] # "no"
      BY <1>47, <2>1, <2>2 DEF NodefailOver
    <2>4. stop'["DRBDMon"] = stop["DRBDMon"] \/ stop'["DRBDMon"] # "no"
      BY <2>1, <2>2
    <2>5. stop'["RoleMgr"] = stop["RoleMgr"]
      BY <2>1, <2>2 DEF Watchers
    <2> QED BY <1>47, <2>3, <2>4, <2>5 DEF NodefailOver
  <1> QED BY <1>1, <1>2, <1>3, <1>4, <1>5, <1>6, <1>7, <1>8, <1>9, <1>10, <1>11, <1>12,
         <1>13, <1>14, <1>15, <1>16, <1>17, <1>18, <1>19, <1>20, <1>21, <1>22, <1>23, <1>24,
         <1>25, <1>26, <1>27, <1>28, <1>29, <1>30, <1>31, <1>32, <1>33, <1>34, <1>35, <1>36,
         <1>37, <1>38, <1>39, <1>40, <1>41, <1>42, <1>43, <1>44, <1>45, <1>46, <1>47,
         StepCases, Zenon

\* The initial state satisfies the invariant.
LEMMA InitInv == Init => IInv
  <1> SUFFICES ASSUME Init PROVE IInv
    OBVIOUS
  <1> USE DEF Init, FreshProcess
  <1>1. TypeOK
    BY DEF TypeOK, HaStates, Orders, Watchers, Threads
  <1>2. MainInv
    BY DEF MainInv, OneRole, PollInv, StartInv, StopInv, ReplyInv, OrderInv, DownInv, NoApp
  <1>3. ThreadInv /\ ShutdownInv
    BY DEF ThreadInv, StoppingWatchers, WatchInv, RoleInv, RoleMgrExists, ShutdownInv, Closing,
           Watchers, Threads
  <1>4. ResourceInv
    BY DEF ResourceInv, ResourceOrder, JobsInv, HeldInv, CleanInv, Threads, Watchers
  <1>5. AnswerInv
    BY DEF AnswerInv, DoneInv, ServingInv
  <1>6. OrderlyInv
    BY DEF OrderlyInv, CallInv, StopOfServing, AloneInv, LeftInv, Threads
  <1>7. WaitInv
    BY DEF WaitInv, MonTold, Closing, Watchers
  <1> QED BY <1>1, <1>2, <1>3, <1>4, <1>5, <1>6, <1>7 DEF IInv

\* The invariant is inductive: it holds in every reachable state, for stop
\* scripts that may fail and for scripts that may not.
THEOREM Inductive == Spec => []IInv
  <1>1. IInv /\ [Next]_vars => IInv'
    BY TypeStep, MainStep, ThreadStep, ShutdownStep, ResourceStep, AnswerStep, OrderlyStep,
       WaitStep DEF IInv
  <1> QED BY InitInv, <1>1, PTL DEF Spec

\* Every variable keeps its type.
THEOREM TypeCorrect == Spec => []TypeOK
  <1>1. IInv => TypeOK
    BY DEF IInv
  <1> QED BY Inductive, <1>1, PTL

\* The active and the standby application never run together.
THEOREM RolesExclusive == Spec => []OneRole
  <1>1. IInv => OneRole
    BY DEF IInv, MainInv
  <1> QED BY Inductive, <1>1, PTL

\* Deleting an application leaves no thread, message or handler behind.
THEOREM NothingLeftRunning == Spec => []NoOrphans
  <1>1. IInv => NoOrphans
    <2> SUFFICES ASSUME IInv, actv = "none", stby = "none" PROVE NoOrphans
      BY DEF NoOrphans
    <2>1. role = "off" /\ drbdObj = "null" /\ watch["Pipe"] = "off" /\ watch["DRBDMon"] = "off"
      BY DEF IInv, ThreadInv, RoleInv, WatchInv, RoleMgrExists
    <2>2. /\ \A w \in Watchers : watch[w] = "off" /\ stop[w] = "no" /\ w \notin failover
          /\ stop["RoleMgr"] = "no" /\ "RoleMgr" \notin failover
      BY <2>1 DEF IInv, ThreadInv, RoleInv, StoppingWatchers, Watchers
    <2>3. queued = {}
      BY <2>1 DEF IInv, TypeOK, ThreadInv, WatchInv, RoleInv, RoleMgrExists, Tasks
    <2>4. failover = {}
      BY <2>2 DEF IInv, TypeOK, Threads
    <2> QED BY <2>1, <2>2, <2>3, <2>4 DEF NoOrphans, Threads
  <1> QED BY Inductive, <1>1, PTL

\* A node that is not active holds nothing of the active role.
THEOREM ResourcesReleased == Spec => []Released
  <1>1. IInv => Released
    <2> SUFFICES ASSUME IInv, actv = "none", left = "clean" PROVE held = {}
      BY DEF Released
    <2>1. role = "off"
      BY DEF IInv, ThreadInv, RoleInv, RoleMgrExists
    <2>2. "startJobsDone" \notin flags
      BY <2>1 DEF IInv, ResourceInv, JobsInv, AfterStart, Closing
    <2> QED BY <2>1, <2>2 DEF IInv, TypeOK, Resources, ResourceInv, CleanInv
  <1> QED BY Inductive, <1>1, PTL

\* The resources are taken and given up in order.
THEOREM ResourcesOrdered == Spec => []ResourceOrder
  <1>1. IInv => ResourceOrder
    BY DEF IInv, ResourceInv
  <1> QED BY Inductive, <1>1, PTL

\* An "ok" to the active order is true as long as no failure is handled.
THEOREM AnswerHonest == Spec => []ActiveAnswerTrue
  <1>1. IInv => ActiveAnswerTrue
    <2> SUFFICES ASSUME IInv, proc = "up", amf = "poll", clc = "quiet", haState = "Active",
                        resp = "ok", failover = {}, watch["DRBDMon"] # "restart"
                 PROVE  "startJobsDone" \in flags /\ held = Resources
      BY DEF ActiveAnswerTrue
    <2>1. role = "getq" /\ "compRestart" \notin flags
      BY DEF IInv, AnswerInv, ServingInv
    <2>2. "startJobsDone" \in flags
      BY <2>1 DEF IInv, AnswerInv, DoneInv
    <2>3. \A t \in Threads : stop[t] = "no"
      BY <2>1 DEF IInv, ThreadInv, RoleInv, WatchInv, StoppingWatchers, Threads, Watchers
    <2> QED BY <2>2, <2>3 DEF IInv, ResourceInv, HeldInv
  <1> QED BY Inductive, <1>1, PTL

\* RoleMgr::close(u_long) only runs in an ordered shutdown.
THEOREM NeverAbnormal == Spec => []NoAbnormalClose
  <1>1. IInv => NoAbnormalClose
    BY DEF IInv, ShutdownInv, Closing, NoAbnormalClose
  <1> QED BY Inductive, <1>1, PTL

\* The chain of joins by which an application ends cannot block: whatever the
\* watching threads were doing when the order came, one of the threads that
\* the main thread waits for can take its next step.
THEOREM NoDeadlock == Spec => []JoinsAdvance
  <1>1. IInv => JoinsAdvance
    <2> SUFFICES ASSUME IInv PROVE JoinsAdvance
      OBVIOUS
    <2> USE Members DEF IInv, TypeOK, ThreadInv, StoppingWatchers, WatchInv, RoleInv,
           RoleMgrExists, ShutdownInv, Closing, WaitInv, MonTold, StopCan
    <2>1. watch["Pipe"] = "busy" => PipeCan
      BY DEF PipeCan
    <2>2. watch["DRBDMon"] \in {"restart", "busy"} => MonCan
      BY DEF MonCan
    <2>3. MonTold /\ watch["DRBDMon"] # "off" => MonCan
      BY <2>2 DEF MonCan
    <2>4. role = "joinMon" => RoleCan \/ MonCan \/ PipeCan
      BY <2>1, <2>3 DEF RoleCan
    <2>5. actv = "closing" /\ role \notin {"off", "joined", "joinMon"} => RoleCan
      BY DEF RoleCan
    <2>6. ASSUME amf = "joinActv", actv # "done"
          PROVE  \/ ActvCan \/ (actv = "getq" /\ PipeCan)
                 \/ (actv = "closing" /\ (RoleCan \/ (role = "joinMon" /\ (MonCan \/ PipeCan))))
      BY <2>1, <2>4, <2>5, <2>6 DEF ActvCan, MainInv, StopInv
    <2>7. ASSUME amf = "joinStby", stby # "done"
          PROVE  StbyCan \/ (stby = "closing" /\ MonCan)
      BY <2>3, <2>7 DEF StbyCan, MainInv, StopInv
    <2> QED BY <2>6, <2>7 DEF JoinsAdvance
  <1> QED BY <1>1, Inductive, PTL

=============================================================================
