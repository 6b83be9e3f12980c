--------------------------- MODULE DevMonProofs ----------------------------
(***************************************************************************)
(* Proofs about DevMon.                                                    *)
(***************************************************************************)
EXTENDS DevMonInv, TLAPS

\* The parts of the invariant that do not need the last one.
Core == TypeOK /\ AdmInv /\ MainInv /\ SignalInv

\* The two monitors.
LEMMA Monitors ==
  /\ "DRBDMon" \in Monitor /\ "DRBDRecovery" \in Monitor
  /\ \A m \in Monitor : m = "DRBDMon" \/ m = "DRBDRecovery"
BY DEF Monitor

\* A process that ends leaves nothing behind.
LEMMA Ended ==
  ASSUME EndProcess
  PROVE  Core'
<1> USE BacklogAssumption, Monitors DEF EndProcess
<1>1. TypeOK'
  <2>1. (haState \in HaStates /\ prevHa \in HaStates)'
    BY DEF HaStates
  <2>2. (/\ mon \in [Monitor -> {"off", "init", "getq", "check", "close", "join", "done"}]
         /\ backlog \in [Monitor -> 0 .. MaxBacklog])'
    OBVIOUS
  <2> QED
    BY <2>1, <2>2 DEF TypeOK
<1>2. AdmInv' /\ MainInv' /\ SignalInv'
  BY DEF AdmInv, MainInv, SignalInv, Opening, Closing, HaStates
<1> QED
  BY <1>1, <1>2 DEF Core

\* The steps of the main thread, and the signals.
LEMMA MainSafe ==
  ASSUME Core,
         \/ \E o \in HaStates \cup {"Remove", "Terminate"} : Callback(o)
         \/ MainStep \/ DispatchFails \/ Usr2 \/ Kill \/ Signal \/ Instantiate
  PROVE  Core'
<1> USE BacklogAssumption, Monitors DEF Core, Flags, Opening, Closing, amfVars, admVars, monVars
<1>1. ASSUME NEW o \in HaStates \cup {"Remove", "Terminate"}, Callback(o)
      PROVE  Core'
  <2>2. AdmInv'
    BY <1>1 DEF Callback, AdmInv
  <2>3. TypeOK'
    BY <1>1 DEF Callback, TypeOK, HaStates
  <2>4. MainInv'
    BY <1>1 DEF Callback, TypeOK, MainInv, SignalInv, HaStates
  <2>5. SignalInv'
    BY <1>1 DEF Callback, TypeOK, MainInv, SignalInv
  <2> QED
    BY <2>2, <2>3, <2>4, <2>5
<1>2. CASE Start
  <2>1. AdmInv'
    BY <1>2 DEF Start, AdmInv, MainInv
  <2>2. TypeOK'
    BY <1>2 DEF Start, TypeOK
  <2>3. MainInv'
    BY <1>2 DEF Start, TypeOK, MainInv, SignalInv, HaStates
  <2>4. SignalInv'
    BY <1>2 DEF Start, TypeOK, MainInv, SignalInv
  <2> QED
    BY <2>1, <2>2, <2>3, <2>4
<1>3. CASE StartFails
  <2>1. AdmInv'
    BY <1>3 DEF StartFails, DeleteAdm, TypeOK, AdmInv, MainInv
  <2>2. TypeOK'
    BY <1>3 DEF StartFails, DeleteAdm, Answer, TypeOK
  <2>3. MainInv'
    BY <1>3 DEF StartFails, DeleteAdm, Answer, TypeOK, MainInv, SignalInv, HaStates
  <2>4. SignalInv'
    BY <1>3 DEF StartFails, DeleteAdm, Answer, TypeOK, MainInv, SignalInv
  <2> QED
    BY <2>1, <2>2, <2>3, <2>4
<1>4. CASE Stop
  <2>1. AdmInv'
    BY <1>4 DEF Stop, AdmInv
  <2>2. TypeOK'
    BY <1>4 DEF Stop, TypeOK
  <2>3. MainInv'
    BY <1>4 DEF Stop, TypeOK, MainInv, SignalInv, HaStates
  <2>4. SignalInv'
    BY <1>4 DEF Stop, TypeOK, MainInv, SignalInv
  <2> QED
    BY <2>1, <2>2, <2>3, <2>4
<1>5. CASE Join
  <2>1. AdmInv'
    BY <1>5 DEF Join, DeleteAdm, TypeOK, AdmInv
  <2>2. TypeOK'
    BY <1>5 DEF Join, DeleteAdm, TypeOK
  <2>3. MainInv'
    BY <1>5 DEF Join, DeleteAdm, TypeOK, MainInv, SignalInv, HaStates
  <2>4. SignalInv'
    BY <1>5 DEF Join, DeleteAdm, TypeOK, MainInv, SignalInv
  <2> QED
    BY <2>1, <2>2, <2>3, <2>4
<1>6. CASE Reply
  <2>1. AdmInv'
    BY <1>6 DEF Reply, AdmInv
  <2>2. TypeOK'
    BY <1>6 DEF Reply, Answer, TypeOK
  <2>3. MainInv'
    BY <1>6 DEF Reply, Answer, TypeOK, MainInv, SignalInv, HaStates
  <2>4. SignalInv'
    BY <1>6 DEF Reply, Answer, TypeOK, MainInv, SignalInv
  <2> QED
    BY <2>1, <2>2, <2>3, <2>4
<1>7. CASE ReturnFromUsr2 \/ DispatchFails
  <2>1. AdmInv'
    BY <1>7 DEF ReturnFromUsr2, DispatchFails, AdmInv
  <2>2. TypeOK'
    BY <1>7 DEF ReturnFromUsr2, DispatchFails, TypeOK
  <2>3. MainInv'
    BY <1>7 DEF ReturnFromUsr2, DispatchFails, TypeOK, MainInv, SignalInv, HaStates
  <2>4. SignalInv'
    BY <1>7 DEF ReturnFromUsr2, DispatchFails, TypeOK, MainInv, SignalInv
  <2> QED
    BY <2>1, <2>2, <2>3, <2>4
<1>8. CASE Usr2
  <2>1. AdmInv'
    BY <1>8 DEF Usr2, AdmInv
  <2>2. TypeOK'
    BY <1>8 DEF Usr2, TypeOK
  <2>3. MainInv'
    BY <1>8 DEF Usr2, TypeOK, MainInv, SignalInv, HaStates
  <2>4. SignalInv'
    BY <1>8 DEF Usr2, TypeOK, MainInv, SignalInv
  <2> QED
    BY <2>1, <2>2, <2>3, <2>4
<1>9. CASE Instantiate
  BY <1>9 DEF Instantiate, TypeOK, AdmInv, MainInv, SignalInv
<1>10. CASE Signal /\ ~EndProcess
  <2>1. AdmInv'
    BY <1>10 DEF Signal, AdmInv
  <2>2. TypeOK'
    BY <1>10 DEF Signal, TypeOK
  <2>3. MainInv'
    BY <1>10 DEF Signal, TypeOK, MainInv, SignalInv, HaStates
  <2>4. SignalInv'
    BY <1>10 DEF Signal, TypeOK, MainInv, SignalInv
  <2> QED
    BY <2>1, <2>2, <2>3, <2>4
<1>11. CASE EndProcess
  BY <1>11, Ended
<1> QED
  BY <1>1, <1>2, <1>3, <1>4, <1>5, <1>6, <1>7, <1>8, <1>9, <1>10, <1>11 DEF MainStep, Exit, Kill

\* The steps of the Adm thread.
LEMMA AdmSafe ==
  ASSUME Core, AdmStep
  PROVE  Core'
<1> USE Monitors DEF Core, TypeOK, AdmInv, Flags, Opening, Closing, amfVars, monVars
<1>1. CASE AdmOpen
  <2>1. TypeOK'
    <3>1. CASE adm = "fifo"
      BY <1>1, <3>1 DEF AdmOpen
    <3>2. CASE adm = "openMon"
      BY <1>1, <3>2 DEF AdmOpen
    <3>3. CASE adm = "openRcvy"
      BY <1>1, <3>3 DEF AdmOpen
    <3> QED
      BY <1>1, <3>1, <3>2, <3>3 DEF AdmOpen
  <2>2. AdmInv'
    <3>1. CASE adm = "fifo"
      BY <1>1, <3>1 DEF AdmOpen
    <3>2. CASE adm = "openMon"
      BY <1>1, <3>2 DEF AdmOpen
    <3>3. CASE adm = "openRcvy"
      BY <1>1, <3>3 DEF AdmOpen
    <3> QED
      BY <1>1, <3>1, <3>2, <3>3 DEF AdmOpen
  <2>3. MainInv' /\ SignalInv'
    BY <1>1 DEF AdmOpen, MainInv, SignalInv
  <2> QED
    BY <2>1, <2>2, <2>3
<1>2. CASE AdmOpenFails
  BY <1>2, Ended DEF AdmOpenFails
<1>3. CASE ShutDownAll
  BY <1>3 DEF ShutDownAll, MainInv, SignalInv
<1>4. CASE CloseMon
  BY <1>4 DEF CloseMon, MainInv, SignalInv
<1>5. CASE CloseRcvy
  BY <1>5 DEF CloseRcvy, MainInv, SignalInv
<1>6. CASE FifoClose
  BY <1>6 DEF FifoClose, MainInv, SignalInv
<1> QED
  BY <1>1, <1>2, <1>3, <1>4, <1>5, <1>6 DEF AdmStep

\* The steps of a monitor and of its reactor.
LEMMA MonSafe ==
  ASSUME Core, NEW m \in Monitor, MonStep(m) \/ HandleTimeout(m) \/ ReactorEnds(m)
  PROVE  Core'
<1> USE BacklogAssumption, Monitors DEF Core, TypeOK, AdmInv, MonGoto, amfVars, admVars
<1>1. CASE EndProcess
  BY <1>1, Ended
<1>2. ASSUME UNCHANGED <<proc, amfVars, admVars>> PROVE MainInv' /\ SignalInv'
  BY <1>2 DEF MainInv, SignalInv
<1>3. CASE MonInit(m)
  BY <1>2, <1>3 DEF MonInit
<1>4. CASE HealthCheck(m)
  BY <1>2, <1>4 DEF HealthCheck
<1>5. CASE MonClose(m)
  BY <1>2, <1>5 DEF MonClose
<1>6. CASE CloseHook(m) /\ ~EndProcess
  BY <1>2, <1>6 DEF CloseHook
<1>7. CASE CloseDone(m)
  BY <1>2, <1>7 DEF CloseDone
<1>8. CASE HandleTimeout(m)
  BY <1>2, <1>8 DEF HandleTimeout
<1>9. CASE ReactorEnds(m)
  BY <1>2, <1>9 DEF ReactorEnds
<1> QED
  BY <1>1, <1>3, <1>4, <1>5, <1>6, <1>7, <1>8, <1>9 DEF MonStep, MonInitFails

\* No message that a join depends on is lost.
LEMMA WaitSafe ==
  ASSUME Core, WaitInv, [Next]_vars
  PROVE  WaitInv'
<1> USE Monitors DEF Core, TypeOK, WaitInv, Opening, MonGoto, amfVars, admVars, monVars
<1>1. CASE EndProcess
  BY <1>1 DEF EndProcess
<1>2. CASE UNCHANGED vars
  BY <1>2 DEF vars
<1>3. ASSUME NEW o \in HaStates \cup {"Remove", "Terminate"}, Callback(o) PROVE WaitInv'
  BY <1>3 DEF Callback
<1>4. CASE Start \/ StartFails
  BY <1>4 DEF Start, StartFails, DeleteAdm, Answer
<1>5. CASE Stop
  BY <1>5 DEF Stop, MainInv
<1>6. CASE Join \/ Reply \/ ReturnFromUsr2 \/ DispatchFails \/ Usr2 \/ Instantiate
  BY <1>6 DEF Join, DeleteAdm, Reply, Answer, ReturnFromUsr2, DispatchFails, Usr2, Instantiate
<1>7. CASE Signal /\ ~EndProcess
  BY <1>7 DEF Signal
<1>8. CASE AdmOpen
  BY <1>8 DEF AdmOpen
<1>9. CASE ShutDownAll \/ CloseMon \/ CloseRcvy \/ FifoClose
  BY <1>9 DEF ShutDownAll, CloseMon, CloseRcvy, FifoClose
<1>10. ASSUME NEW m \in Monitor,
              \/ MonInit(m) \/ HealthCheck(m) \/ MonClose(m) \/ (CloseHook(m) /\ ~EndProcess)
              \/ CloseDone(m) \/ HandleTimeout(m) \/ ReactorEnds(m)
       PROVE  WaitInv'
  BY <1>10 DEF MonInit, HealthCheck, MonClose, CloseHook, CloseDone, HandleTimeout, ReactorEnds
<1> QED
  BY <1>1, <1>2, <1>3, <1>4, <1>5, <1>6, <1>7, <1>8, <1>9, <1>10
  DEF Next, MainStep, AdmStep, MonStep, Exit, Kill, AdmOpenFails, MonInitFails

-----------------------------------------------------------------------------
(* The theorems                                                              *)

\* The inductive invariant holds in every reachable state (activateApp(),
\* passifyApp(), HA_DEVMON_Adm::svc(), the monitors' svc() and close(u_long)).
THEOREM Inductive == Spec => []IInv
<1>1. Init => IInv
  <2> SUFFICES ASSUME Init PROVE IInv
    OBVIOUS
  <2> USE BacklogAssumption, Monitors DEF Init
  <2>1. TypeOK
    <3>1. (haState \in HaStates /\ prevHa \in HaStates)
      BY DEF HaStates
    <3>2. (/\ mon \in [Monitor -> {"off", "init", "getq", "check", "close", "join", "done"}]
           /\ backlog \in [Monitor -> 0 .. MaxBacklog])
      OBVIOUS
    <3> QED
      BY <3>1, <3>2 DEF TypeOK
  <2>2. AdmInv /\ MainInv /\ SignalInv /\ WaitInv
    BY DEF AdmInv, MainInv, SignalInv, WaitInv, Opening, Closing, HaStates
  <2> QED
    BY <2>1, <2>2 DEF IInv
<1>2. IInv /\ [Next]_vars => IInv'
  <2> SUFFICES ASSUME IInv, [Next]_vars PROVE IInv'
    OBVIOUS
  <2>1. Core
    BY DEF IInv, Core
  <2>2. ASSUME Next PROVE Core'
    BY <2>1, <2>2, MainSafe, AdmSafe, MonSafe DEF Next
  <2>3. ASSUME UNCHANGED vars PROVE Core'
    BY <2>1, <2>3 DEF vars, amfVars, admVars, monVars, Core, TypeOK, AdmInv, MainInv, SignalInv
  <2>4. Core'
    BY <2>2, <2>3
  <2>5. WaitInv'
    BY <2>1, WaitSafe DEF IInv
  <2> QED
    BY <2>4, <2>5 DEF IInv, Core
<1> QED
  BY <1>1, <1>2, PTL DEF Spec

\* The types of the state.
THEOREM Types == Spec => []TypeOK
<1>1. IInv => TypeOK
  BY DEF IInv
<1> QED
  BY <1>1, Inductive, PTL

\* Whoever was told that the disks are supervised was told the truth
\* (activateApp(), svc()).
THEOREM Watched == Spec => []ActiveWatched
<1>1. IInv => ActiveWatched
  BY Monitors DEF IInv, TypeOK, AdmInv, MainInv, SignalInv, ActiveWatched, Opening, Closing
<1> QED
  BY <1>1, Inductive, PTL

\* And whoever was told that they are not (passifyApp(), shutDown_all()).
THEOREM Gone == Spec => []NothingLeft
<1>1. IInv => NothingLeft
  BY Monitors DEF IInv, TypeOK, AdmInv, MainInv, SignalInv, NothingLeft, Opening, Closing
<1> QED
  BY <1>1, Inductive, PTL

\* No thread uses what another one has deleted or closed, however far the
\* monitors are behind (shutDown_all(), close(u_long)).
THEOREM Used == Spec => []InUse
<1>1. IInv => InUse
  BY Monitors DEF IInv, TypeOK, AdmInv, MainInv, InUse
<1> QED
  BY <1>1, Inductive, PTL

\* No ordered shutdown is taken for an abnormal one (close(u_long)).
THEOREM Ordered == Spec => []NoAbnormalClose
<1>1. IInv => NoAbnormalClose
  BY Monitors DEF IInv, AdmInv, NoAbnormalClose, Closing
<1> QED
  BY <1>1, Inductive, PTL

\* A stop of the supervision cannot block, for every number of ticks that a
\* monitor can be behind (passifyApp(), shutDown_all(), close(u_long)).
THEOREM NoDeadlock == Spec => []JoinsAdvance
<1>1. IInv => JoinsAdvance
  BY Monitors DEF IInv, TypeOK, AdmInv, WaitInv, JoinsAdvance, AdmCan, MonCan, Opening
<1> QED
  BY <1>1, Inductive, PTL

=============================================================================
