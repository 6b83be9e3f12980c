-------------------------- MODULE SyncRecordProofs --------------------------
(***************************************************************************)
(* Proofs about SyncRecord for every RebootCount.                          *)
(***************************************************************************)
EXTENDS SyncRecordInv, TLAPS

\* The states that the actions name.
LEMMA States ==
  /\ CStates \subseteq Recorded /\ "" \in Recorded /\ "absent" \in Recorded /\ "Gone" \notin CStates
  /\ {"WFConnection", "Connected", "SyncTarget", "SyncSource", "StandAlone"} \subseteq CStates
BY DEF CStates, Recorded

\* The counter stays within its cap.
LEMMA Counts == 0 \in 0..MaxCount /\ \A c \in 0..MaxCount : Inc(c) \in 0..MaxCount
BY RebootCountNat DEF Inc, MaxCount

\* What the actions make of a record is a record.
LEMMA Records ==
  /\ Blank \in Rec
  /\ \A c \in Recorded : [cstate |-> c, count |-> 0] \in Rec
  /\ \A r \in Rec : r.cstate \in Recorded /\ r.count \in 0..MaxCount
  /\ \A r \in Rec, c \in Recorded : [r EXCEPT !.cstate = c] \in Rec
  /\ \A r \in Rec, n \in 0..MaxCount : [r EXCEPT !.count = n] \in Rec
BY States, Counts DEF Blank, Rec

\* The steps that the actions name.
LEMMA Names ==
  /\ {"STNBYAdm", "DRBDMon", "RoleMgr"} \subseteq Threads
  /\ {"get", "init", "fill", "clear", "cstate", "count", "off", "ready", "idle", "info", "peer",
      "judge", "retry", "health", "active", "failover"} \subseteq Steps
BY DEF Threads, Steps, RecSteps, InitSteps, WriteSteps

\* The loop that reconnects leaves its counter below MAX_ATTEMPTS.
LEMMA Attempts ==
  /\ 1 \in 1..MaxAttempts /\ 1 # MaxAttempts
  /\ \A a \in 1..MaxAttempts :
       a # MaxAttempts /\ a + 1 # MaxAttempts => a + 1 \in 1..MaxAttempts
BY DEF MaxAttempts

USE DEF threadVars, recVars, drbdVars, histVars

-----------------------------------------------------------------------------
(* Types                                                                     *)

\* What a thread writes is a record if its copy was one.
LEMMA WriteType ==
  ASSUME TypeInv, NEW t \in Threads, NEW r \in Rec, Write(t, r)
  PROVE  /\ info' \in [Threads -> Rec]
         /\ at' = [at EXCEPT ![t] = "clear"]
BY Names DEF TypeInv, TypeOK, Write, GoTo

\* The threads of a node that has just been reset.
LEMMA FreshType ==
  [t \in Threads |-> "off"] \in [Threads -> Steps] /\ [t \in Threads |-> Blank] \in [Threads -> Rec]
BY Names, Records

\* superviseDRBD() returns with types kept.
LEMMA MonDoneType ==
  ASSUME TypeInv, MonDone
  PROVE  at' \in [Threads -> Steps] /\ info' \in [Threads -> Rec]
BY Names, Records DEF TypeInv, TypeOK, MonDone, GoTo

\* A reset keeps the types.
LEMMA ResetType == TypeInv /\ ResetNode => TypeInv'
<1> SUFFICES ASSUME TypeInv, ResetNode PROVE TypeInv'
  OBVIOUS
<1> USE States, Counts, Records, Names, Attempts
<1>1. rec' \in Rec /\ refused' \in 0..MaxCount
  BY DEF TypeInv, TypeOK, ResetNode, Saved
<1>2. rec'.cstate \in Recorded
  BY <1>1
<1>3. at' \in [Threads -> Steps] /\ info' \in [Threads -> Rec]
  BY FreshType DEF ResetNode
<1> QED
  BY <1>1, <1>2, <1>3 DEF TypeInv, TypeOK, ResetNode

\* So do the steps by which a thread uses the record.
LEMMA UseType == \A t \in Threads : TypeInv /\ UseRecord(t) => TypeInv'
<1> SUFFICES ASSUME NEW t \in Threads, TypeInv, UseRecord(t) PROVE TypeInv'
  OBVIOUS
<1> USE States, Counts, Records, Names, Attempts
<1> USE DEF TypeInv, TypeOK, GoTo, AfterInit
<1>1. CASE PwrOffNew(t)
  BY <1>1 DEF PwrOffNew
<1>2. CASE PwrOffInit(t)
  BY <1>2 DEF PwrOffInit
<1>3. CASE PwrOffFill(t)
  BY <1>3 DEF PwrOffFill
<1>4. CASE NullMap(t)
  BY <1>4, ResetType DEF NullMap
<1>5. CASE Clear(t)
  BY <1>5 DEF Clear
<1>6. CASE PutCState(t)
  BY <1>6 DEF PutCState
<1> QED
  BY <1>1, <1>2, <1>3, <1>4, <1>5, <1>6 DEF UseRecord

\* The end of a write keeps the types.
LEMMA PutCountType ==
  ASSUME TypeInv, NEW t \in Threads, NEW next \in {"ready", "idle", "health", "failover"},
         PutCount(t, next)
  PROVE  TypeInv'
BY Counts, Records, Names DEF TypeInv, TypeOK, PutCount, GoTo

\* So does STNBYAdm.
LEMMA StbyType == TypeInv /\ StbyThread => TypeInv'
<1> SUFFICES ASSUME TypeInv, StbyThread PROVE TypeInv'
  OBVIOUS
<1> USE States, Counts, Records, Names, Attempts
<1>1. CASE StbyGet
  <2>1. [rec EXCEPT !.count = 0] \in Rec
    BY DEF TypeInv, TypeOK
  <2> QED
    BY <1>1, <2>1, WriteType DEF StbyGet, Get, TypeInv, TypeOK
<1> QED
  BY <1>1, UseType, PutCountType DEF StbyThread

\* So does the monitor.
LEMMA MonType == TypeInv /\ MonThread => TypeInv'
<1> SUFFICES ASSUME TypeInv, MonThread PROVE TypeInv'
  OBVIOUS
<1> USE States, Counts, Records, Names, Attempts
<1>1. CASE Tick
  BY <1>1 DEF Tick, GoTo, TypeInv, TypeOK
<1>2. CASE DrbdInfo
  <2>1. CASE cs # "Gone"
    <3>1. info["DRBDMon"] \in Rec /\ cs \in Recorded
      BY <2>1 DEF TypeInv, TypeOK
    <3>2. [info["DRBDMon"] EXCEPT !.cstate = cs] \in Rec
      BY <3>1
    <3>3. info' = [info EXCEPT !["DRBDMon"] = [info["DRBDMon"] EXCEPT !.cstate = cs]]
      BY <1>2, <2>1 DEF DrbdInfo
    <3>4. info' \in [Threads -> Rec]
      BY <3>2, <3>3 DEF TypeInv, TypeOK
    <3> QED
      BY <1>2, <2>1, <3>4 DEF DrbdInfo, GoTo, TypeInv, TypeOK
  <2>2. CASE cs = "Gone"
    BY <1>2, <2>2 DEF DrbdInfo, GoTo, TypeInv, TypeOK
  <2> QED
    BY <2>1, <2>2
<1>3. CASE PeerDrbdInfo
  BY <1>3 DEF PeerDrbdInfo, GoTo, TypeInv, TypeOK
<1>4. CASE Judge
  BY <1>4 DEF Judge, GoTo, TypeInv, TypeOK
<1>5. CASE Retry
  <2>1. CASE attempts + 1 # MaxAttempts
    BY <1>5, <2>1 DEF Retry, TypeInv, TypeOK
  <2>2. CASE attempts + 1 = MaxAttempts
    BY <1>5, <2>2, MonDoneType DEF Retry, TypeInv, TypeOK
  <2> QED
    BY <2>1, <2>2
<1>6. CASE MonGet
  <2>1. [rec EXCEPT !.cstate = Saw] \in Rec /\ Saw \in Recorded
    BY DEF TypeInv, TypeOK, Saw
  <2>2. CASE Write("DRBDMon", [rec EXCEPT !.cstate = Saw]) /\ seen' = Saw
    BY <1>6, <2>1, <2>2, WriteType DEF MonGet, TypeInv, TypeOK
  <2>3. CASE UNCHANGED seen /\ MonDone
    BY <1>6, <2>3 DEF MonGet, MonDone, GoTo, TypeInv, TypeOK
  <2> QED
    BY <1>6, <2>2, <2>3 DEF MonGet
<1> QED
  BY <1>1, <1>2, <1>3, <1>4, <1>5, <1>6, UseType, PutCountType DEF MonThread

\* So does healthCheck().
LEMMA RoleType == TypeInv /\ RoleThread => TypeInv'
<1> SUFFICES ASSUME TypeInv, RoleThread PROVE TypeInv'
  OBVIOUS
<1> USE States, Counts, Records, Names, Attempts
<1>1. CASE HealthRefuse
  <2>1. rec.count \in 0..MaxCount /\ refused \in 0..MaxCount
    BY DEF TypeInv, TypeOK
  <2>2. [rec EXCEPT !.count = Inc(@)] \in Rec /\ Inc(refused) \in 0..MaxCount
    BY <2>1, Counts DEF TypeInv, TypeOK
  <2> QED
    BY <1>1, <2>2, WriteType DEF HealthRefuse, TypeInv, TypeOK
<1>2. CASE HealthPass
  <2>1. [rec EXCEPT !.count = 0] \in Rec
    BY DEF TypeInv, TypeOK
  <2>2. CASE Write("RoleMgr", [rec EXCEPT !.count = 0]) /\ UNCHANGED refused
    BY <1>2, <2>1, <2>2, WriteType DEF HealthPass, TypeInv, TypeOK
  <2>3. CASE GoTo("RoleMgr", "health") /\ refused' = 0 /\ UNCHANGED info
    BY <1>2, <2>3 DEF HealthPass, GoTo, TypeInv, TypeOK
  <2> QED
    BY <1>2, <2>2, <2>3 DEF HealthPass
<1>3. CASE HealthFails
  BY <1>3 DEF HealthFails, GoTo, TypeInv, TypeOK
<1> QED
  BY <1>1, <1>2, <1>3, UseType, PutCountType DEF RoleThread

\* What the world around the threads does.
Outside ==
  \/ CommandFails \/ RetryOk \/ HealthOk \/ EventRebuild
  \/ OrderStandby \/ OrderActive \/ OrderRemove \/ JoinMonitor \/ WriteBack \/ Drbd

\* The resets, whatever causes them, are one case.
LEMMA NextSplit ==
  Next => StbyThread \/ MonThread \/ RoleThread \/ Outside \/ ResetNode
BY DEF Next, Outside, NodefailOver, Reset

\* What happens around the threads keeps the types.
LEMMA OutsideType == TypeInv /\ Outside => TypeInv'
<1> SUFFICES ASSUME TypeInv, Outside PROVE TypeInv'
  OBVIOUS
<1> USE States, Counts, Records, Names, Attempts
<1> USE DEF TypeInv, TypeOK, GoTo
<1>1. CASE CommandFails
  BY <1>1 DEF CommandFails
<1>2. CASE RetryOk
  BY <1>2, MonDoneType DEF RetryOk
<1>3. CASE HealthOk
  BY <1>3 DEF HealthOk
<1>4. CASE EventRebuild
  BY <1>4 DEF EventRebuild
<1>5. CASE OrderStandby
  BY <1>5 DEF OrderStandby
<1>6. CASE OrderActive
  BY <1>6 DEF OrderActive
<1>7. CASE OrderRemove
  BY <1>7 DEF OrderRemove
<1>8. CASE JoinMonitor
  BY <1>8 DEF JoinMonitor
<1>9. CASE WriteBack
  BY <1>9 DEF WriteBack, Saved
<1>10. CASE Drbd
  BY <1>10 DEF Drbd
<1> QED
  BY <1>1, <1>2, <1>3, <1>4, <1>5, <1>6, <1>7, <1>8, <1>9, <1>10 DEF Outside

\* So does every step.
LEMMA StepType == TypeInv /\ [Next]_vars => TypeInv'
<1> SUFFICES ASSUME TypeInv, [Next]_vars PROVE TypeInv'
  OBVIOUS
<1> USE States, Counts, Records, Names, Attempts
<1>1. CASE Next
  BY <1>1, NextSplit, StbyType, MonType, RoleType, OutsideType, ResetType
<1>2. CASE UNCHANGED vars
  BY <1>2 DEF vars, TypeInv, TypeOK
<1> QED
  BY <1>1, <1>2

\* The initial state is of its types.
LEMMA InitType == Init => TypeInv
<1> SUFFICES ASSUME Init PROVE TypeInv
  OBVIOUS
<1>1. rec \in Rec
  BY States, Records, Zenon DEF Init
<1>2. saved \in Saved
  BY <1>1, Counts DEF Init, Saved
<1> QED
  BY <1>1, <1>2, FreshType, States, Counts, Attempts DEF Init, TypeInv, TypeOK

\* Every variable keeps its type, and superviseDRBD() never makes more than
\* its attempts, whatever is admitted.
THEOREM TypeCorrect == Spec => []TypeOK
<1>1. Init => TypeInv
  BY InitType
<1>2. TypeInv => TypeOK
  BY DEF TypeInv
<1> QED
  BY <1>1, <1>2, StepType, PTL DEF Spec

-----------------------------------------------------------------------------
(* Who may be at the record                                                  *)

\* The steps of a thread on the record leave the other threads alone, and
\* end where it was at the record before.
LEMMA UseMoves ==
  ASSUME NEW t \in Threads, at \in [Threads -> Steps], UseRecord(t)
  PROVE  \/ ResetNode
         \/ /\ at[t] \in RecSteps \/ (t = "DRBDMon" /\ at[t] = "info")
            /\ \/ at' = [at EXCEPT ![t] = "info"] /\ t = "DRBDMon"
               \/ \E s \in RecSteps : at' = [at EXCEPT ![t] = s]
BY DEF UseRecord, PwrOffNew, PwrOffInit, PwrOffFill, NullMap, Clear, PutCState, GoTo, AfterInit,
       RecSteps, InitSteps, WriteSteps

\* Control is preserved, if the monitor does not tick early.
LEMMA StepControl ==
  ASSUME "earlyTick" \notin Admitted, TypeInv, Control, Next
  PROVE  Control'
<1> USE Names DEF Control, StbyPC, MonPC, RolePC, RecSteps, InitSteps, WriteSteps
<1>0. at \in [Threads -> Steps]
  BY DEF TypeInv, TypeOK
<1>1. CASE ResetNode
  BY <1>1 DEF ResetNode
<1>2. ASSUME NEW t \in Threads, UseRecord(t) PROVE Control'
  BY <1>0, <1>1, <1>2, UseMoves DEF Threads
<1>3. CASE StbyThread
  <2>1. CASE StbyGet
    BY <1>0, <2>1 DEF StbyGet, Get, Write, GoTo
  <2>2. CASE PutCount("STNBYAdm", "ready")
    BY <1>0, <2>2 DEF PutCount, GoTo
  <2> QED
    BY <1>2, <1>3, <2>1, <2>2 DEF StbyThread
<1>4. CASE MonThread
  <2>1. CASE Tick
    BY <1>0, <2>1 DEF Tick, GoTo
  <2>2. CASE DrbdInfo \/ PeerDrbdInfo \/ Judge
    BY <1>0, <2>2 DEF DrbdInfo, PeerDrbdInfo, Judge, GoTo
  <2>3. CASE Retry
    BY <1>0, <2>3 DEF Retry, MonDone, GoTo
  <2>4. CASE MonGet
    BY <1>0, <2>4 DEF MonGet, Get, Write, MonDone, GoTo
  <2>5. CASE PutCount("DRBDMon", "idle")
    BY <1>0, <2>5 DEF PutCount, GoTo
  <2> QED
    BY <1>2, <1>4, <2>1, <2>2, <2>3, <2>4, <2>5 DEF MonThread
<1>5. CASE RoleThread
  <2>1. CASE HealthRefuse \/ HealthPass
    BY <1>0, <2>1 DEF HealthRefuse, HealthPass, Get, Write, GoTo
  <2>2. CASE HealthFails
    BY <1>0, <2>2 DEF HealthFails, GoTo
  <2>3. ASSUME NEW next \in {"health", "failover"}, PutCount("RoleMgr", next) PROVE Control'
    BY <1>0, <2>3 DEF PutCount, GoTo
  <2> QED
    BY <1>2, <1>5, <2>1, <2>2, <2>3 DEF RoleThread
<1>6. CASE Outside
  <2>1. CASE CommandFails \/ RetryOk
    BY <1>0, <2>1 DEF CommandFails, RetryOk, MonDone, GoTo
  <2>2. CASE HealthOk
    BY <1>0, <2>2 DEF HealthOk
  <2>3. CASE EventRebuild \/ OrderRemove \/ WriteBack \/ Drbd
    BY <2>3 DEF EventRebuild, OrderRemove, WriteBack, Drbd
  <2>4. CASE OrderStandby
    BY <1>0, <2>4 DEF OrderStandby, AllOff
  <2>5. CASE OrderActive
    BY <1>0, <2>5 DEF OrderActive, AllOff, GoTo
  <2>6. CASE JoinMonitor
    BY <1>0, <2>6 DEF JoinMonitor
  <2> QED
    BY <1>6, <2>1, <2>2, <2>3, <2>4, <2>5, <2>6 DEF Outside
<1> QED
  BY <1>1, <1>3, <1>4, <1>5, <1>6, NextSplit

-----------------------------------------------------------------------------
(* Nothing is lost                                                           *)

\* No two threads are at the record.
LEMMA OneAtRecord ==
  ASSUME Control, NEW s \in Threads, NEW t \in Threads, at[s] \in RecSteps, at[t] \in RecSteps
  PROVE  s = t
BY DEF Control, Threads, RecSteps, InitSteps, WriteSteps

\* A step that leaves the record alone and moves no thread into or out of
\* writing preserves Kept.
LEMMA QuietKept ==
  ASSUME Kept, UNCHANGED <<rec, seen>>,
         \A t \in Threads : at[t] \in WriteSteps \/ at'[t] \in WriteSteps
                             => at'[t] = at[t] /\ info'[t] = info[t]
  PROVE  Kept'
BY DEF Kept, RecordKept, AtRest, WriteSteps

\* The steps on the record, by any thread.
LEMMA UseKept ==
  ASSUME TypeInv, Control, Kept, NEW t \in Threads, UseRecord(t)
  PROVE  Kept'
<1>0. at \in [Threads -> Steps] /\ info \in [Threads -> Rec] /\ rec \in Rec
  BY DEF TypeInv, TypeOK
<1>a. ASSUME at[t] \in RecSteps, NEW s \in Threads, s # t PROVE at[s] \notin RecSteps
  BY <1>a, OneAtRecord
<1>1. CASE PwrOffNew(t)
  BY <1>0, <1>1, QuietKept DEF PwrOffNew, AfterInit, GoTo, WriteSteps
<1>2. CASE PwrOffInit(t)
  <2>1. CASE UNCHANGED <<rec, seen>>
    BY <1>0, <1>2, <2>1, QuietKept DEF PwrOffInit, AfterInit, GoTo, WriteSteps
  <2>2. CASE rec' = Blank /\ seen' = ""
    <3>1. at'[t] \notin WriteSteps /\ \A s \in Threads : at'[s] \notin WriteSteps
      BY <1>0, <1>a, <1>2 DEF PwrOffInit, AfterInit, GoTo, RecSteps, InitSteps, WriteSteps
    <3> QED
      BY <2>2, <3>1 DEF Kept, RecordKept, AtRest, Blank, WriteSteps
  <2> QED
    BY <1>2, <2>1, <2>2 DEF PwrOffInit
<1>3. CASE PwrOffFill(t)
  <2>1. CASE UNCHANGED <<rec, seen>>
    BY <1>0, <1>3, <2>1, QuietKept DEF PwrOffFill, AfterInit, GoTo, WriteSteps
  <2>2. CASE rec' = [cstate |-> cs, count |-> 0] /\ seen' = cs
    <3>1. \A s \in Threads : at'[s] \notin WriteSteps
      BY <1>0, <1>a, <1>3 DEF PwrOffFill, AfterInit, GoTo, RecSteps, InitSteps, WriteSteps
    <3> QED
      BY <2>2, <3>1 DEF Kept, RecordKept, AtRest, WriteSteps
  <2> QED
    BY <1>3, <2>1, <2>2 DEF PwrOffFill
<1>4. CASE NullMap(t)
  BY <1>4 DEF NullMap, ResetNode, Kept, RecordKept, AtRest, WriteSteps
<1>5. CASE Clear(t)
  BY <1>0, <1>a, <1>5 DEF Clear, GoTo, Kept, RecordKept, AtRest, RecSteps, WriteSteps
<1>6. CASE PutCState(t)
  <2>1. rec'.cstate = seen
    BY <1>0, <1>6 DEF PutCState, Kept, WriteSteps, Rec
  <2> QED
    BY <1>0, <2>1, <1>6 DEF PutCState, GoTo, Kept, RecordKept, AtRest, WriteSteps
<1> QED
  BY <1>1, <1>2, <1>3, <1>4, <1>5, <1>6 DEF UseRecord

\* A thread at "get" that makes a copy of the state in the record, or of the one
\* it has seen, and goes on to write it.
LEMMA WriteKept ==
  ASSUME TypeInv, Control, Kept, NEW t \in Threads, NEW r, Write(t, r), at[t] = "get",
         UNCHANGED rec, r.cstate = seen', seen' = seen \/ t = "DRBDMon"
  PROVE  Kept'
<1>0. at \in [Threads -> Steps] /\ info \in [Threads -> Rec]
  BY DEF TypeInv, TypeOK
<1>1. \A s \in Threads : s # t => at[s] \notin RecSteps
  BY OneAtRecord DEF RecSteps
<1>2. at' = [at EXCEPT ![t] = "clear"] /\ info'[t] = r
  BY <1>0 DEF Write, GoTo
<1> QED
  BY <1>0, <1>1, <1>2 DEF Kept, RecordKept, AtRest, RecSteps, WriteSteps

\* Before a thread copies it, the record holds what was recorded last.
LEMMA KeptAtGet ==
  ASSUME Control, Kept, NEW t \in Threads, at[t] = "get"
  PROVE  rec.cstate = seen
<1>1. \A s \in Threads : s # t => at[s] \notin RecSteps
  BY OneAtRecord DEF RecSteps
<1> QED
  BY <1>1 DEF Kept, RecordKept, AtRest, RecSteps, WriteSteps

\* The end of a write.
LEMMA PutCountKept ==
  ASSUME TypeInv, Control, Kept, NEW t \in Threads, NEW next \in Steps \ RecSteps,
         PutCount(t, next)
  PROVE  Kept'
<1>0. at \in [Threads -> Steps] /\ info \in [Threads -> Rec] /\ rec \in Rec
  BY DEF TypeInv, TypeOK
<1>1. \A s \in Threads : s # t => at[s] \notin RecSteps
  BY OneAtRecord DEF PutCount, RecSteps, WriteSteps
<1>2. rec'.cstate = seen'
  BY <1>0 DEF PutCount, Kept, Rec
<1> QED
  BY <1>0, <1>1, <1>2 DEF PutCount, GoTo, Kept, RecordKept, AtRest, RecSteps, WriteSteps

\* Every step preserves Kept.
LEMMA StepKept ==
  ASSUME TypeInv, Control, Kept, Next
  PROVE  Kept'
<1>0. at \in [Threads -> Steps] /\ info \in [Threads -> Rec] /\ rec \in Rec
  BY DEF TypeInv, TypeOK
<1>1. CASE ResetNode
  BY <1>1 DEF ResetNode, Kept, RecordKept, AtRest, WriteSteps
<1>2. {"ready", "idle", "health", "failover"} \subseteq Steps \ RecSteps
  BY DEF Steps, RecSteps, InitSteps, WriteSteps
<1>3. CASE StbyThread
  <2>1. CASE StbyGet
    <3>1. at["STNBYAdm"] = "get" /\ UNCHANGED <<rec, seen>>
      BY <2>1 DEF StbyGet, Get
    <3>2. [rec EXCEPT !.count = 0].cstate = seen
      BY <1>0, <3>1, KeptAtGet, Names DEF Rec
    <3> QED
      BY <2>1, <3>1, <3>2, WriteKept, Names DEF StbyGet
  <2> QED
    BY <1>2, <1>3, <2>1, UseKept, PutCountKept, Names DEF StbyThread
<1>4. CASE MonThread
  <2>1. CASE Tick \/ DrbdInfo \/ PeerDrbdInfo \/ Judge
    BY <1>0, <2>1, QuietKept DEF Tick, DrbdInfo, PeerDrbdInfo, Judge, GoTo, WriteSteps
  <2>2. CASE Retry
    BY <1>0, <2>2, QuietKept DEF Retry, MonDone, GoTo, WriteSteps
  <2>3. CASE MonGet
    <3>1. at["DRBDMon"] = "get" /\ UNCHANGED rec
      BY <2>3 DEF MonGet, Get
    <3>2. CASE seen' = Saw /\ Write("DRBDMon", [rec EXCEPT !.cstate = Saw])
      <4>1. [rec EXCEPT !.cstate = Saw].cstate = seen'
        BY <1>0, <3>2 DEF Rec
      <4> QED
        BY <3>1, <3>2, <4>1, WriteKept, Names
    <3>3. CASE UNCHANGED seen /\ MonDone
      BY <1>0, <3>1, <3>3, QuietKept DEF MonDone, GoTo, WriteSteps
    <3> QED
      BY <2>3, <3>2, <3>3 DEF MonGet
  <2> QED
    BY <1>2, <1>4, <2>1, <2>2, <2>3, UseKept, PutCountKept, Names DEF MonThread
<1>5. CASE RoleThread
  <2>1. ASSUME NEW n, Get("RoleMgr"), Write("RoleMgr", [rec EXCEPT !.count = n]),
               UNCHANGED <<rec, seen>>
        PROVE  Kept'
    <3>1. [rec EXCEPT !.count = n].cstate = seen
      BY <1>0, <2>1, KeptAtGet, Names DEF Get, Rec
    <3> QED
      BY <2>1, <3>1, WriteKept, Names DEF Get
  <2>2. CASE HealthRefuse
    BY <2>1, <2>2 DEF HealthRefuse
  <2>3. CASE HealthPass
    <3>1. CASE Write("RoleMgr", [rec EXCEPT !.count = 0])
      BY <2>1, <2>3, <3>1 DEF HealthPass
    <3>2. CASE GoTo("RoleMgr", "health") /\ UNCHANGED info
      BY <1>0, <2>3, <3>2, QuietKept DEF HealthPass, Get, GoTo, WriteSteps
    <3> QED
      BY <2>3, <3>1, <3>2 DEF HealthPass
  <2>4. CASE HealthFails
    BY <1>0, <2>4, QuietKept DEF HealthFails, GoTo, WriteSteps
  <2> QED
    BY <1>2, <1>5, <2>2, <2>3, <2>4, UseKept, PutCountKept, Names DEF RoleThread
<1>6. CASE Outside
  <2>1. CASE CommandFails \/ RetryOk
    BY <1>0, <2>1, QuietKept DEF CommandFails, RetryOk, MonDone, GoTo, WriteSteps
  <2>2. CASE HealthOk
    BY <1>0, <2>2, QuietKept DEF HealthOk, Control, Threads, WriteSteps
  <2>3. CASE EventRebuild \/ OrderRemove \/ WriteBack \/ Drbd
    BY <2>3, QuietKept DEF EventRebuild, OrderRemove, WriteBack, Drbd
  <2>4. CASE OrderStandby \/ OrderActive
    BY <1>0, <2>4, QuietKept DEF OrderStandby, OrderActive, AllOff, GoTo, Threads, WriteSteps
  <2>5. CASE JoinMonitor
    BY <1>0, <2>5, QuietKept DEF JoinMonitor, Control, Threads, WriteSteps
  <2> QED
    BY <1>6, <2>1, <2>2, <2>3, <2>4, <2>5 DEF Outside
<1> QED
  BY <1>1, <1>3, <1>4, <1>5, <1>6, NextSplit

-----------------------------------------------------------------------------
(* Nothing is counted that did not happen                                    *)

\* Counting both sides keeps the order, cap or not.
LEMMA IncOrder == \A a, b \in 0..MaxCount : a <= b => Inc(a) <= Inc(b)
BY RebootCountNat DEF Inc, MaxCount

\* A reset, with the page kept or an older one brought back.
LEMMA ResetCounted ==
  ASSUME TypeInv, Counted, ResetNode
  PROVE  Counted'
<1>1. refused \in 0..MaxCount /\ saved.refused \in 0..MaxCount
  BY DEF TypeInv, TypeOK, Saved
<1>2. 0 <= refused /\ 0 <= saved.refused
  BY <1>1, RebootCountNat DEF MaxCount
<1>3. rec'.count <= refused' /\ 0 <= refused' /\ UNCHANGED saved
  BY <1>2 DEF ResetNode, Counted, CountTrue
<1>4. \A t \in Threads : info'[t].count = 0
  BY DEF ResetNode, Blank
<1> QED
  BY <1>3, <1>4, Names DEF Counted, CountTrue

\* A step that leaves the counters alone and moves no thread out of writing.
LEMMA QuietCounted ==
  ASSUME Counted, UNCHANGED <<rec, saved, refused>>,
         \A t \in Threads : info'[t].count = info[t].count,
         info["RoleMgr"]' = info["RoleMgr"],
         \A t \in Threads : at[t] \in WriteSteps => at'[t] \in WriteSteps
  PROVE  Counted'
BY Names DEF Counted, CountTrue

\* The steps on the record, by any thread.
LEMMA UseCounted ==
  ASSUME TypeInv, Counted, NEW t \in Threads, UseRecord(t)
  PROVE  Counted'
<1>0. /\ at \in [Threads -> Steps] /\ info \in [Threads -> Rec] /\ rec \in Rec
      /\ refused \in 0..MaxCount
  BY DEF TypeInv, TypeOK
<1>1. 0 <= refused
  BY <1>0, RebootCountNat DEF MaxCount
<1>2. CASE NullMap(t)
  BY <1>2, ResetCounted DEF NullMap
<1>3. ASSUME UNCHANGED <<info, saved, refused>>, rec'.count <= refused,
             \A s \in Threads : at[s] \in WriteSteps => at'[s] \in WriteSteps
      PROVE  Counted'
  BY <1>3 DEF Counted, CountTrue
<1>4. CASE PwrOffNew(t)
  BY <1>0, <1>3, <1>4 DEF PwrOffNew, AfterInit, GoTo, Counted, CountTrue, WriteSteps
<1>5. CASE PwrOffInit(t)
  <2>1. rec'.count <= refused
    <3>1. rec' = rec \/ rec' = Blank
      BY <1>5 DEF PwrOffInit
    <3> QED
      <4>1. rec.count <= refused
        BY DEF Counted, CountTrue
      <4>2. Blank.count <= refused
        BY <1>1 DEF Blank
      <4> QED
        BY <3>1, <4>1, <4>2, Zenon
  <2> QED
    BY <1>0, <1>3, <1>5, <2>1 DEF PwrOffInit, AfterInit, GoTo, WriteSteps
<1>6. CASE PwrOffFill(t)
  BY <1>0, <1>1, <1>3, <1>6 DEF PwrOffFill, AfterInit, GoTo, Counted, CountTrue, WriteSteps
<1>7. CASE Clear(t)
  BY <1>0, <1>1, <1>3, <1>7 DEF Clear, GoTo, WriteSteps, Blank
<1>8. CASE PutCState(t)
  <2>1. rec'.count = rec.count
    BY <1>0, <1>8 DEF PutCState, Rec
  <2> QED
    BY <1>0, <1>3, <1>8, <2>1 DEF PutCState, GoTo, Counted, CountTrue, WriteSteps
<1> QED
  BY <1>2, <1>4, <1>5, <1>6, <1>7, <1>8 DEF UseRecord

\* A thread goes on to write a counter that is covered by refused.
LEMMA WriteCounted ==
  ASSUME TypeInv, Counted, NEW t \in Threads, NEW r, Write(t, r), UNCHANGED <<rec, saved>>,
         refused' \in 0..MaxCount, refused <= refused', r.count <= refused',
         r.count # 0 => t = "DRBDMon" \/ (t = "RoleMgr" /\ r.cstate = "SyncTarget")
  PROVE  Counted'
<1>0. /\ at \in [Threads -> Steps] /\ info \in [Threads -> Rec] /\ rec \in Rec
      /\ refused \in 0..MaxCount
  BY DEF TypeInv, TypeOK
<1>1. at' = [at EXCEPT ![t] = "clear"] /\ info' = [info EXCEPT ![t] = r]
  BY DEF Write, GoTo
<1>2. \A s \in Threads : info[s].count \in Nat /\ rec.count \in Nat
  BY <1>0, Records, RebootCountNat DEF MaxCount
<1>3. rec.count <= refused'
  BY <1>0, <1>2, Names, RebootCountNat DEF Counted, CountTrue, MaxCount
<1>4. \A s \in Threads : info'[s].count <= refused'
  BY <1>0, <1>1, <1>2, RebootCountNat DEF Counted, MaxCount
<1>5. \A s \in Threads : at'[s] \notin WriteSteps => info'[s].count = 0
  BY <1>0, <1>1 DEF Counted, WriteSteps
<1>6. /\ info'["STNBYAdm"].count = 0
      /\ info'["RoleMgr"].cstate # "SyncTarget" => info'["RoleMgr"].count = 0
  BY <1>0, <1>1, Names DEF Counted
<1> QED
  BY <1>3, <1>4, <1>5, <1>6 DEF Counted, CountTrue

\* The end of a write.  refused is reset only with a copy that counts nothing,
\* when no other thread has one.
LEMMA PutCountCounted ==
  ASSUME TypeInv, Control, Counted, NEW t \in Threads, NEW next, PutCount(t, next),
         next \notin WriteSteps,
         next \in {"ready", "health"} => info[t].count = 0
  PROVE  Counted'
<1>0. /\ at \in [Threads -> Steps] /\ info \in [Threads -> Rec] /\ rec \in Rec
      /\ refused \in 0..MaxCount
  BY DEF TypeInv, TypeOK
<1>1. 0 <= refused /\ 0 <= 0
  BY <1>0, RebootCountNat DEF MaxCount
<1>2. rec'.count = info[t].count /\ at' = [at EXCEPT ![t] = next]
      /\ info' = [info EXCEPT ![t] = Blank]
  BY <1>0 DEF PutCount, GoTo, Rec
<1>3. \A s \in Threads : s # t => info[s].count = 0
  BY OneAtRecord DEF PutCount, Counted, RecSteps, WriteSteps
<1>4. \A s \in Threads : info'[s].count = 0
  BY <1>0, <1>2, <1>3 DEF Blank
<1>5. rec'.count <= refused' /\ 0 <= refused' /\ UNCHANGED saved
  BY <1>1, <1>2 DEF PutCount, Counted
<1> QED
  BY <1>4, <1>5, Names DEF Counted, CountTrue

\* Every step preserves Counted.
LEMMA StepCounted ==
  ASSUME TypeInv, Control, Counted, Next
  PROVE  Counted'
<1>0. /\ at \in [Threads -> Steps] /\ info \in [Threads -> Rec] /\ rec \in Rec
      /\ refused \in 0..MaxCount
  BY DEF TypeInv, TypeOK
<1>a. refused <= refused /\ 0 <= refused /\ 0 <= 0 /\ rec.count \in 0..MaxCount
      /\ refused <= Inc(refused)
  BY <1>0, Records, RebootCountNat DEF MaxCount, Inc
<1>1. CASE StbyThread
  <2>1. CASE StbyGet
    <3>1. [rec EXCEPT !.count = 0].count = 0
      BY <1>0 DEF Rec
    <3> QED
      BY <1>0, <1>a, <2>1, <3>1, WriteCounted, Names DEF StbyGet
  <2>2. CASE PutCount("STNBYAdm", "ready")
    BY <2>2, PutCountCounted, Names DEF Counted, WriteSteps
  <2> QED
    BY <1>1, <2>1, <2>2, UseCounted, Names DEF StbyThread
<1>2. CASE MonThread
  <2>1. CASE Tick \/ PeerDrbdInfo \/ Judge
    BY <1>0, <2>1, QuietCounted, Names DEF Tick, PeerDrbdInfo, Judge, GoTo, WriteSteps
  <2>2. CASE DrbdInfo
    <3>1. \A s \in Threads : info'[s].count = info[s].count
      BY <1>0, <2>2 DEF DrbdInfo, Rec
    <3> QED
      BY <1>0, <2>2, <3>1, QuietCounted, Names DEF DrbdInfo, GoTo, WriteSteps
  <2>3. ASSUME MonDone, at["DRBDMon"] \notin WriteSteps,
               UNCHANGED <<rec, saved, refused>>
        PROVE  Counted'
    <3>1. \A s \in Threads : info'[s].count = info[s].count
      BY <1>0, <2>3 DEF MonDone, Blank, Counted
    <3> QED
      BY <1>0, <2>3, <3>1, QuietCounted, Names DEF MonDone, GoTo, WriteSteps
  <2>4. CASE Retry
    <3>1. CASE UNCHANGED <<at, info>>
      BY <2>4, <3>1, QuietCounted DEF Retry
    <3>2. CASE MonDone
      BY <2>3, <2>4, <3>2 DEF Retry, WriteSteps
    <3> QED
      BY <2>4, <3>1, <3>2 DEF Retry
  <2>5. CASE MonGet
    <3>1. [rec EXCEPT !.cstate = Saw].count = rec.count /\ rec.count <= refused
      BY <1>0 DEF Rec, Counted, CountTrue
    <3>2. CASE Write("DRBDMon", [rec EXCEPT !.cstate = Saw])
      BY <1>0, <1>a, <2>5, <3>1, <3>2, WriteCounted, Names DEF MonGet
    <3>3. CASE MonDone
      BY <2>3, <2>5, <3>3 DEF MonGet, Get, WriteSteps
    <3> QED
      BY <2>5, <3>2, <3>3 DEF MonGet
  <2>6. CASE PutCount("DRBDMon", "idle")
    BY <2>6, PutCountCounted, Names DEF WriteSteps
  <2> QED
    BY <1>2, <2>1, <2>2, <2>4, <2>5, <2>6, UseCounted, Names DEF MonThread
<1>3. CASE RoleThread
  <2>1. CASE HealthRefuse
    <3>1. rec.count <= refused
      BY DEF Counted, CountTrue
    <3>2. [rec EXCEPT !.count = Inc(@)].count = Inc(rec.count)
          /\ [rec EXCEPT !.count = Inc(@)].cstate = "SyncTarget"
      BY <1>0, <2>1 DEF Rec, HealthRefuse
    <3>3. Inc(rec.count) <= Inc(refused) /\ Inc(refused) \in 0..MaxCount
      BY <1>0, <1>a, <3>1, IncOrder, Counts
    <3> QED
      BY <1>a, <2>1, <3>2, <3>3, WriteCounted, Names DEF HealthRefuse
  <2>2. CASE HealthPass
    <3>1. CASE Write("RoleMgr", [rec EXCEPT !.count = 0]) /\ UNCHANGED refused
      <4>1. [rec EXCEPT !.count = 0].count = 0
        BY <1>0 DEF Rec
      <4> QED
        BY <1>0, <1>a, <2>2, <3>1, <4>1, WriteCounted, Names DEF HealthPass
    <3>2. CASE rec.count = 0 /\ GoTo("RoleMgr", "health") /\ refused' = 0 /\ UNCHANGED info
      <4>1. \A s \in Threads : at[s] \notin WriteSteps
        BY <2>2, OneAtRecord, Names DEF HealthPass, Get, RecSteps, WriteSteps
      <4> QED
        BY <1>0, <1>a, <2>2, <3>2, <4>1, Names DEF HealthPass, Counted, CountTrue
    <3> QED
      BY <2>2, <3>1, <3>2 DEF HealthPass
  <2>3. CASE HealthFails
    BY <1>0, <2>3, QuietCounted, Names DEF HealthFails, GoTo, WriteSteps
  <2>4. CASE PutCount("RoleMgr", IF info["RoleMgr"].cstate = "SyncTarget" THEN "failover" ELSE "health")
    BY <2>4, PutCountCounted, Names DEF Counted, WriteSteps
  <2> QED
    BY <1>3, <2>1, <2>2, <2>3, <2>4, UseCounted, Names DEF RoleThread
<1>4. CASE Outside
  <2>1. CASE CommandFails
    BY <1>0, <2>1, QuietCounted, Names DEF CommandFails, GoTo, WriteSteps
  <2>2. CASE RetryOk
    <3>1. \A s \in Threads : info'[s].count = info[s].count
      BY <1>0, <2>2 DEF RetryOk, MonDone, Blank, Counted, WriteSteps
    <3> QED
      BY <1>0, <2>2, <3>1, QuietCounted, Names DEF RetryOk, MonDone, GoTo, WriteSteps
  <2>3. CASE HealthOk
    BY <1>0, <2>3, QuietCounted, Names DEF HealthOk, Control, WriteSteps
  <2>4. CASE EventRebuild \/ OrderRemove \/ Drbd
    BY <2>4, QuietCounted DEF EventRebuild, OrderRemove, Drbd
  <2>5. CASE OrderStandby \/ OrderActive
    BY <1>0, <2>5, QuietCounted, Names DEF OrderStandby, OrderActive, AllOff, GoTo, WriteSteps
  <2>6. CASE JoinMonitor
    BY <1>0, <2>6, QuietCounted DEF JoinMonitor, Control, Threads, WriteSteps
  <2>7. CASE WriteBack
    BY <2>7 DEF WriteBack, Counted, CountTrue
  <2> QED
    BY <1>4, <2>1, <2>2, <2>3, <2>4, <2>5, <2>6, <2>7 DEF Outside
<1>5. CASE ResetNode
  BY <1>5, ResetCounted
<1> QED
  BY <1>1, <1>2, <1>3, <1>4, <1>5, NextSplit

-----------------------------------------------------------------------------
(* The theorems                                                              *)

\* The inductive invariant holds in every reachable state, for every
\* AGNT_REBOOT_COUNT and whatever is admitted.
THEOREM Inductive == Spec => []IInv
<1>1. Init => IInv
  <2> SUFFICES ASSUME Init PROVE IInv
    OBVIOUS
  <2>1. TypeInv
    BY InitType
  <2>2. Control
    BY Names DEF Init, Control, StbyPC, MonPC, RolePC, RecSteps, InitSteps, WriteSteps
  <2>3. Kept
    BY DEF Init, Kept, RecordKept, AtRest, WriteSteps
  <2>4. \A t \in Threads : info[t].count = 0 /\ rec.count = 0 /\ refused = 0
    BY DEF Init, Blank
  <2>5. saved.page.count = 0 /\ saved.refused = 0
    BY DEF Init
  <2>6. Counted
    BY <2>4, <2>5, Names DEF Counted, CountTrue
  <2> QED
    BY <2>1, <2>2, <2>3, <2>6 DEF IInv
<1>2. IInv /\ [Next]_vars => IInv'
  <2> SUFFICES ASSUME IInv, [Next]_vars PROVE IInv'
    OBVIOUS
  <2>1. TypeInv'
    BY StepType DEF IInv
  <2>2. CASE Next
    <3>1. "earlyTick" \notin Admitted => Control' /\ Kept' /\ Counted'
      BY <2>2, StepControl, StepKept, StepCounted DEF IInv
    <3> QED
      BY <2>1, <3>1 DEF IInv
  <2>3. CASE UNCHANGED vars
    BY <2>1, <2>3 DEF vars, IInv, Control, Kept, RecordKept, AtRest, Counted, CountTrue
  <2> QED
    BY <2>2, <2>3
<1> QED
  BY <1>1, <1>2, PTL DEF Spec

\* If the monitor does not tick before STNBYAdm is done, no thread destroys what
\* another has recorded, even if resets lose the page or fall into a write.
THEOREM NothingLost == "earlyTick" \notin Admitted => (Spec => []RecordKept)
<1> SUFFICES ASSUME "earlyTick" \notin Admitted PROVE Spec => []RecordKept
  OBVIOUS
<1>1. IInv => RecordKept
  BY DEF IInv, Kept
<1> QED
  BY <1>1, Inductive, PTL

\* Nor does the counter claim more reboots than healthCheck() has made, as of
\* the page that survived.
THEOREM NothingInvented == "earlyTick" \notin Admitted => (Spec => []CountTrue)
<1> SUFFICES ASSUME "earlyTick" \notin Admitted PROVE Spec => []CountTrue
  OBVIOUS
<1>1. IInv => CountTrue
  BY DEF IInv, Counted
<1> QED
  BY <1>1, Inductive, PTL

=============================================================================
