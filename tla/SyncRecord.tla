----------------------------- MODULE SyncRecord -----------------------------
(***************************************************************************)
(* The DRBD monitor and the persistent record of one node.                 *)
(* HA_AGENT_PWROff keeps, in a mapped file, the last DRBD connection state *)
(* and how often the node was rebooted because it was to become active in  *)
(* the middle of a resynchronisation.  Three threads read, change and      *)
(* write it without a lock: STNBYAdm when it starts, DRBDMon at every      *)
(* tick of its timer, RoleMgr in healthCheck().  A write clears the record *)
(* and fills in its two fields.                                            *)
(*                                                                         *)
(* The three states of a resynchronisation as target (StartingSyncT,       *)
(* SyncTarget, PausedSyncT), which the code treats alike, are SyncTarget   *)
(* here, those as source SyncSource.  Admitted names what may happen:      *)
(*   "earlyTick"  the timer ticks before STNBYAdm is done with the record  *)
(*   "powerLoss"  a reset loses what the kernel has not yet written back   *)
(***************************************************************************)
EXTENDS Naturals

CONSTANTS RebootCount,   \* AGNT_REBOOT_COUNT of the configuration
          Admitted

ASSUME RebootCountNat == RebootCount \in Nat
ASSUME AdmittedAssumption == Admitted \subseteq {"earlyTick", "powerLoss"}

VARIABLES
  ha,         \* HAState, which the monitor reads
  at,         \* the program counter of each thread
  pwr,        \* Global::m_pwrOffObj: "null", "raw" (m_map unusable), "mapped"
  info,       \* the pInfo a thread has made to write, Blank otherwise; that
              \* of the monitor also holds its drbdInfo.cstate
  rec,        \* the record as the node's processes see it
  saved,      \* the page as it is on the disk, and refused at that time
  attempts,   \* the reconnection Counter of superviseDRBD()
  rebuild,    \* DRBDMon::m_rebuildInProgress
  cs,         \* DRBD: the connection state, or "Gone"
  disk,       \* DRBD: the state of the local disk
  seen,       \* history: the state last recorded, as far as it survived
  refused     \* history: reboots by healthCheck() since the last start as
              \* standby or as active, as far as the record survived

threadVars == <<ha, at, pwr, info, attempts, rebuild>>
recVars    == <<rec, saved>>
drbdVars   == <<cs, disk>>
histVars   == <<seen, refused>>
vars == <<threadVars, recVars, drbdVars, histVars>>

Threads == {"STNBYAdm", "DRBDMon", "RoleMgr"}

\* The steps of reading and writing the record.
InitSteps  == {"init", "fill"}
WriteSteps == {"clear", "cstate", "count"}
RecSteps   == {"get"} \cup InitSteps \cup WriteSteps
Steps      == RecSteps \cup {"off", "ready", "idle", "info", "peer", "judge", "retry", "health",
                            "active", "failover"}

CStates  == {"Connected", "SyncTarget", "SyncSource", "WFConnection", "StandAlone"}
Recorded == CStates \cup {"", "absent"}   \* "absent": there is no file yet

\* The counter is only compared with RebootCount, so one more stands for all
\* greater values.
MaxCount == RebootCount + 1
Inc(c) == IF c < MaxCount THEN c + 1 ELSE c

Blank == [cstate |-> "", count |-> 0]
Rec == [cstate : Recorded, count : 0..MaxCount]
Saved == [page : Rec, refused : 0..MaxCount]

MaxAttempts == 3

\* The type invariant.
TypeOK ==
  /\ ha \in {"Undefined", "Standby", "Active"}
  /\ at \in [Threads -> Steps]
  /\ pwr \in {"null", "raw", "mapped"}
  /\ info \in [Threads -> Rec] /\ rec \in Rec /\ saved \in Saved
  /\ attempts \in 1..MaxAttempts /\ rebuild \in BOOLEAN
  /\ cs \in CStates \cup {"Gone"} /\ disk \in {"UpToDate", "Inconsistent"}
  /\ seen \in Recorded /\ refused \in 0..MaxCount

Init ==
  /\ ha = "Undefined" /\ at = [t \in Threads |-> "off"]
  /\ pwr = "null" /\ info = [t \in Threads |-> Blank]
  /\ rec = [cstate |-> "absent", count |-> 0] /\ saved = [page |-> rec, refused |-> 0]
  /\ attempts = 1 /\ rebuild = FALSE
  /\ cs = "WFConnection" /\ disk = "UpToDate"
  /\ seen = "absent" /\ refused = 0

GoTo(t, pc) == at' = [at EXCEPT ![t] = pc]

-----------------------------------------------------------------------------
(* HA_AGENT_PWROff                                                           *)

\* The record after a reset of the node.
ResetNode ==
  /\ ha' = "Undefined" /\ at' = [t \in Threads |-> "off"]
  /\ pwr' = "null" /\ info' = [t \in Threads |-> Blank]
  /\ attempts' = 1 /\ rebuild' = FALSE
  /\ \/ UNCHANGED <<rec, refused>>
     \/ "powerLoss" \in Admitted /\ rec' = saved.page /\ refused' = saved.refused
  /\ seen' = rec'.cstate
  /\ cs' = "WFConnection"
  /\ UNCHANGED <<saved, disk>>

\* Where a thread goes on once it has the PWROff object.
AfterInit(t) == IF t = "DRBDMon" THEN "info" ELSE "get"

\* Global::PWROff(): the pointer is set before init() is called, so that a
\* second thread does not wait for it.
PwrOffNew(t) ==
  /\ at[t] = AfterInit(t) /\ pwr = "null"
  /\ pwr' = "raw" /\ GoTo(t, "init")
  /\ UNCHANGED <<ha, info, attempts, rebuild, recVars, drbdVars, histVars>>

\* PWROff::init(): map the file, or make one and fill it.  A failure, before or
\* after the file is made, is only logged.
PwrOffInit(t) ==
  /\ at[t] = "init"
  /\ \/ rec.cstate # "absent" /\ pwr' = "mapped" /\ GoTo(t, AfterInit(t)) /\ UNCHANGED <<rec, seen>>
     \/ rec.cstate = "absent" /\ pwr' = "mapped" /\ GoTo(t, "fill") /\ rec' = Blank /\ seen' = ""
     \/ UNCHANGED <<pwr, rec, seen>> /\ GoTo(t, AfterInit(t))
     \/ rec.cstate = "absent" /\ UNCHANGED pwr /\ GoTo(t, AfterInit(t)) /\ rec' = Blank /\ seen' = ""
  /\ UNCHANGED <<ha, info, attempts, rebuild, saved, drbdVars, refused>>

\* The state to fill in is asked for with drbdinfo(), which may fail.
PwrOffFill(t) ==
  /\ at[t] = "fill"
  /\ \/ UNCHANGED <<rec, seen>>
     \/ cs # "Gone" /\ rec' = [cstate |-> cs, count |-> 0] /\ seen' = cs
  /\ GoTo(t, AfterInit(t))
  /\ UNCHANGED <<ha, pwr, info, attempts, rebuild, saved, drbdVars, refused>>

\* get_persis_info() through an m_map that init() has not set.
NullMap(t) ==
  /\ at[t] = "get" /\ pwr = "raw"
  /\ ResetNode

\* get_persis_info().
Get(t) == at[t] = "get" /\ pwr = "mapped"

\* The thread has made r of its copy and writes that.
Write(t, r) == info' = [info EXCEPT ![t] = r] /\ GoTo(t, "clear")

\* write_persis_info(): memset() ...
Clear(t) ==
  /\ at[t] = "clear"
  /\ rec' = Blank /\ GoTo(t, "cstate")
  /\ UNCHANGED <<ha, pwr, info, attempts, rebuild, saved, drbdVars, histVars>>

\* ... strcpy() ...
PutCState(t) ==
  /\ at[t] = "cstate"
  /\ rec' = [rec EXCEPT !.cstate = info[t].cstate] /\ GoTo(t, "count")
  /\ UNCHANGED <<ha, pwr, info, attempts, rebuild, saved, drbdVars, histVars>>

\* ... and the counter; then the thread goes on to next.
PutCount(t, next) ==
  /\ at[t] = "count"
  /\ rec' = [rec EXCEPT !.count = info[t].count] /\ GoTo(t, next)
  /\ info' = [info EXCEPT ![t] = Blank]
  /\ refused' = IF next \in {"ready", "health"} THEN 0 ELSE refused
  /\ UNCHANGED <<ha, pwr, attempts, rebuild, saved, drbdVars, seen>>

UseRecord(t) == PwrOffNew(t) \/ PwrOffInit(t) \/ PwrOffFill(t) \/ NullMap(t) \/ Clear(t) \/ PutCState(t)

-----------------------------------------------------------------------------
(* STNBYAdm::svc(): keep the connection state, reset the counter.            *)

\* A bug: the record is not read before it is written.
StbyGet_NoRead ==
  /\ Get("STNBYAdm") /\ Write("STNBYAdm", Blank)
  /\ UNCHANGED <<ha, pwr, attempts, rebuild, recVars, drbdVars, histVars>>

\* A bug: the counter is not reset.
StbyGet_KeepCount ==
  /\ Get("STNBYAdm") /\ Write("STNBYAdm", rec)
  /\ UNCHANGED <<ha, pwr, attempts, rebuild, recVars, drbdVars, histVars>>

StbyGet ==
  /\ Get("STNBYAdm") /\ Write("STNBYAdm", [rec EXCEPT !.count = 0])
  /\ UNCHANGED <<ha, pwr, attempts, rebuild, recVars, drbdVars, histVars>>

StbyThread == StbyGet \/ UseRecord("STNBYAdm") \/ PutCount("STNBYAdm", "ready")

\* EVENT_REBUILD toggles the supervision; stop() removes the handler.
EventRebuild ==
  /\ ha = "Standby" /\ at["DRBDMon"] # "off"
  /\ rebuild' = ~rebuild
  /\ UNCHANGED <<ha, at, pwr, info, attempts, recVars, drbdVars, histVars>>

-----------------------------------------------------------------------------
(* DRBDMon                                                                   *)

\* What drbdinfo() told the monitor.
Saw == info["DRBDMon"].cstate

\* superviseDRBD() returns.
MonDone == GoTo("DRBDMon", "idle") /\ info' = [info EXCEPT !["DRBDMon"] = Blank]

\* A DRBDMON_TIMEOUT: superviseDRBD(), unless a rebuild is in progress.
Tick ==
  /\ at["DRBDMon"] = "idle" /\ ~rebuild
  /\ at["STNBYAdm"] \in {"off", "ready"} \/ "earlyTick" \in Admitted
  /\ GoTo("DRBDMon", "info")
  /\ UNCHANGED <<ha, pwr, info, attempts, rebuild, recVars, drbdVars, histVars>>

\* drbdinfo() fails when DRBD is gone; only then is peerdrbdinfo() called.
DrbdInfo ==
  /\ at["DRBDMon"] = "info" /\ pwr # "null"
  /\ \/ cs # "Gone" /\ info' = [info EXCEPT !["DRBDMon"].cstate = cs] /\ GoTo("DRBDMon", "judge")
     \/ cs = "Gone" /\ UNCHANGED info /\ GoTo("DRBDMon", "peer")
  /\ UNCHANGED <<ha, pwr, attempts, rebuild, recVars, drbdVars, histVars>>

\* peerdrbdinfo(): if it fails as well, superviseDRBD() returns -1, which is
\* logged; if not, isConfigured of the local information is false.
PeerDrbdInfo ==
  /\ at["DRBDMon"] = "peer"
  /\ GoTo("DRBDMon", IF cs = "Gone" THEN "idle" ELSE "failover")
  /\ UNCHANGED <<ha, pwr, info, attempts, rebuild, recVars, drbdVars, histVars>>

\* Either call also fails when a command cannot be run (runCommand()).
CommandFails ==
  /\ cs # "Gone"
  /\ \/ at["DRBDMon"] = "info" /\ pwr # "null" /\ GoTo("DRBDMon", "peer")
     \/ at["DRBDMon"] = "peer" /\ GoTo("DRBDMon", "idle")
  /\ UNCHANGED <<ha, pwr, info, attempts, rebuild, recVars, drbdVars, histVars>>

\* The local information is there.  The information about the peer was not
\* asked for, its fields are empty and never "Unknown": the branch that
\* compares them is dead.
Judge ==
  /\ at["DRBDMon"] = "judge"
  /\ GoTo("DRBDMon", IF ha = "Standby" /\ Saw = "StandAlone" THEN "retry" ELSE "get")
  /\ UNCHANGED <<ha, pwr, info, attempts, rebuild, recVars, drbdVars, histVars>>

\* An attempt to connect (DRBDMgr::activate()) that fails.  The loop ends with
\* Counter = MAX_ATTEMPTS, and what follows asks for Counter > MAX_ATTEMPTS:
\* superviseDRBD() just returns.
Retry ==
  /\ at["DRBDMon"] = "retry"
  /\ \/ attempts + 1 # MaxAttempts /\ attempts' = attempts + 1 /\ UNCHANGED <<at, info>>
     \/ attempts + 1 = MaxAttempts /\ attempts' = 1 /\ MonDone
  /\ UNCHANGED <<ha, pwr, rebuild, recVars, drbdVars, histVars>>

\* An attempt that succeeds.
RetryOk ==
  /\ at["DRBDMon"] = "retry"
  /\ attempts' = 1 /\ MonDone
  /\ cs' = IF cs = "StandAlone" THEN "WFConnection" ELSE cs
  /\ UNCHANGED <<ha, pwr, rebuild, recVars, disk, histVars>>

\* A bug: the recorded state is compared, not the one that DRBD reports.
MonGet_OldState ==
  /\ Get("DRBDMon")
  /\ \/ rec.cstate # "WFConnection" /\ seen' = Saw /\ Write("DRBDMon", [rec EXCEPT !.cstate = Saw])
     \/ rec.cstate = "WFConnection" /\ UNCHANGED seen /\ MonDone
  /\ UNCHANGED <<ha, pwr, attempts, rebuild, recVars, drbdVars, refused>>

\* Record the connection state, unless the peer is just away.
MonGet ==
  /\ Get("DRBDMon")
  /\ \/ Saw # "WFConnection" /\ seen' = Saw /\ Write("DRBDMon", [rec EXCEPT !.cstate = Saw])
     \/ Saw = "WFConnection" /\ UNCHANGED seen /\ MonDone
  /\ UNCHANGED <<ha, pwr, attempts, rebuild, recVars, drbdVars, refused>>

MonThread ==
  \/ Tick \/ DrbdInfo \/ PeerDrbdInfo \/ Judge \/ Retry \/ MonGet
  \/ UseRecord("DRBDMon") \/ PutCount("DRBDMon", "idle")

-----------------------------------------------------------------------------
(* RoleMgr::healthCheck()                                                    *)

\* The record says that a resynchronisation was under way: count and reboot,
\* whatever the count.
HealthRefuse ==
  /\ rec.cstate = "SyncTarget"
  /\ Get("RoleMgr") /\ Write("RoleMgr", [rec EXCEPT !.count = Inc(@)])
  /\ refused' = Inc(refused)
  /\ UNCHANGED <<ha, pwr, attempts, rebuild, recVars, drbdVars, seen>>

\* Any other state: reset the counter if it is not zero, then drbdHealth().
HealthPass ==
  /\ rec.cstate # "SyncTarget"
  /\ Get("RoleMgr")
  /\ \/ rec.count > 0 /\ Write("RoleMgr", [rec EXCEPT !.count = 0]) /\ UNCHANGED refused
     \/ rec.count = 0 /\ GoTo("RoleMgr", "health") /\ refused' = 0 /\ UNCHANGED info
  /\ UNCHANGED <<ha, pwr, attempts, rebuild, recVars, drbdVars, seen>>

\* drbdHealth() finds the disk up to date within 300 seconds; the rest of the
\* start (HaAgent) succeeds and the monitor is started.
HealthOk ==
  /\ at["RoleMgr"] = "health" /\ cs # "Gone" /\ disk = "UpToDate"
  /\ at' = [at EXCEPT !["RoleMgr"] = "active", !["DRBDMon"] = "idle"]
  /\ rebuild' = FALSE
  /\ UNCHANGED <<ha, pwr, info, attempts, recVars, drbdVars, histVars>>

\* It does not, or the start fails: compRestart(), and AMF resets the node.
HealthFails ==
  /\ at["RoleMgr"] = "health" /\ GoTo("RoleMgr", "failover")
  /\ UNCHANGED <<ha, pwr, info, attempts, rebuild, recVars, drbdVars, histVars>>

RoleThread ==
  \/ HealthRefuse \/ HealthPass \/ HealthFails \/ UseRecord("RoleMgr")
  \/ PutCount("RoleMgr", IF info["RoleMgr"].cstate = "SyncTarget" THEN "failover" ELSE "health")

\* nodefailOver(): the node is reset.
NodefailOver ==
  /\ \E t \in Threads : at[t] = "failover"
  /\ ResetNode

-----------------------------------------------------------------------------
(* AMF, the kernel and DRBD (external).                                      *)

AllOff == \A t \in Threads : at[t] = "off"

\* A standby application starts: the monitor first, then its own work.
OrderStandby ==
  /\ ha = "Undefined" /\ AllOff
  /\ ha' = "Standby" /\ at' = [at EXCEPT !["STNBYAdm"] = "get", !["DRBDMon"] = "idle"]
  /\ rebuild' = FALSE
  /\ UNCHANGED <<pwr, info, attempts, recVars, drbdVars, histVars>>

OrderActive ==
  /\ \/ ha = "Undefined" /\ AllOff /\ GoTo("RoleMgr", "get")
     \/ ha = "Standby" /\ at["STNBYAdm"] = "ready" /\ UNCHANGED at
  /\ ha' = "Active"
  /\ UNCHANGED <<pwr, info, attempts, rebuild, recVars, drbdVars, histVars>>

OrderRemove ==
  /\ \/ ha = "Standby" /\ at["STNBYAdm"] = "ready"
     \/ ha = "Active" /\ at["RoleMgr"] = "active"
  /\ ha' = "Undefined"
  /\ UNCHANGED <<at, pwr, info, attempts, rebuild, recVars, drbdVars, histVars>>

\* The monitor has ended, and with it the application that owns it: its
\* destructor calls Global::deactivate(), which deletes the PWROff object, so
\* that the next one maps the file again.
JoinMonitor ==
  /\ at["DRBDMon"] = "idle"
  /\ \/ /\ ha # "Standby" /\ at["STNBYAdm"] = "ready"
        /\ at' = [t \in Threads |-> IF t = "RoleMgr" /\ ha = "Active" THEN "get" ELSE "off"]
     \/ /\ ha = "Undefined" /\ at["RoleMgr"] = "active"
        /\ at' = [t \in Threads |-> "off"]
  /\ pwr' = "null"
  /\ UNCHANGED <<ha, info, attempts, rebuild, recVars, drbdVars, histVars>>

\* The process dies or the power goes, in the middle of anything.
Reset == ~AllOff /\ ResetNode

\* The kernel writes the page back when it likes: nobody calls msync().  It is
\* noticed only if a reset may lose the page.
WriteBack ==
  /\ "powerLoss" \in Admitted /\ saved' = [page |-> rec, refused |-> refused]
  /\ UNCHANGED <<threadVars, rec, drbdVars, histVars>>

Drbd ==
  /\ \/ cs \in {"Connected", "SyncTarget", "SyncSource"} /\ cs' = "WFConnection" /\ UNCHANGED disk
     \/ cs \in {"SyncTarget", "SyncSource"} /\ cs' = "Connected" /\ disk' = "UpToDate"
     \/ cs = "WFConnection" /\ disk = "UpToDate" /\ cs' \in {"Connected", "SyncSource", "StandAlone"}
        /\ UNCHANGED disk
     \/ cs = "WFConnection" /\ at["RoleMgr"] # "active" /\ cs' = "SyncTarget" /\ disk' = "Inconsistent"
     \/ cs # "Gone" /\ cs' = "Gone" /\ UNCHANGED disk
     \/ cs = "Gone" /\ cs' = "WFConnection" /\ UNCHANGED disk
  /\ UNCHANGED <<threadVars, recVars, histVars>>

-----------------------------------------------------------------------------
Next ==
  \/ StbyThread \/ MonThread \/ RoleThread \/ NodefailOver
  \/ CommandFails \/ RetryOk \/ HealthOk \/ EventRebuild
  \/ OrderStandby \/ OrderActive \/ OrderRemove \/ JoinMonitor \/ Reset \/ WriteBack \/ Drbd

Spec == Init /\ [][Next]_vars

\* The threads are scheduled, the timer of the monitor is restarted at every
\* tick, and a command that is tried for ever is run at some time.
FairSpec ==
  /\ Spec
  /\ WF_vars(StbyThread) /\ WF_vars(MonThread) /\ WF_vars(RoleThread) /\ WF_vars(NodefailOver)
  /\ WF_vars(JoinMonitor) /\ SF_vars(DrbdInfo)

-----------------------------------------------------------------------------
AtRest == \A t \in Threads : at[t] \notin WriteSteps

\* No thread destroys what another has recorded: when nobody is writing, the
\* record holds the connection state that was recorded last - by the monitor,
\* or what survived a reset - although STNBYAdm and healthCheck() write the
\* whole record to change its counter (stbyAdm.cpp, rolemngr.cpp).
RecordKept == AtRest => rec.cstate = seen

\* The counter never claims more reboots than there were since the node last
\* got a role, as of the page that survived, so APEvent() is not called before
\* the configured count is reached (healthCheck()).
CountTrue == rec.count <= refused

\* The record heals: if the monitor runs on and the state of DRBD no longer
\* changes, the record ends up with that state, whatever was lost or torn
\* before (superviseDRBD()).
RecordCatchesUp ==
  \A c \in {"Connected", "SyncTarget", "SyncSource"} :
    <>[](at["DRBDMon"] # "off" /\ ~rebuild /\ cs = c) => <>[](AtRest => rec.cstate = c)

=============================================================================
