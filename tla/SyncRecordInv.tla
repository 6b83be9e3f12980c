--------------------------- MODULE SyncRecordInv ---------------------------
(***************************************************************************)
(* The inductive invariant of SyncRecord: why a record that three threads  *)
(* change without a lock keeps its contents.  RecordKept and CountTrue are *)
(* not inductive: they say nothing of the copies the threads hold, nor of  *)
(* who may be at the record at the same time.                              *)
(***************************************************************************)
EXTENDS SyncRecord

StbyPC == RecSteps \cup {"off", "ready"}
MonPC  == RecSteps \cup {"off", "idle", "info", "peer", "judge", "retry", "failover"}
RolePC == RecSteps \cup {"off", "health", "active", "failover"}

\* The threads as the applications own them: RoleMgr checks the health before
\* it starts a monitor, and STNBYAdm is done with the record before its monitor
\* ticks, unless "earlyTick" is admitted.
Control ==
  /\ at["STNBYAdm"] \in StbyPC /\ at["DRBDMon"] \in MonPC /\ at["RoleMgr"] \in RolePC
  /\ at["STNBYAdm"] # "off" => at["RoleMgr"] = "off"
  /\ at["STNBYAdm"] \in RecSteps => at["DRBDMon"] = "idle"
  /\ at["RoleMgr"] \notin {"off", "active"} => at["DRBDMon"] = "off"

\* A thread that writes holds the state recorded last, and so does the record
\* when nobody writes, or once it is put there.
Kept ==
  /\ \A t \in Threads : at[t] \in WriteSteps => info[t].cstate = seen
  /\ \A t \in Threads : at[t] = "count" => rec.cstate = seen
  /\ RecordKept

\* The counter in the record, on the disk and in the copies; a copy that ends a run of
\* reboots has none.
Counted ==
  /\ CountTrue /\ saved.page.count <= saved.refused
  /\ \A t \in Threads : info[t].count <= refused
  /\ \A t \in Threads : at[t] \notin WriteSteps => info[t].count = 0
  /\ info["STNBYAdm"].count = 0
  /\ info["RoleMgr"].cstate # "SyncTarget" => info["RoleMgr"].count = 0

TypeInv == TypeOK /\ attempts # MaxAttempts

\* The inductive invariant: the loop that reconnects makes no more attempts
\* than it is meant to; no two threads are at the record (superviseDRBD(),
\* STNBYAdm::svc(), healthCheck()), and hence nothing is lost and nothing is
\* counted that did not happen.
IInv ==
  /\ TypeInv
  /\ "earlyTick" \notin Admitted => Control /\ Kept /\ Counted

=============================================================================
