------------------------------ MODULE HaAgent ------------------------------
(***************************************************************************)
(* One apos_ha_rdeagentd process (ha_cnz/haadm_agent_caa/drbd) on one node *)
(* of the APG pair: the AMF callbacks that run in the main thread, the     *)
(* ACTVAdm and STNBYAdm tasks, the RoleMgr task that takes and releases    *)
(* the active role, and the two threads that watch DRBD and may call       *)
(* Global::nodefailOver() at any moment.  Each thread has a program        *)
(* counter; one action is one step of one thread between two points where  *)
(* the others can see or change what it works on.                          *)
(*                                                                         *)
(* The process always runs under AMF (haMode() is true from start() to     *)
(* deactivate()); the --noha command line mode, and SIGINT and SIGHUP,     *)
(* which only an operator sends, are not modelled.                         *)
(***************************************************************************)
EXTENDS Naturals

CONSTANT StopMayFail   \* whether the scripts run by StopJobs() may fail

ASSUME StopMayFailBool == StopMayFail \in BOOLEAN

VARIABLES
  proc,            \* the process: "up", "exited", or the node "rebooting"
  amf,             \* program counter of the main thread (AMF callbacks)
  order,           \* the callback the main thread is serving
  resp,            \* last saAmfResponse: "ok", "failed", "lost" or "none"
  clc,             \* "usr2" once the CLC cleanup script has sent SIGUSR2
  haState,         \* APOS_HA_RdeAgent_AmfClass::HAState
  prevHa,          \* previousHAState, local to coremw_csi_set_callback
  oldHaState,      \* Global::m_oldhaState
  actv,            \* the ACTVAdm object and its thread
  stby,            \* the STNBYAdm object and its thread
  role,            \* the RoleMgr thread
  watch,           \* the threads that watch DRBD
  loop,            \* the event loop of ACE_Reactor::instance(), of which a
                   \* process has one: "new", "run" or "ended"
  queued,          \* the tasks with a shutdown message in their queue
  stop,            \* how far a thread is inside StopJobs()
  failover,        \* the threads that are inside Global::nodefailOver()
  drbdObj,         \* RoleMgr::m_drbdObj
  flags,           \* the Boolean members of Global and RoleMgr that are true
  held,            \* the resources of the active role that the node holds
  lockFile,        \* the split-brain lock file on the local disk
  left             \* history: "dirty" once a start failed half way or a
                   \* process died while the node held a resource, until
                   \* all is released or a process ends holding nothing

amfVars  == <<amf, order, resp, clc, haState, prevHa>>
admVars  == <<actv, stby>>
roleVars == <<role, drbdObj>>
watchVars == <<watch, loop>>
stopVars == <<stop, failover>>
nodeVars == <<held, lockFile, left>>
vars == <<proc, amfVars, oldHaState, admVars, roleVars, watchVars, queued, stopVars, flags,
          nodeVars>>

\* DRBDMon's own thread, and the reactor thread that serves DevMon's pipe.
Watchers == {"DRBDMon", "Pipe"}
Threads  == Watchers \cup {"RoleMgr"}

\* The tasks told to end by a message: AGENT_SHUTDOWN, ROLEMGR_CLOSE and
\* DRBDMON_CLOSE.
Tasks == {"ACTVAdm", "STNBYAdm", "RoleMgr", "DRBDMon"}

\* Global::m_tasksDone, m_compRestart, m_shutdownOrdered; RoleMgr::m_startJobsDone.
Flags == {"tasksDone", "compRestart", "shutdownOrdered", "startJobsDone"}

\* /data mounted, the MIP addresses set, the servers started.
Resources == {"data", "mips", "apos"}

HaStates == {"Undefined", "Active", "Standby", "Quiescing", "Quiesced"}
Orders   == {"None", "Active", "Standby", "Quiescing", "Quiesced",
             "Remove", "Terminate", "Usr2", "Exit"}

\* The type invariant.
TypeOK ==
  /\ proc \in {"up", "exited", "rebooting"}
  /\ amf \in {"poll", "startActv", "startStby", "wait", "stopActv", "joinActv",
              "stopStby", "joinStby", "reply", "stuck"}
  /\ order \in Orders
  /\ resp \in {"none", "ok", "failed", "lost"}
  /\ clc \in {"quiet", "usr2"}
  /\ haState \in HaStates /\ prevHa \in HaStates /\ oldHaState \in HaStates
  /\ actv \in {"none", "start", "getq", "closing", "done"}
  /\ stby \in {"none", "start", "ready", "getq", "closing", "done"}
  /\ role \in {"off", "init", "objects", "health", "split", "assemble", "mips", "apos",
               "monitor", "error", "failover", "ready", "getq", "stopping", "close",
               "joinMon", "joined"}
  /\ watch \in [Watchers -> {"off", "spawned", "dead", "idle", "restart", "busy"}]
  /\ loop \in {"new", "run", "ended"}
  /\ queued \subseteq Tasks
  /\ stop \in [Threads -> {"no", "apos", "mips", "data", "ok"}]
  /\ failover \subseteq Threads
  /\ drbdObj \in {"null", "live"}
  /\ flags \subseteq Flags
  /\ held \subseteq Resources
  /\ lockFile \in {"absent", "present"}
  /\ left \in {"clean", "dirty"}

-----------------------------------------------------------------------------
(* The life of the process.                                                 *)

\* A new process: nothing started, every queue empty, every flag reset.
FreshProcess ==
  /\ amf = "poll" /\ order = "None" /\ resp = "none" /\ clc = "quiet"
  /\ haState = "Undefined" /\ prevHa = "Undefined" /\ oldHaState = "Undefined"
  /\ actv = "none" /\ stby = "none" /\ role = "off" /\ drbdObj = "null"
  /\ watch = [w \in Watchers |-> "off"] /\ loop = "new" /\ queued = {}
  /\ stop = [t \in Threads |-> "no"] /\ failover = {} /\ flags = {}

\* The same as the effect of a step that ends the process.
ResetProcess ==
  /\ amf' = "poll" /\ order' = "None" /\ resp' = "none" /\ clc' = "quiet"
  /\ haState' = "Undefined" /\ prevHa' = "Undefined" /\ oldHaState' = "Undefined"
  /\ actv' = "none" /\ stby' = "none" /\ role' = "off" /\ drbdObj' = "null"
  /\ watch' = [w \in Watchers |-> "off"] /\ loop' = "new" /\ queued' = {}
  /\ stop' = [t \in Threads |-> "no"] /\ failover' = {} /\ flags' = {}

Init ==
  /\ proc = "up" /\ FreshProcess
  /\ held = {} /\ lockFile = "absent" /\ left = "clean"

\* The process ends (exit(), a crash or SIGKILL); mounts, addresses and
\* servers are node state and stay as they are.
EndProcess ==
  /\ proc' = "exited" /\ ResetProcess
  /\ left' = IF held = {} THEN "clean" ELSE "dirty"
  /\ UNCHANGED <<held, lockFile>>

\* Global::reboot(), the last step of nodefailOver(): the node goes down.
Reboot ==
  /\ proc' = "rebooting" /\ ResetProcess
  /\ held' = {} /\ left' = "clean"
  /\ UNCHANGED lockFile

\* A bug: the flags of the application that ended are not reset.
Deactivate_KeepFlags(task, old) ==
  /\ role' = "off" /\ drbdObj' = "null" /\ UNCHANGED flags
  /\ queued' = queued \ {task, "RoleMgr"}
  /\ oldHaState' = old

\* A bug: ~STNBYAdm leaves the old state as deactivate() has reset it.
Deactivate_NotStandby(task, old) ==
  /\ role' = "off" /\ drbdObj' = "null" /\ flags' = {}
  /\ queued' = queued \ {task, "RoleMgr"}
  /\ oldHaState' = "Undefined"

\* Global::deactivate(): the destructors of ACTVAdm and STNBYAdm delete the
\* RoleMgr and reset the flags; ~STNBYAdm then sets the old state to STANDBY.
\* The queue of a deleted task goes with it.
Deactivate(task, old) ==
  /\ role' = "off" /\ drbdObj' = "null" /\ flags' = {}
  /\ queued' = queued \ {task, "RoleMgr"}
  /\ oldHaState' = old

\* LFile::RMLFile(), where the file exists; a failing unlink() is only logged.
RMLFile == lockFile' \in {"absent", lockFile}

-----------------------------------------------------------------------------
(* The main thread: AMF callbacks, serialised by agentHAClass::m_admLock.   *)

\* What AMF may order next (external: the CSI state machine of a 2N
\* component).  After a failed or lost response AMF only cleans up.
Allowed ==
  [Undefined |-> {"Active", "Standby", "Terminate"},
   Standby   |-> {"Active", "Standby", "Quiesced", "Remove", "Terminate"},
   Active    |-> {"Active", "Quiescing", "Quiesced", "Remove", "Terminate"},
   Quiescing |-> {"Active", "Quiesced", "Remove", "Terminate"},
   Quiesced  |-> {"Active", "Standby", "Remove", "Terminate"}]

Dispatched(o) ==
  /\ proc = "up" /\ amf = "poll" /\ clc = "quiet"
  /\ resp \in {"none", "ok"}
  /\ o \in Allowed[haState]
  /\ order' = o

\* coremw_csi_set_callback stores the new HAState before the jobs run.
StoreHaState(s) == prevHa' = haState /\ haState' = s

\* A bug: activateApp does not stop the standby application first.
SetActive_KeepStandby ==
  /\ Dispatched("Active")
  /\ StoreHaState("Active") /\ oldHaState' = haState
  /\ amf' = IF actv # "none" THEN "reply" ELSE "startActv"
  /\ UNCHANGED <<proc, resp, clc, admVars, roleVars, watchVars, queued, stopVars, flags, nodeVars>>

\* performStateTransitionToActiveJobs -> activateApp: a running standby
\* application is ordered to stop first.
SetActive ==
  /\ Dispatched("Active")
  /\ StoreHaState("Active") /\ oldHaState' = haState
  /\ \/ /\ stby # "none"
        /\ queued' = queued \cup {"STNBYAdm"} /\ amf' = "joinStby"
     \/ /\ stby = "none"
        /\ amf' = IF actv # "none" THEN "reply" ELSE "startActv"
        /\ UNCHANGED queued
  /\ UNCHANGED <<proc, resp, clc, admVars, roleVars, watchVars, stopVars, flags, nodeVars>>

\* performStateTransitionToPassiveJobs -> passifyApp: it does not look at
\* the active application.
SetStandby ==
  /\ Dispatched("Standby")
  /\ StoreHaState("Standby") /\ oldHaState' = haState
  /\ amf' = IF stby # "none" THEN "reply" ELSE "startStby"
  /\ UNCHANGED <<proc, resp, clc, admVars, roleVars, watchVars, queued, stopVars, flags, nodeVars>>

\* The quiescing and quiesced jobs are stopApp().
SetQuiesced(s) ==
  /\ Dispatched(s)
  /\ StoreHaState(s)
  /\ amf' = "stopActv"
  /\ UNCHANGED <<proc, resp, clc, oldHaState, admVars, roleVars, watchVars, queued, stopVars,
                 flags, nodeVars>>

\* The remove and terminate callbacks set HAState to UNDEFINED and stopApp().
RemoveOrTerminate(o) ==
  /\ Dispatched(o)
  /\ haState' = "Undefined" /\ UNCHANGED prevHa
  /\ amf' = "stopActv"
  /\ UNCHANGED <<proc, resp, clc, oldHaState, admVars, roleVars, watchVars, queued, stopVars,
                 flags, nodeVars>>

\* saAmfDispatch fails: the loop of activate() ends, main() deletes haObj and
\* ~agentHAClass calls stopApp() "to be sure".
DispatchFails ==
  /\ proc = "up" /\ amf = "poll"
  /\ order' = "Exit" /\ amf' = "stopActv"
  /\ UNCHANGED <<proc, resp, clc, haState, prevHa, oldHaState, admVars, roleVars, watchVars,
                 queued, stopVars, flags, nodeVars>>

\* stopStndby() of activateApp has joined the standby thread: delete it and
\* tell the active one where it comes from.
JoinStbyToActivate ==
  /\ amf = "joinStby" /\ order = "Active" /\ stby = "done"
  /\ stby' = "none" /\ Deactivate("STNBYAdm", "Standby")
  /\ amf' = "startActv"
  /\ UNCHANGED <<proc, order, resp, clc, haState, prevHa, actv, watchVars, stopVars, nodeVars>>

\* ACTVAdm::start: read configuration and MIPs, spawn the thread.
StartActv ==
  /\ amf = "startActv"
  /\ actv' = "start" /\ amf' = "wait"
  /\ UNCHANGED <<proc, order, resp, clc, haState, prevHa, oldHaState, stby, roleVars, watchVars,
                 queued, stopVars, flags, nodeVars>>

\* STNBYAdm::start: read the configuration, remove the lock file, spawn the
\* thread.
StartStby ==
  /\ amf = "startStby"
  /\ stby' = "start" /\ amf' = "wait" /\ RMLFile
  /\ UNCHANGED <<proc, order, resp, clc, haState, prevHa, oldHaState, actv, roleVars, watchVars,
                 queued, stopVars, flags, held, left>>

\* saAmfResponse; if the call itself fails, a CSI set restores HAState.
Answer(r) ==
  /\ amf' = "poll" /\ order' = "None"
  /\ \/ resp' = r /\ UNCHANGED haState
     \/ /\ resp' = "lost"
        /\ haState' = IF order \in HaStates THEN prevHa ELSE haState
  /\ UNCHANGED <<clc, prevHa>>

\* start() returns -1: the object is deleted again and AMF gets a failure.
\* That of STNBYAdm may have removed the lock file by then.
StartFails ==
  /\ \/ amf = "startActv" /\ Deactivate("ACTVAdm", "Undefined") /\ UNCHANGED lockFile
     \/ amf = "startStby" /\ Deactivate("STNBYAdm", "Standby") /\ RMLFile
  /\ Answer("failed")
  /\ UNCHANGED <<proc, admVars, watchVars, stopVars, held, left>>

\* A bug: m_compRestart ends the wait but is not looked at afterwards.
WaitOnTask_TasksDoneOnly ==
  /\ amf = "wait"
  /\ Answer(IF "tasksDone" \in flags THEN "ok" ELSE "failed")
  /\ UNCHANGED <<proc, oldHaState, admVars, roleVars, watchVars, queued, stopVars, flags, nodeVars>>

\* Global::waitOntask(): poll the flags once a second until one of them is
\* set or the callback timeout is reached, then judge by the flags.
WaitOnTask ==
  /\ amf = "wait"
  /\ Answer(IF "tasksDone" \in flags /\ "compRestart" \notin flags THEN "ok" ELSE "failed")
  /\ UNCHANGED <<proc, oldHaState, admVars, roleVars, watchVars, queued, stopVars, flags, nodeVars>>

\* stopApp() -> stopActv(): order the active application to terminate.
StopActv ==
  /\ amf = "stopActv"
  /\ \/ actv = "none" /\ amf' = "stopStby" /\ UNCHANGED queued
     \/ actv # "none" /\ amf' = "joinActv" /\ queued' = queued \cup {"ACTVAdm"}
  /\ UNCHANGED <<proc, order, resp, clc, haState, prevHa, oldHaState, admVars, roleVars,
                 watchVars, stopVars, flags, nodeVars>>

JoinActv ==
  /\ amf = "joinActv" /\ actv = "done"
  /\ actv' = "none" /\ Deactivate("ACTVAdm", "Undefined")
  /\ amf' = "stopStby"
  /\ UNCHANGED <<proc, order, resp, clc, haState, prevHa, stby, watchVars, stopVars, nodeVars>>

\* stopStndby(): ShutdownDone makes a second stop() a no-op, so at most one
\* AGENT_SHUTDOWN is ever queued.
StopStby ==
  /\ amf = "stopStby"
  /\ \/ stby = "none" /\ amf' = "reply" /\ UNCHANGED queued
     \/ stby # "none" /\ amf' = "joinStby" /\ queued' = queued \cup {"STNBYAdm"}
  /\ UNCHANGED <<proc, order, resp, clc, haState, prevHa, oldHaState, admVars, roleVars,
                 watchVars, stopVars, flags, nodeVars>>

JoinStbyToStop ==
  /\ amf = "joinStby" /\ order # "Active" /\ stby = "done"
  /\ stby' = "none" /\ Deactivate("STNBYAdm", "Standby")
  /\ amf' = "reply"
  /\ UNCHANGED <<proc, order, resp, clc, haState, prevHa, actv, watchVars, stopVars, nodeVars>>

\* The callback returns to poll() with its answer.
Reply ==
  /\ amf = "reply" /\ order \notin {"Usr2", "Exit"}
  /\ Answer("ok")
  /\ order = "Terminate" => resp' = "lost"
  /\ UNCHANGED <<proc, oldHaState, admVars, roleVars, watchVars, queued, stopVars, flags, nodeVars>>

\* The SIGUSR2 handler just goes back to poll().
ReturnFromUsr2 ==
  /\ amf = "reply" /\ order = "Usr2"
  /\ amf' = "poll" /\ order' = "None"
  /\ UNCHANGED <<proc, resp, clc, haState, prevHa, oldHaState, admVars, roleVars, watchVars,
                 queued, stopVars, flags, nodeVars>>

\* A terminate that was answered, and the end of main(), end the process.
ExitMain ==
  /\ amf = "reply" /\ order \in {"Terminate", "Exit"}
  /\ EndProcess

-----------------------------------------------------------------------------
(* The CLC script (apos_ha_rdeagent_clc cleanup): SIGUSR2, wait, SIGKILL.    *)

\* registerApplicationShutdownhandler runs stopApp() inside the signal
\* handler of the main thread.  m_admLock is not recursive: if the main
\* thread holds it, the handler blocks for ever.  (Between releasing the
\* lock and answering, the signal is taken as arriving after the answer.)
Usr2 ==
  /\ proc = "up" /\ clc = "quiet"
  /\ clc' = "usr2"
  /\ \/ amf = "poll" /\ amf' = "stopActv" /\ order' = "Usr2"
     \/ amf \notin {"poll", "reply"} /\ amf' = "stuck" /\ UNCHANGED order
  /\ UNCHANGED <<proc, resp, haState, prevHa, oldHaState, admVars, roleVars, watchVars, queued,
                 stopVars, flags, nodeVars>>

Kill ==
  /\ proc = "up" /\ clc = "usr2"
  /\ EndProcess

\* AMF instantiates the component again, after a reboot or an exit.
Instantiate ==
  /\ proc # "up"
  /\ proc' = "up"
  /\ UNCHANGED <<amfVars, oldHaState, admVars, roleVars, watchVars, queued, stopVars, flags,
                 nodeVars>>

-----------------------------------------------------------------------------
(* shutDown_all() and StopJobs(), run by RoleMgr itself or, through           *)
(* compRestart() and nodefailOver(), by the watching threads.                 *)

\* Global::m_rMgrObj # 0: made by ACTVAdm::svc(), deleted with the ACTVAdm.
RoleMgrExists == actv \notin {"none", "start"}

\* RoleMgr::shutDown_all() as thread t enters it: without m_startJobsDone
\* there is nothing to stop and the flags are reset at once; without a
\* RoleMgr (standby) compRestart() and nodefailOver() do not even call it.
ShutDownAll(t) ==
  \/ /\ "startJobsDone" \in flags
     /\ stop' = [stop EXCEPT ![t] = "apos"] /\ UNCHANGED flags
  \/ /\ "startJobsDone" \notin flags
     /\ stop' = [stop EXCEPT ![t] = "ok"]
     /\ flags' = IF RoleMgrExists THEN flags \ {"tasksDone"} ELSE flags

\* A stop script fails, whatever effect it had: StopJobs() returns -1 and
\* shutDown_all() calls nodefailOver(), which starts by calling it again.
StopFails(t, r) ==
  /\ StopMayFail
  /\ held' = held \/ held' = held \ {r}
  /\ failover' = failover \cup {t}
  /\ ShutDownAll(t)
  /\ UNCHANGED left

\* A bug: the order of StopJobs() is wrong and /data goes before the MIPs.
StopApos_DataFirst(t) ==
  /\ stop[t] = "apos"
  /\ held' = held \ {"apos"} /\ stop' = [stop EXCEPT ![t] = "data"]
  /\ UNCHANGED <<proc, amfVars, oldHaState, admVars, roleVars, watchVars, queued, failover,
                 flags, lockFile, left>>

\* aposJobs("--failover active"): stop the servers.
StopApos(t) ==
  /\ stop[t] = "apos"
  /\ \/ /\ held' = held \ {"apos"} /\ stop' = [stop EXCEPT ![t] = "mips"]
        /\ UNCHANGED <<failover, flags, left>>
     \/ StopFails(t, "apos")
  /\ UNCHANGED <<proc, amfVars, oldHaState, admVars, roleVars, watchVars, queued, lockFile>>

\* usetMipAddrs(): withdraw the MIP addresses.
UsetMipAddrs(t) ==
  /\ stop[t] = "mips"
  /\ \/ /\ held' = held \ {"mips"} /\ stop' = [stop EXCEPT ![t] = "data"]
        /\ UNCHANGED <<failover, flags, left>>
     \/ StopFails(t, "mips")
  /\ UNCHANGED <<proc, amfVars, oldHaState, admVars, roleVars, watchVars, queued, lockFile>>

\* disable(): unmount /data and make DRBD secondary; StopJobs() succeeds and
\* shutDown_all() resets its flags.
Disable(t) ==
  /\ stop[t] = "data"
  /\ \/ /\ held' = held \ {"data"} /\ stop' = [stop EXCEPT ![t] = "ok"]
        /\ flags' = flags \ {"tasksDone", "startJobsDone"}
        /\ left' = IF held' = {} THEN "clean" ELSE left
        /\ UNCHANGED failover
     \/ StopFails(t, "data")
  /\ UNCHANGED <<proc, amfVars, oldHaState, admVars, roleVars, watchVars, queued, lockFile>>

StopJobs(t) == StopApos(t) \/ UsetMipAddrs(t) \/ Disable(t)

\* The rest of nodefailOver(): report NODE_FAILOVER to AMF, then reboot().
FailoverReboot(t) ==
  /\ t \in failover /\ stop[t] = "ok"
  /\ Reboot

\* RoleMgr::close(u_long) has deleted m_drbdObj under a thread that is still
\* in StopJobs(): undefined behaviour, here a crash (going on is StopJobs).
UseAfterFree(t) ==
  /\ stop[t] \in {"apos", "mips", "data"} /\ drbdObj = "null"
  /\ EndProcess

-----------------------------------------------------------------------------
(* ACTVAdm::svc()                                                             *)

\* startRoleMgr(): spawn the RoleMgr thread, or compRestart() if that fails.
ActvStart ==
  /\ actv = "start"
  /\ actv' = "getq"
  /\ \/ role' = "init" /\ UNCHANGED flags
     \/ flags' = (flags \ {"tasksDone"}) \cup {"compRestart"} /\ UNCHANGED role
  /\ UNCHANGED <<proc, amfVars, oldHaState, stby, drbdObj, watchVars, queued, stopVars, nodeVars>>

\* A bug: ROLEMGR_CLOSE is only posted if the pipe handler was registered.
ActvShutdown_NoPost ==
  /\ actv = "getq" /\ "ACTVAdm" \in queued
  /\ watch["Pipe"] # "busy"
  /\ actv' = "closing"
  /\ queued' = (queued \ {"ACTVAdm"}) \cup (IF watch["Pipe"] = "idle" THEN {"RoleMgr"} ELSE {})
  /\ flags' = flags \cup {"shutdownOrdered"}
  /\ watch' = [watch EXCEPT !["Pipe"] = "off"]
  /\ UNCHANGED <<proc, loop, amfVars, oldHaState, stby, roleVars, stopVars, nodeVars>>

\* AGENT_SHUTDOWN: shutDown_all() flags the shutdown and RoleMgr::close()
\* takes the pipe handler out of the reactor - which waits for a handler
\* that is running - and posts ROLEMGR_CLOSE.
ActvShutdown ==
  /\ actv = "getq" /\ "ACTVAdm" \in queued
  /\ watch["Pipe"] # "busy"
  /\ actv' = "closing"
  /\ queued' = (queued \ {"ACTVAdm"}) \cup {"RoleMgr"}
  /\ flags' = flags \cup {"shutdownOrdered"}
  /\ watch' = [watch EXCEPT !["Pipe"] = "off"]
  /\ UNCHANGED <<proc, loop, amfVars, oldHaState, stby, roleVars, stopVars, nodeVars>>

\* roleMgr()->wait() returns; at once if the thread never started.
ActvJoin ==
  /\ actv = "closing" /\ role \in {"off", "joined"}
  /\ actv' = "done"
  /\ UNCHANGED <<proc, amfVars, oldHaState, stby, roleVars, watchVars, queued, stopVars, flags,
                 nodeVars>>

-----------------------------------------------------------------------------
(* STNBYAdm::svc() and close(u_long)                                          *)

\* Start the DRBD monitor; if its thread cannot be spawned, compRestart()
\* (there is no RoleMgr to shut down).
StbyStart ==
  /\ stby = "start"
  /\ stby' = "ready"
  /\ \/ watch' = [watch EXCEPT !["DRBDMon"] = "spawned"] /\ UNCHANGED flags
     \/ /\ watch' = [watch EXCEPT !["DRBDMon"] = "dead"]
        /\ flags' = flags \cup {"compRestart"}
  /\ UNCHANGED <<proc, loop, amfVars, oldHaState, actv, roleVars, queued, stopVars, nodeVars>>

StbyReady ==
  /\ stby = "ready"
  /\ stby' = "getq" /\ flags' = flags \cup {"tasksDone"}
  /\ UNCHANGED <<proc, amfVars, oldHaState, actv, roleVars, watchVars, queued, stopVars, nodeVars>>

\* HA_AGENT_DRBDMon::close() cancels the timer through m_reactor, which is
\* only set by DRBDMon's own thread in init(): a null pointer before that.
CloseBeforeInit == watch["DRBDMon"] \in {"spawned", "dead"}

\* A bug: DRBDMON_CLOSE is not posted.
CloseMonitor_NoPost(q) == ~CloseBeforeInit /\ queued' = q

CloseMonitor(q) ==
  /\ ~CloseBeforeInit
  /\ queued' = IF watch["DRBDMon"] = "off" THEN q ELSE q \cup {"DRBDMon"}

\* AGENT_SHUTDOWN: svc() returns and close(u_long) closes the monitor.
StbyShutdown ==
  /\ stby = "getq" /\ "STNBYAdm" \in queued
  /\ CloseMonitor(queued \ {"STNBYAdm"})
  /\ stby' = "closing"
  /\ UNCHANGED <<proc, amfVars, oldHaState, actv, roleVars, watchVars, stopVars, flags, nodeVars>>

StbyJoin ==
  /\ stby = "closing" /\ watch["DRBDMon"] = "off"
  /\ stby' = "done" /\ flags' = flags \ {"tasksDone"}
  /\ UNCHANGED <<proc, amfVars, oldHaState, actv, roleVars, watchVars, queued, stopVars, nodeVars>>

\* Either application closes a monitor that has not reached the end of init().
NullReactor ==
  /\ \/ stby = "getq" /\ "STNBYAdm" \in queued
     \/ role = "close"
  /\ CloseBeforeInit
  /\ EndProcess

-----------------------------------------------------------------------------
(* RoleMgr::svc(): initRoleMgr, healthCheck, splitBrainAlgo, StartJobs,       *)
(* DRBD monitor, then wait for ROLEMGR_CLOSE.                                 *)

RoleTo(pc) == role' = pc

\* run_reactor_event_loop() does nothing once the loop has been ended: nobody
\* calls reset_reactor_event_loop().
RunLoop == IF loop = "new" THEN "run" ELSE loop

\* initRoleMgr(), first part: open the pipe from DevMon, start a thread for the
\* event loop and register the handler, which is called only if the loop runs.
\* If close() came first, it found m_regHndlr FALSE and nobody takes the handler
\* out again before close(u_long).
InitPipe ==
  /\ role = "init"
  /\ \/ /\ RoleTo("objects") /\ loop' = RunLoop
        /\ watch' = [watch EXCEPT !["Pipe"] = IF loop = "ended" THEN "off" ELSE "idle"]
     \/ RoleTo("error") /\ loop' \in {loop, RunLoop} /\ UNCHANGED watch
  /\ UNCHANGED <<proc, amfVars, oldHaState, admVars, drbdObj, queued, stopVars, flags,
                 nodeVars>>

\* initRoleMgr(), second part: the DRBDMgr is only made after the handler
\* that uses it is registered; a later allocation may still fail.
InitObjects ==
  /\ role = "objects"
  /\ \/ RoleTo("health") /\ drbdObj' = "live"
     \/ RoleTo("error") /\ drbdObj' \in {"null", "live"}
  /\ UNCHANGED <<proc, amfVars, oldHaState, admVars, watchVars, queued, stopVars, flags, nodeVars>>

\* RoleMgr itself calls nodefailOver() and never comes back from it.
RoleFailover ==
  /\ RoleTo("failover")
  /\ failover' = failover \cup {"RoleMgr"}
  /\ ShutDownAll("RoleMgr")

\* healthCheck(): the record of an unfinished resynchronisation leads to
\* nodefailOver(); a sick DRBD or an unreadable record is an error.
HealthCheck ==
  /\ role = "health"
  /\ \/ role' \in {"split", "error"} /\ UNCHANGED <<stopVars, flags>>
     \/ RoleFailover
  /\ UNCHANGED <<proc, amfVars, oldHaState, admVars, drbdObj, watchVars, queued, nodeVars>>

\* splitBrainAlgo(): the MIPs are probed unless the peer is locked or the
\* agent comes from UNDEFINED with no lock file.  No answer: the lock file
\* goes.  An answer: the lock file is made (or cannot be) and the node resets.
SplitBrainAlgo ==
  /\ role = "split"
  /\ \/ /\ RoleTo("assemble") /\ RMLFile
        /\ UNCHANGED <<stopVars, flags>>
     \/ /\ oldHaState # "Undefined" \/ lockFile = "present"
        /\ lockFile' \in {"present", lockFile}
        /\ RoleFailover
  /\ UNCHANGED <<proc, amfVars, oldHaState, admVars, drbdObj, watchVars, queued, held, left>>

\* A job of StartJobs() that acquires r.  The first failure abandons the
\* rest with nothing undone; the failing script may have had its effect.
StartJob(r, next) ==
  \/ held' = held \cup {r} /\ RoleTo(next) /\ UNCHANGED left
  \/ /\ held' = held \/ held' = held \cup {r}
     /\ RoleTo("error") /\ left' = "dirty"

Assemble ==
  /\ role = "assemble" /\ StartJob("data", "mips")
  /\ UNCHANGED <<proc, amfVars, oldHaState, admVars, drbdObj, watchVars, queued, stopVars, flags,
                 lockFile>>

SetMipAddrs ==
  /\ role = "mips" /\ StartJob("mips", "apos")
  /\ UNCHANGED <<proc, amfVars, oldHaState, admVars, drbdObj, watchVars, queued, stopVars, flags,
                 lockFile>>

\* The last job; StartJobs() then sets m_startJobsDone.
AposJobs ==
  /\ role = "apos" /\ StartJob("apos", "monitor")
  /\ flags' = IF role' = "monitor" THEN flags \cup {"startJobsDone"} ELSE flags
  /\ UNCHANGED <<proc, amfVars, oldHaState, admVars, drbdObj, watchVars, queued, stopVars,
                 lockFile>>

\* new HA_AGENT_DRBDMon and open().
StartMonitor ==
  /\ role = "monitor"
  /\ \/ RoleTo("ready") /\ watch' = [watch EXCEPT !["DRBDMon"] = "spawned"]
     \/ RoleTo("error") /\ watch' = [watch EXCEPT !["DRBDMon"] = "dead"]
  /\ UNCHANGED <<proc, loop, amfVars, oldHaState, admVars, drbdObj, queued, stopVars, flags,
                 nodeVars>>

\* errorDetected: compRestart() = shutDown_all(), then m_compRestart.
RoleError ==
  /\ role = "error"
  /\ \/ /\ stop["RoleMgr"] = "no"
        /\ ShutDownAll("RoleMgr")
        /\ UNCHANGED role
     \/ /\ stop["RoleMgr"] = "ok" /\ "RoleMgr" \notin failover
        /\ RoleTo("ready") /\ stop' = [stop EXCEPT !["RoleMgr"] = "no"]
        /\ flags' = flags \cup {"compRestart"}
  /\ UNCHANGED <<proc, amfVars, oldHaState, admVars, drbdObj, watchVars, queued, failover,
                 nodeVars>>

\* setTasksDone(true), after an error too; then getq().
RoleReady ==
  /\ role = "ready"
  /\ RoleTo("getq") /\ flags' = flags \cup {"tasksDone"}
  /\ UNCHANGED <<proc, amfVars, oldHaState, admVars, drbdObj, watchVars, queued, stopVars, nodeVars>>

\* A bug: the thread leaves without shutDown_all().
RoleStop_NoStopJobs ==
  /\ role = "getq" /\ "RoleMgr" \in queued
  /\ queued' = queued \ {"RoleMgr"}
  /\ RoleTo("stopping") /\ stop' = [stop EXCEPT !["RoleMgr"] = "ok"]
  /\ UNCHANGED <<proc, amfVars, oldHaState, admVars, drbdObj, watchVars, failover, flags, nodeVars>>

\* ROLEMGR_CLOSE: leave the loop and shutDown_all().
RoleStop ==
  /\ role = "getq" /\ "RoleMgr" \in queued
  /\ queued' = queued \ {"RoleMgr"}
  /\ RoleTo("stopping") /\ ShutDownAll("RoleMgr")
  /\ UNCHANGED <<proc, amfVars, oldHaState, admVars, drbdObj, watchVars, failover, nodeVars>>

RoleStopped ==
  /\ role = "stopping" /\ stop["RoleMgr"] = "ok" /\ "RoleMgr" \notin failover
  /\ RoleTo("close") /\ stop' = [stop EXCEPT !["RoleMgr"] = "no"]
  /\ UNCHANGED <<proc, amfVars, oldHaState, admVars, drbdObj, watchVars, queued, failover, flags,
                 nodeVars>>

\* close(u_long): delete the objects, then close and join the monitor.  Its
\* exit() for a shutdown nobody ordered is unreachable: NoAbnormalClose.
RoleClose ==
  /\ role = "close"
  /\ CloseMonitor(queued)
  /\ drbdObj' = "null" /\ RoleTo("joinMon")
  /\ UNCHANGED <<proc, amfVars, oldHaState, admVars, watchVars, stopVars, flags, nodeVars>>

\* A bug: the monitor is told to close but not waited for.
RoleJoin_NoWait ==
  /\ role = "joinMon" /\ watch["Pipe"] # "busy"
  /\ RoleTo("joined") /\ watch' = [watch EXCEPT !["Pipe"] = "off"]
  /\ loop' = IF loop = "run" THEN "ended" ELSE loop
  /\ UNCHANGED <<proc, amfVars, oldHaState, admVars, drbdObj, queued, stopVars, flags,
                 nodeVars>>

\* ... then stop and join the reactor, if there is a thread for it, which waits
\* for a running handler.
RoleJoin ==
  /\ role = "joinMon" /\ watch["DRBDMon"] = "off" /\ watch["Pipe"] # "busy"
  /\ RoleTo("joined") /\ watch' = [watch EXCEPT !["Pipe"] = "off"]
  /\ loop' = IF loop = "run" THEN "ended" ELSE loop
  /\ UNCHANGED <<proc, amfVars, oldHaState, admVars, drbdObj, queued, stopVars, flags,
                 nodeVars>>

-----------------------------------------------------------------------------
(* The watching threads.                                                      *)

\* DRBDMon::svc() starts with init(); if it fails, compRestart() and exit().
MonInit ==
  /\ watch["DRBDMon"] = "spawned"
  /\ \/ watch' = [watch EXCEPT !["DRBDMon"] = "idle"] /\ UNCHANGED <<stop, flags>>
     \/ watch' = [watch EXCEPT !["DRBDMon"] = "restart"] /\ ShutDownAll("DRBDMon")
  /\ UNCHANGED <<proc, loop, amfVars, oldHaState, admVars, roleVars, queued, failover, nodeVars>>

MonExit ==
  /\ watch["DRBDMon"] = "restart" /\ stop["DRBDMon"] = "ok" /\ "DRBDMon" \notin failover
  /\ EndProcess

\* superviseDRBD() finds DRBD gone, or a DRBD_ROLE_CHANGE message from DevMon
\* proves true: nodefailOver().
NodefailOver(w) ==
  /\ watch[w] = "idle" /\ (w = "Pipe" => drbdObj = "live")
  /\ watch' = [watch EXCEPT ![w] = "busy"]
  /\ failover' = failover \cup {w}
  /\ ShutDownAll(w)
  /\ UNCHANGED <<proc, loop, amfVars, oldHaState, admVars, roleVars, queued, nodeVars>>

\* The same message while m_drbdObj is a null pointer: the handler is
\* registered before the object is made, and may outlive it.
PipeWithoutObject ==
  /\ watch["Pipe"] = "idle" /\ drbdObj = "null"
  /\ EndProcess

\* DRBDMON_CLOSE.
MonClose ==
  /\ watch["DRBDMon"] = "idle" /\ "DRBDMon" \in queued
  /\ watch' = [watch EXCEPT !["DRBDMon"] = "off"] /\ queued' = queued \ {"DRBDMon"}
  /\ UNCHANGED <<proc, loop, amfVars, oldHaState, admVars, roleVars, stopVars, flags, nodeVars>>

-----------------------------------------------------------------------------
MainThread ==
  \/ JoinStbyToActivate \/ StartActv \/ StartStby \/ StartFails \/ WaitOnTask
  \/ StopActv \/ JoinActv \/ StopStby \/ JoinStbyToStop
  \/ Reply \/ ReturnFromUsr2 \/ ExitMain

ActvThread == ActvStart \/ ActvShutdown \/ ActvJoin

StbyThread == StbyStart \/ StbyReady \/ StbyShutdown \/ StbyJoin

RoleThread ==
  \/ InitPipe \/ InitObjects \/ HealthCheck \/ SplitBrainAlgo
  \/ Assemble \/ SetMipAddrs \/ AposJobs \/ StartMonitor \/ RoleError \/ RoleReady
  \/ RoleStop \/ RoleStopped \/ RoleClose \/ RoleJoin
  \/ StopJobs("RoleMgr") \/ FailoverReboot("RoleMgr")

MonThread ==
  \/ MonInit \/ MonExit \/ MonClose
  \/ StopJobs("DRBDMon") \/ FailoverReboot("DRBDMon")

PipeThread == StopJobs("Pipe") \/ FailoverReboot("Pipe")

\* A thread of the process uses a pointer to nothing.
Crash == NullReactor \/ PipeWithoutObject \/ \E w \in Watchers : UseAfterFree(w)

Agent ==
  \/ MainThread \/ ActvThread \/ StbyThread \/ RoleThread \/ MonThread \/ PipeThread
  \/ Crash

\* What AMF, the signals and DRBD do to the process.
Environment ==
  \/ SetActive \/ SetStandby \/ DispatchFails \/ Usr2 \/ Instantiate
  \/ \E s \in {"Quiescing", "Quiesced"} : SetQuiesced(s)
  \/ \E o \in {"Remove", "Terminate"} : RemoveOrTerminate(o)
  \/ \E w \in Watchers : NodefailOver(w)

Next == Agent \/ Environment \/ Kill

Spec == Init /\ [][Next]_vars

\* Every thread of the process keeps running: the kernel schedules them all,
\* every script a thread waits for ends, and waitOntask() has a timeout.
ThreadFairness ==
  /\ WF_vars(MainThread) /\ WF_vars(ActvThread) /\ WF_vars(StbyThread)
  /\ WF_vars(RoleThread) /\ WF_vars(MonThread) /\ WF_vars(PipeThread)
  /\ WF_vars(NullReactor)

\* Besides, the CLC script sends SIGKILL 60 seconds after SIGUSR2.
FairSpec == Spec /\ ThreadFairness /\ WF_vars(Kill)

-----------------------------------------------------------------------------
(* Safety.                                                                    *)

\* The agent never runs the active and the standby application together:
\* activateApp() stops and joins the standby one before it starts the active
\* one, passifyApp() only ever follows a stopApp() (hamanager.cpp).
OneRole == actv = "none" \/ stby = "none"

\* Once an application object is deleted none of its threads is left - no
\* RoleMgr, no monitor, no reactor handler, no StopJobs() in progress - so the
\* next application starts alone on shared DRBD, mounts and addresses.
NoOrphans ==
  actv = "none" /\ stby = "none" =>
    /\ role = "off" /\ drbdObj = "null"
    /\ \A w \in Watchers : watch[w] = "off"
    /\ \A t \in Threads : stop[t] = "no"
    /\ queued = {} /\ failover = {}

\* A node whose agent is not active holds none of the active resources,
\* unless a start failed half way or a process died holding them: stopApp()
\* returns only after StopJobs() has released them, however many threads
\* were in shutDown_all() at the time.
Released == proc = "up" /\ actv = "none" /\ left = "clean" => held = {}

\* The MIPs are only up over a mounted /data, and the servers only behind the
\* MIPs: drbdStartJobs() takes them in this order and drbdStopJobs() gives
\* them up in the reverse one, also when two threads run it at once, when a
\* start or a stop fails half way and after a crash in between.
ResourceOrder ==
  /\ "apos" \in held => "mips" \in held
  /\ "mips" \in held => "data" \in held

\* AMF was told that the node is active and no failure is being handled: all
\* the jobs of the active role are done and still in force.
ActiveAnswerTrue ==
  /\ proc = "up" /\ amf = "poll" /\ clc = "quiet"
  /\ haState = "Active" /\ resp = "ok"
  /\ failover = {} /\ watch["DRBDMon"] # "restart"
  => "startJobsDone" \in flags /\ held = Resources

\* RoleMgr::close(u_long) is never reached without an ordered shutdown: its
\* "Abnormal shutdown" exit is dead code (rolemngr.cpp).
NoAbnormalClose == role \in {"close", "joinMon", "joined"} => "shutdownOrdered" \in flags

-----------------------------------------------------------------------------
(* Liveness.                                                                  *)

\* A stop script fails again and again: shutDown_all() begins anew each time.
StopFailsForEver ==
  []<><<\E t \in DOMAIN stop : stop[t] \in {"mips", "data"} /\ stop'[t] = "apos">>_vars

\* Every AMF callback ends: the main thread is back in poll(), or the process
\* or the node is gone.  No join of stopApp() waits for ever, unless the stop
\* scripts keep failing.
Answered == StopFailsForEver \/ (amf # "poll" ~> (amf = "poll" \/ proc # "up"))

\* rolemngr.cpp says of a StopJobs() failure "lets initiate a quick reset": a
\* thread that has entered nodefailOver() resets the node.
StopFailureResets == failover # {} ~> proc # "up"

=============================================================================
