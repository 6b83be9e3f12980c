------------------------------ MODULE DevMon -------------------------------
(***************************************************************************)
(* One apos_ha_devmond process (ha_cnz/haadm_devmon_caa/drbd): the AMF     *)
(* callbacks in the main thread, the HA_DEVMON_Adm thread they start and   *)
(* stop, the two monitors that Adm starts and stops, each with a thread    *)
(* and a reactor thread for its timer, the signals, and the CLC script.    *)
(* What the monitors find out is in DevPipe and RaidMgr.                   *)
(*                                                                         *)
(* The process runs under AMF, and a health check of AMF is always         *)
(* answered with success; SIGHUP only reads the configuration again.       *)
(***************************************************************************)
EXTENDS Integers

CONSTANT MaxBacklog   \* the TIMEOUT messages a monitor may be behind

ASSUME BacklogAssumption == MaxBacklog \in Nat \ {0}

VARIABLES
  proc,       \* the process
  main,       \* the main thread
  order,      \* the callback it serves
  resp,       \* the last answer to AMF
  haState,    \* HAState
  prevHa,     \* previousHAState of coremw_csi_set_callback
  clc,        \* whether the CLC script has sent SIGUSR2
  adm,        \* m_admObj: there is none, or the step of its thread
  flags,      \* what is so: see Flags
  mon,        \* the threads of the monitors
  reactor,    \* the monitors whose reactor thread runs
  backlog,    \* the TIMEOUT messages in their queues
  closeMsg    \* the monitors with a CLOSE behind these

amfVars == <<main, order, resp, haState, prevHa, clc>>
admVars == <<adm, flags>>
monVars == <<mon, reactor, backlog, closeMsg>>
vars == <<proc, amfVars, admVars, monVars>>

Monitor  == {"DRBDMon", "DRBDRecovery"}

\* SHUTDOWN in the queue of Adm; SIGTERM and SIGINT call its handle_signal();
\* Global::shutdown_ordered(); Global::fifo_fd open; and, as history, SIGTERM or
\* SIGINT received.
Flags == {"shutMsg", "handlers", "shutdown", "fifo", "term"}

HaStates == {"Undefined", "Active", "Standby", "Quiescing", "Quiesced"}

\* The type invariant.
TypeOK ==
  /\ proc \in {"up", "down"}
  /\ main \in {"poll", "start", "stop", "join", "reply", "stuck"}
  /\ order \in HaStates \cup {"None", "Remove", "Terminate", "Usr2", "Exit"}
  /\ resp \in {"none", "ok", "failed", "lost"}
  /\ haState \in HaStates /\ prevHa \in HaStates /\ clc \in {"quiet", "usr2"}
  /\ adm \in {"none", "new", "fifo", "openMon", "openRcvy", "getq",
              "closeMon", "joinMon", "joinRcvy", "done"}
  /\ flags \subseteq Flags
  /\ mon \in [Monitor -> {"off", "init", "getq", "check", "close", "join", "done"}]
  /\ reactor \subseteq Monitor /\ backlog \in [Monitor -> 0 .. MaxBacklog]
  /\ closeMsg \subseteq Monitor

-----------------------------------------------------------------------------
(* The process                                                               *)

Init ==
  /\ proc = "up" /\ main = "poll" /\ order = "None" /\ resp = "none" /\ clc = "quiet"
  /\ haState = "Undefined" /\ prevHa = "Undefined"
  /\ adm = "none" /\ flags = {} /\ mon = [m \in Monitor |-> "off"] /\ reactor = {}
  /\ backlog = [m \in Monitor |-> 0] /\ closeMsg = {}

\* exit(), the end of main(), or a signal that kills: threads and descriptors go.
EndProcess ==
  /\ proc' = "down" /\ main' = "poll" /\ order' = "None" /\ resp' = "none" /\ clc' = "quiet"
  /\ haState' = "Undefined" /\ prevHa' = "Undefined"
  /\ adm' = "none" /\ flags' = {} /\ mon' = [m \in Monitor |-> "off"] /\ reactor' = {}
  /\ backlog' = [m \in Monitor |-> 0] /\ closeMsg' = {}

\* AMF starts the component again.
Instantiate == proc = "down" /\ proc' = "up" /\ UNCHANGED <<amfVars, admVars, monVars>>

-----------------------------------------------------------------------------
(* The main thread                                                           *)

\* What AMF may order, by the state it has assigned; it only cleans up after a
\* failed or lost answer.
Allowed ==
  [Undefined |-> {"Active", "Standby", "Terminate"},
   Standby   |-> {"Active", "Standby", "Quiesced", "Remove", "Terminate"},
   Active    |-> {"Active", "Quiescing", "Quiesced", "Remove", "Terminate"},
   Quiescing |-> {"Active", "Quiesced", "Remove", "Terminate"},
   Quiesced  |-> {"Active", "Standby", "Remove", "Terminate"}]

\* The callbacks: HAState is stored before the jobs are done; activateApp() is
\* the job of ACTIVE, passifyApp() that of all the others.
Callback(o) ==
  /\ proc = "up" /\ main = "poll" /\ clc = "quiet" /\ resp \in {"none", "ok"}
  /\ o \in Allowed[haState]
  /\ order' = o
  /\ IF o \in HaStates THEN haState' = o /\ prevHa' = haState
                       ELSE haState' = "Undefined" /\ UNCHANGED prevHa
  /\ main' = IF o # "Active" THEN "stop" ELSE IF adm = "none" THEN "start" ELSE "reply"
  /\ adm' = IF o = "Active" /\ adm = "none" THEN "new" ELSE adm
  /\ UNCHANGED <<proc, resp, clc, flags, monVars>>

\* saAmfResponse() or, after QUIESCING, saAmfCSIQuiescingComplete(); a CSI set
\* whose answer fails takes the previous HAState again.
Answer(r) ==
  /\ main' = "poll" /\ order' = "None"
  /\ \/ resp' = r /\ UNCHANGED haState
     \/ /\ resp' = "lost"
        /\ haState' = IF order \in HaStates THEN prevHa ELSE haState
  /\ UNCHANGED <<prevHa, clc>>

\* ~HA_DEVMON_Adm() and Global::deactivate(): the monitors and the flags go too.
DeleteAdm(set) ==
  /\ adm' = "none" /\ flags' = set \ {"shutMsg", "shutdown"}
  /\ mon' = [m \in Monitor |-> "off"] /\ backlog' = [m \in Monitor |-> 0] /\ closeMsg' = {}

\* HA_DEVMON_Adm::start(): the handlers are registered, the configuration is
\* read and the thread is made.
Start ==
  /\ main = "start"
  /\ adm' = "fifo" /\ flags' = flags \cup {"handlers"} /\ main' = "reply"
  /\ UNCHANGED <<proc, order, resp, haState, prevHa, clc, monVars>>

\* One of these fails: the object is deleted, but no handler is removed.
StartFails ==
  /\ main = "start"
  /\ \E registered \in SUBSET {"handlers"} : DeleteAdm(flags \cup registered)
  /\ Answer("failed")
  /\ UNCHANGED <<proc, reactor>>

\* passifyApp(): SHUTDOWN is sent to the thread, which is then waited for.
Stop ==
  /\ main = "stop"
  /\ main' = IF adm = "none" THEN "reply" ELSE "join"
  /\ flags' = IF adm = "none" THEN flags ELSE flags \cup {"shutMsg"}
  /\ UNCHANGED <<proc, order, resp, haState, prevHa, clc, adm, monVars>>

Join_KeepsObject ==
  /\ main = "join" /\ adm = "done" /\ main' = "reply"
  /\ UNCHANGED <<proc, order, resp, haState, prevHa, clc, admVars, monVars>>
Join ==
  /\ main = "join" /\ adm = "done"
  /\ DeleteAdm(flags) /\ main' = "reply"
  /\ UNCHANGED <<proc, order, resp, haState, prevHa, clc, reactor>>

\* The callback answers; a terminate whose answer was sent ends the process.
Reply ==
  /\ main = "reply" /\ order \notin {"Usr2", "Exit"}
  /\ Answer("ok")
  /\ order = "Terminate" => resp' = "lost"
  /\ UNCHANGED <<proc, admVars, monVars>>

Exit == main = "reply" /\ order \in {"Terminate", "Exit"} /\ EndProcess

\* poll() or dispatch() fails: main() ends, and ~devmonHAClass() is passifyApp().
DispatchFails ==
  /\ proc = "up" /\ main = "poll"
  /\ main' = "stop" /\ order' = "Exit"
  /\ UNCHANGED <<proc, resp, haState, prevHa, clc, admVars, monVars>>

-----------------------------------------------------------------------------
(* Signals                                                                   *)

\* The CLC script: SIGUSR2, whose handler is passifyApp() in the main thread,
\* a second, SIGKILL.  If the main thread holds m_admLock it waits for itself.
\* (A signal between unlock and answer is taken as arriving after the answer.)
Usr2 ==
  /\ proc = "up" /\ clc = "quiet" /\ clc' = "usr2"
  /\ \/ main = "poll" /\ main' = "stop" /\ order' = "Usr2"
     \/ main \in {"start", "stop", "join"} /\ main' = "stuck" /\ UNCHANGED order
  /\ UNCHANGED <<proc, resp, haState, prevHa, admVars, monVars>>

ReturnFromUsr2 ==
  /\ main = "reply" /\ order = "Usr2"
  /\ main' = "poll" /\ order' = "None"
  /\ UNCHANGED <<proc, resp, haState, prevHa, clc, admVars, monVars>>

Kill == proc = "up" /\ clc = "usr2" /\ EndProcess

\* SIGTERM or SIGINT: handle_signal() is stop(); without a handler it is the end
\* of the process.  A handler whose object was deleted may do anything; here it
\* crashes or does nothing.
Signal ==
  /\ proc = "up"
  /\ \/ /\ "handlers" \in flags
        /\ flags' = flags \cup (IF adm = "none" THEN {"term"} ELSE {"term", "shutMsg"})
        /\ UNCHANGED <<proc, amfVars, adm, monVars>>
     \/ ("handlers" \notin flags \/ adm = "none") /\ EndProcess

-----------------------------------------------------------------------------
(* The Adm thread                                                            *)

\* svc(): the pipe is opened, then the monitors are, one after the other.
AdmOpen ==
  /\ \/ adm = "fifo" /\ adm' = "openMon" /\ flags' = flags \cup {"fifo"} /\ UNCHANGED mon
     \/ /\ adm = "openMon" /\ adm' = "openRcvy" /\ UNCHANGED flags
        /\ mon' = [mon EXCEPT !["DRBDMon"] = "init"]
     \/ /\ adm = "openRcvy" /\ adm' = "getq" /\ UNCHANGED flags
        /\ mon' = [mon EXCEPT !["DRBDRecovery"] = "init"]
  /\ UNCHANGED <<proc, amfVars, reactor, backlog, closeMsg>>

\* Any of this fails: compRestart() and exit().
AdmOpenFails == adm \in {"fifo", "openMon", "openRcvy"} /\ EndProcess

\* shutDown_all(): the handlers, the flag, the monitors in turn, and the pipe.
ShutDownAll_NoFlag ==
  /\ adm = "getq" /\ "shutMsg" \in flags /\ adm' = "closeMon"
  /\ flags' = flags \ {"shutMsg", "handlers"}
  /\ UNCHANGED <<proc, amfVars, monVars>>
ShutDownAll ==
  /\ adm = "getq" /\ "shutMsg" \in flags /\ adm' = "closeMon"
  /\ flags' = (flags \ {"shutMsg", "handlers"}) \cup {"shutdown"}
  /\ UNCHANGED <<proc, amfVars, monVars>>

CloseMon ==
  /\ adm = "closeMon" /\ adm' = "joinMon"
  /\ closeMsg' = closeMsg \cup {"DRBDMon"}
  /\ UNCHANGED <<proc, amfVars, flags, mon, reactor, backlog>>

CloseRcvy_NotTold ==
  /\ adm = "joinMon" /\ mon["DRBDMon"] = "done" /\ adm' = "joinRcvy"
  /\ UNCHANGED <<proc, amfVars, flags, monVars>>
CloseRcvy_NoWait ==
  /\ adm = "joinMon" /\ adm' = "joinRcvy"
  /\ closeMsg' = closeMsg \cup {"DRBDRecovery"}
  /\ UNCHANGED <<proc, amfVars, flags, mon, reactor, backlog>>
CloseRcvy ==
  /\ adm = "joinMon" /\ mon["DRBDMon"] = "done" /\ adm' = "joinRcvy"
  /\ closeMsg' = closeMsg \cup {"DRBDRecovery"}
  /\ UNCHANGED <<proc, amfVars, flags, mon, reactor, backlog>>

FifoClose ==
  /\ adm = "joinRcvy" /\ mon["DRBDRecovery"] = "done" /\ adm' = "done"
  /\ flags' = flags \ {"fifo"}
  /\ UNCHANGED <<proc, amfVars, monVars>>

-----------------------------------------------------------------------------
(* A monitor                                                                 *)

MonGoto(m, pc) == mon' = [mon EXCEPT ![m] = pc] /\ UNCHANGED <<proc, amfVars, admVars>>

\* initDRBDMon() and init() make the reactor, its thread and the timer.
MonInit(m) ==
  /\ mon[m] = "init" /\ MonGoto(m, "getq")
  /\ reactor' = reactor \cup {m} /\ UNCHANGED <<backlog, closeMsg>>

MonInitFails(m) == mon[m] = "init" /\ EndProcess

\* handle_timeout(), in the thread of the reactor.
HandleTimeout(m) ==
  /\ m \in reactor /\ backlog[m] < MaxBacklog
  /\ backlog' = [backlog EXCEPT ![m] = IF m \in closeMsg THEN @ ELSE @ + 1]
  /\ UNCHANGED <<proc, amfVars, admVars, mon, reactor, closeMsg>>

\* TIMEOUT: healthCheck(), which may write to the pipe or run a recovery.
HealthCheck(m) ==
  /\ \/ /\ mon[m] = "getq" /\ backlog[m] > 0 /\ MonGoto(m, "check")
        /\ backlog' = [backlog EXCEPT ![m] = @ - 1]
     \/ mon[m] = "check" /\ MonGoto(m, "getq") /\ UNCHANGED backlog
  /\ UNCHANGED <<reactor, closeMsg>>

\* CLOSE, once its turn has come.
MonClose(m) ==
  /\ mon[m] = "getq" /\ backlog[m] = 0 /\ m \in closeMsg /\ MonGoto(m, "close")
  /\ closeMsg' = closeMsg \ {m} /\ UNCHANGED <<reactor, backlog>>

\* close(u_long): exit() unless the shutdown was ordered; the loop of the
\* reactor is ended and its thread waited for.
CloseHook_NoWait(m) ==
  /\ mon[m] = "close"
  /\ \/ "shutdown" \notin flags /\ EndProcess
     \/ "shutdown" \in flags /\ MonGoto(m, "done") /\ UNCHANGED <<reactor, backlog, closeMsg>>
CloseHook(m) ==
  /\ mon[m] = "close"
  /\ \/ "shutdown" \notin flags /\ EndProcess
     \/ "shutdown" \in flags /\ MonGoto(m, "join") /\ UNCHANGED <<reactor, backlog, closeMsg>>

ReactorEnds(m) ==
  /\ mon[m] = "join" /\ m \in reactor
  /\ reactor' = reactor \ {m}
  /\ UNCHANGED <<proc, amfVars, admVars, mon, backlog, closeMsg>>

CloseDone(m) ==
  /\ mon[m] = "join" /\ m \notin reactor /\ MonGoto(m, "done")
  /\ UNCHANGED <<reactor, backlog, closeMsg>>

-----------------------------------------------------------------------------
MainStep == Start \/ StartFails \/ Stop \/ Join \/ Reply \/ Exit \/ ReturnFromUsr2
AdmStep  == AdmOpen \/ AdmOpenFails \/ ShutDownAll \/ CloseMon \/ CloseRcvy \/ FifoClose
MonStep(m) == MonInit(m) \/ MonInitFails(m) \/ HealthCheck(m) \/ MonClose(m) \/ CloseHook(m) \/ CloseDone(m)

Next ==
  \/ \E o \in HaStates \cup {"Remove", "Terminate"} : Callback(o)
  \/ MainStep \/ DispatchFails \/ Usr2 \/ Kill \/ Signal \/ Instantiate \/ AdmStep
  \/ \E m \in Monitor : MonStep(m) \/ HandleTimeout(m) \/ ReactorEnds(m)

Spec == Init /\ [][Next]_vars

\* Each thread is scheduled, and the CLC script goes on to SIGKILL.
FairSpec ==
  /\ Spec /\ WF_vars(MainStep) /\ WF_vars(AdmStep) /\ WF_vars(Kill)
  /\ \A m \in Monitor : WF_vars(MonStep(m)) /\ WF_vars(ReactorEnds(m))

-----------------------------------------------------------------------------
\* While AMF holds the answer that this node supervises its disks, the thread
\* that does so is there and its monitors are starting or running, in every
\* activation, unless a signal told them to stop (activateApp(), svc(),
\* ~HA_DEVMON_Adm()).
ActiveWatched ==
  main = "poll" /\ haState = "Active" /\ resp = "ok" /\ clc = "quiet" /\ "term" \notin flags =>
    /\ adm \in {"fifo", "openMon", "openRcvy", "getq"}
    /\ adm = "getq" => \A m \in Monitor : mon[m] \in {"init", "getq", "check"}

\* Once AMF has been told otherwise nothing of the supervision is left: no
\* thread, no timer, no open pipe, no handler of a dead object (passifyApp(),
\* shutDown_all()).
NothingLeft ==
  main = "poll" /\ resp = "ok" /\ haState # "Active" =>
    /\ adm = "none" /\ reactor = {} /\ \A m \in Monitor : mon[m] = "off"
    /\ "fifo" \notin flags /\ "handlers" \notin flags

\* A timer and a check find what they use: the monitor and the configuration,
\* which go with the Adm object, and the pipe (shutDown_all(), close(u_long):
\* "make sure to close fifo pipe at end").
InUse ==
  \A m \in Monitor :
    /\ mon[m] \notin {"off", "done"} \/ m \in reactor => adm \notin {"none", "new", "done"}
    /\ mon[m] = "check" => "fifo" \in flags

\* No monitor takes an ordered shutdown for an abnormal one, the first time or
\* after another activation (close(u_long): "check that we're really shutting
\* down").
NoAbnormalClose == \A m \in Monitor : mon[m] = "close" => "shutdown" \in flags

\* A callback is answered or the process ends, even if the monitors are behind
\* and a signal makes the main thread wait for itself (passifyApp(), the CLC
\* script).
Answered == (order # "None") ~> (order = "None")

=============================================================================
