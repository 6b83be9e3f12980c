----------------------------- MODULE HaAgentInv -----------------------------
(***************************************************************************)
(* The inductive invariant of HaAgent.  The properties of HaAgent are not  *)
(* inductive: that a deleted application leaves no thread behind depends   *)
(* on what every thread is doing meanwhile, and that AMF's answer is true  *)
(* depends on how tasksDone came to be set.  Each part below says what a   *)
(* program counter value implies.                                          *)
(***************************************************************************)
EXTENDS HaAgent

StopOrders == {"Quiescing", "Quiesced", "Remove", "Terminate", "Usr2", "Exit"}

NoApp == actv = "none" /\ stby = "none"

(* MainInv: what the main thread knows of the two applications.             *)

\* Orders of AMF reach the agent in a state its HAState describes.
PollInv ==
  amf = "poll" /\ clc = "quiet" /\ resp \in {"none", "ok"} =>
    /\ resp = "none" => haState = "Undefined"
    /\ haState \in {"Undefined", "Quiescing", "Quiesced"} => NoApp
    /\ haState = "Standby" => stby # "none"
    /\ haState = "Active" => stby = "none"

StartInv ==
  /\ amf = "startActv" => order = "Active" /\ haState = "Active" /\ NoApp
  /\ amf = "startStby" => order = "Standby" /\ haState = "Standby" /\ NoApp
  /\ amf = "wait" =>
       \/ order = "Active" /\ haState = "Active" /\ actv # "none"
       \/ order = "Standby" /\ haState = "Standby" /\ stby # "none"

StopInv ==
  /\ amf \in {"stopActv", "joinActv", "stopStby"} => order \in StopOrders
  /\ amf = "joinActv" => actv # "none"
  /\ amf = "stopStby" => actv = "none"
  /\ amf = "joinStby" => /\ stby # "none"
                         /\ order \in StopOrders \/ (order = "Active" /\ haState = "Active")

ReplyInv ==
  amf = "reply" =>
    \/ order = "Active" /\ haState = "Active" /\ actv # "none"
    \/ order = "Standby" /\ haState = "Standby" /\ stby # "none"
    \/ order \in StopOrders /\ NoApp

OrderInv ==
  /\ order = "Usr2" => clc = "usr2"
  /\ amf # "poll" /\ order \in {"Quiescing", "Quiesced"} => haState = order
  /\ amf # "poll" /\ order \in {"Remove", "Terminate"} => haState = "Undefined"

DownInv == proc # "up" => amf = "poll" /\ NoApp /\ clc = "quiet" /\ resp = "none"

MainInv == OneRole /\ PollInv /\ StartInv /\ StopInv /\ ReplyInv /\ OrderInv /\ DownInv

(* ThreadInv: which threads can exist, and which can be in StopJobs().       *)

StoppingWatchers ==
  \A w \in Watchers :
    /\ watch[w] \notin {"restart", "busy"} => stop[w] = "no" /\ w \notin failover
    /\ watch[w] = "busy" => w \in failover

WatchInv ==
  /\ watch["Pipe"] \in {"off", "idle", "busy"}
  /\ "DRBDMon" \in queued => watch["DRBDMon"] # "off"
  /\ "ACTVAdm" \in queued => actv # "none"
  /\ "STNBYAdm" \in queued => stby # "none"
  /\ stby \in {"none", "start", "done"} /\ ~RoleMgrExists => watch["DRBDMon"] = "off"

RoleInv ==
  /\ ~RoleMgrExists => role = "off" /\ "RoleMgr" \notin queued
  /\ actv = "done" => role \in {"off", "joined"}
  /\ role \in {"off", "init", "joined"} => watch["Pipe"] = "off"
  /\ role \in {"off", "init", "objects", "joinMon", "joined"} => drbdObj = "null"
  /\ RoleMgrExists /\ role \in {"off", "init", "objects", "health", "split", "assemble",
                                "mips", "apos", "monitor", "joined"}
       => watch["DRBDMon"] = "off"
  /\ role \notin {"error", "stopping", "failover"}
       => stop["RoleMgr"] = "no" /\ "RoleMgr" \notin failover

ThreadInv == StoppingWatchers /\ WatchInv /\ RoleInv

(* ShutdownInv: a shutdown goes from the main thread to ACTVAdm to RoleMgr.  *)

Closing == {"stopping", "close", "joinMon", "joined"}

ShutdownInv ==
  /\ "ACTVAdm" \in queued \/ actv \in {"closing", "done"} => amf \in {"joinActv", "stuck"}
  /\ "shutdownOrdered" \in flags => actv \in {"closing", "done"}
  /\ "RoleMgr" \in queued \/ role \in Closing => "shutdownOrdered" \in flags

(* ResourceInv: how far the jobs of the active role have come.              *)

AfterStart == {"monitor", "error", "failover", "ready", "getq"} \cup Closing

JobsInv ==
  /\ "startJobsDone" \in flags => role \in AfterStart \ {"close", "joinMon", "joined"}
  /\ stop["RoleMgr"] = "ok" => "startJobsDone" \notin flags
  /\ \A t \in Threads :
       /\ stop[t] \in {"apos", "mips", "data"} => role \in AfterStart
       /\ stop[t] \in {"mips", "data"} => "apos" \notin held
       /\ stop[t] = "data" => "mips" \notin held

HeldInv ==
  /\ role = "mips" => "data" \in held
  /\ role = "apos" => {"data", "mips"} \subseteq held
  /\ /\ "startJobsDone" \in flags /\ failover = {}
     /\ \A t \in Threads : stop[t] \notin {"mips", "data"}
     => held = Resources

CleanInv ==
  left = "clean" /\ "startJobsDone" \notin flags =>
    /\ role # "apos" => "mips" \notin held
    /\ role \notin {"mips", "apos"} => "data" \notin held
    /\ "apos" \notin held

ResourceInv == ResourceOrder /\ JobsInv /\ HeldInv /\ CleanInv

(* AnswerInv: what tasksDone, the flag waitOntask() polls, stands for.      *)

DoneInv ==
  /\ "tasksDone" \in flags => stby # "none" \/ role \in {"getq"} \cup Closing
  /\ role \in {"monitor", "ready", "getq"} /\ "compRestart" \notin flags /\ failover = {}
       /\ watch["DRBDMon"] # "restart" => "startJobsDone" \in flags

ServingInv ==
  /\ proc = "up" /\ clc = "quiet" /\ haState = "Active"
  /\ (amf = "poll" /\ resp = "ok") \/ (amf = "reply" /\ order = "Active")
  => actv = "getq" /\ role = "getq" /\ "compRestart" \notin flags

AnswerInv == DoneInv /\ ServingInv

(* OrderlyInv: which process AMF's next order or a stop can find.             *)

\* AMF will not give this process another order.
Broken == resp \in {"failed", "lost"} \/ clc = "usr2" \/ order = "Exit"

\* A thread is handling a failure and may be running StopJobs() on its own.
Handling == failover # {} \/ watch["DRBDMon"] = "restart"

CallInv ==
  /\ amf = "poll" => order = "None"
  /\ amf = "stuck" => clc = "usr2"
  /\ amf \notin {"poll", "stuck"} /\ order \notin {"Usr2", "Exit"}
       => resp \in {"none", "ok"} /\ clc = "quiet"
  /\ amf \in {"joinStby", "startActv"} /\ order = "Active" => oldHaState = prevHa
  /\ amf = "joinStby" /\ order = "Active" => prevHa = "Standby"

\* AMF only stops an application that has answered, and so has not failed.
StopOfServing ==
  amf \in {"stopActv", "joinActv"} /\ actv # "none" /\ ~Broken =>
    /\ role \in {"getq"} \cup Closing /\ "compRestart" \notin flags
    /\ role \in Closing /\ ~Handling /\ "startJobsDone" \notin flags => left = "clean"

\* RoleMgr alone in StopJobs() has what it has not given up yet.
AloneInv ==
  stop["RoleMgr"] \in {"apos", "mips", "data"} /\ ~Handling =>
    /\ "startJobsDone" \in flags /\ "data" \in held
    /\ stop["RoleMgr"] # "data" => "mips" \in held

\* A process leaves a clean node exactly when it holds nothing.
LeftInv == proc # "up" => (left = "clean" <=> held = {})

OrderlyInv == CallInv /\ StopOfServing /\ AloneInv /\ LeftInv

(* WaitInv: whoever is waited for has been told to end.                       *)

\* A monitor that is being joined got past init() and has its message.
MonTold == watch["DRBDMon"] \notin {"spawned", "dead"}
           /\ (watch["DRBDMon"] # "off" => "DRBDMon" \in queued)

WaitInv ==
  /\ amf = "joinActv" /\ actv \in {"start", "getq"} => "ACTVAdm" \in queued
  /\ amf = "joinStby" /\ stby \in {"start", "ready", "getq"} => "STNBYAdm" \in queued
  /\ actv = "closing" => role \in {"off"} \cup Closing \/ "RoleMgr" \in queued
  /\ stby = "closing" \/ role = "joinMon" => MonTold
  /\ \A t \in failover : stop[t] # "no"
  /\ watch["DRBDMon"] = "restart" => stop["DRBDMon"] # "no"
  /\ role = "stopping" => stop["RoleMgr"] # "no"
  /\ role = "failover" => "RoleMgr" \in failover

\* The inductive invariant: every step of the agent, of AMF and of the CLC
\* script preserves it, and it implies the safety properties of HaAgent.
IInv == TypeOK /\ MainInv /\ ThreadInv /\ ShutdownInv /\ ResourceInv /\ AnswerInv
        /\ OrderlyInv /\ WaitInv

-----------------------------------------------------------------------------
(* No join of the shutdown is part of a circle.                               *)

\* Thread t is inside StopJobs(), or through it and about to reset the node.
StopCan(t) == stop[t] \in {"apos", "mips", "data"} \/ (stop[t] = "ok" /\ t \in failover)

\* The guards of the threads' next steps.
ActvCan == \/ actv = "start"
           \/ actv = "getq" /\ "ACTVAdm" \in queued /\ watch["Pipe"] # "busy"
           \/ actv = "closing" /\ role \in {"off", "joined"}

StbyCan == \/ stby \in {"start", "ready"}
           \/ stby = "getq" /\ "STNBYAdm" \in queued
           \/ stby = "closing" /\ watch["DRBDMon"] = "off"

RoleCan == \/ role \in {"init", "objects", "health", "split", "assemble", "mips", "apos",
                        "monitor", "ready", "close"}
           \/ role = "error" /\ stop["RoleMgr"] = "no"
           \/ role \in {"error", "stopping"} /\ stop["RoleMgr"] = "ok"
           \/ role = "getq" /\ "RoleMgr" \in queued
           \/ role = "joinMon" /\ watch["DRBDMon"] = "off" /\ watch["Pipe"] # "busy"
           \/ StopCan("RoleMgr")

MonCan == \/ watch["DRBDMon"] = "spawned"
          \/ watch["DRBDMon"] = "restart" /\ stop["DRBDMon"] = "ok"
          \/ watch["DRBDMon"] = "idle" /\ "DRBDMon" \in queued
          \/ StopCan("DRBDMon")

PipeCan == StopCan("Pipe")

\* stopApp() never waits for a thread that waits as well, for a message that
\* nobody sends or for a thread that is gone: of the threads a join depends
\* on (ACTVAdm, then RoleMgr, then the monitor and the reactor) one can go on
\* (stopActv(), stopStndby(), shutDown_all(), close(u_long)).
JoinsAdvance ==
  /\ amf = "joinActv" /\ actv # "done" =>
       \/ ActvCan
       \/ actv = "getq" /\ PipeCan
       \/ actv = "closing" /\ (RoleCan \/ (role = "joinMon" /\ (MonCan \/ PipeCan)))
  /\ amf = "joinStby" /\ stby # "done" => StbyCan \/ (stby = "closing" /\ MonCan)

=============================================================================
