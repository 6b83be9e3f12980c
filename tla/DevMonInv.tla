----------------------------- MODULE DevMonInv ------------------------------
(***************************************************************************)
(* The inductive invariant of DevMon: what each step of the main thread    *)
(* and of the Adm thread says of the objects, threads and flags that the   *)
(* others use.                                                             *)
(***************************************************************************)
EXTENDS DevMon

Opening == {"fifo", "openMon", "openRcvy", "getq"}
Closing == {"closeMon", "joinMon", "joinRcvy", "done"}

\* What the Adm thread has made and not yet taken down.
AdmInv ==
  /\ "shutdown" \in flags <=> adm \in Closing
  /\ "fifo" \in flags <=> adm \in {"openMon", "openRcvy", "getq", "closeMon", "joinMon", "joinRcvy"}
  /\ mon["DRBDMon"] = "off" <=> adm \in {"none", "new", "fifo", "openMon"}
  /\ mon["DRBDRecovery"] = "off" <=> adm \in {"none", "new", "fifo", "openMon", "openRcvy"}
  /\ "DRBDMon" \in closeMsg \/ mon["DRBDMon"] \in {"close", "join", "done"} =>
       adm \in {"joinMon", "joinRcvy", "done"}
  /\ "DRBDRecovery" \in closeMsg \/ mon["DRBDRecovery"] \in {"close", "join", "done"} =>
       adm \in {"joinRcvy", "done"}
  /\ adm \in {"joinRcvy", "done"} => mon["DRBDMon"] = "done"
  /\ adm = "done" => mon["DRBDRecovery"] = "done"
  /\ \A m \in reactor : mon[m] \in {"getq", "check", "close", "join"}

\* The callback, the state it has stored, and the object it has made or deleted.
MainInv ==
  /\ main = "poll" <=> order = "None"
  /\ order = "Usr2" => clc = "usr2"
  /\ main = "start" => adm = "new" /\ order = "Active"
  /\ adm = "new" => main \in {"start", "stuck"}
  /\ main \in {"stop", "join"} => order # "Active"
  /\ main = "reply" => IF order = "Active" THEN adm # "none" ELSE adm = "none"
  /\ order \in HaStates => haState = order
  /\ order \in {"Remove", "Terminate"} => haState = "Undefined"
  /\ order \notin {"None", "Usr2", "Exit"} => resp \in {"none", "ok"}
  /\ main = "poll" /\ resp = "ok" =>
       /\ adm # "none" => haState = "Active"
       /\ haState = "Active" /\ clc = "quiet" => adm # "none"

\* The supervision ends only when somebody has asked for it; the handlers are
\* there as long as it runs, or a start has failed.
SignalInv ==
  /\ "shutMsg" \in flags \/ adm \in Closing => "term" \in flags \/ main \in {"join", "stuck"}
  /\ "handlers" \in flags => adm \in Opening \/ resp \in {"failed", "lost"}

\* Whoever is waited for has been told to end.
WaitInv ==
  /\ main = "join" => adm \notin {"none", "new"} /\ (adm \in Opening => "shutMsg" \in flags)
  /\ adm = "joinMon" => "DRBDMon" \in closeMsg \/ mon["DRBDMon"] \in {"close", "join", "done"}
  /\ adm = "joinRcvy" =>
       "DRBDRecovery" \in closeMsg \/ mon["DRBDRecovery"] \in {"close", "join", "done"}

\* The inductive invariant (passifyApp(), HA_DEVMON_Adm::svc(), shutDown_all()).
IInv == TypeOK /\ AdmInv /\ MainInv /\ SignalInv /\ WaitInv

-----------------------------------------------------------------------------
\* The guards of the next steps of Adm and of a monitor with its reactor.
AdmCan == \/ adm \in {"fifo", "openMon", "openRcvy", "closeMon"}
          \/ adm = "getq" /\ "shutMsg" \in flags
          \/ adm = "joinMon" /\ mon["DRBDMon"] = "done"
          \/ adm = "joinRcvy" /\ mon["DRBDRecovery"] = "done"

MonCan(m) == \/ mon[m] \in {"init", "check", "close", "join"}
             \/ mon[m] = "getq" /\ (backlog[m] > 0 \/ m \in closeMsg)

\* passifyApp() never waits in vain: of the threads its join depends on (Adm,
\* then the monitor Adm is joining, then the reactor) one can go on, however
\* far the monitors are behind (passifyApp(), shutDown_all(), close(u_long)).
JoinsAdvance ==
  main = "join" /\ adm # "done" =>
    \/ AdmCan
    \/ adm = "joinMon" /\ MonCan("DRBDMon")
    \/ adm = "joinRcvy" /\ MonCan("DRBDRecovery")

=============================================================================
