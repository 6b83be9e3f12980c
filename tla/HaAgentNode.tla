---------------------------- MODULE HaAgentNode ----------------------------
(***************************************************************************)
(* One process of HaAgent, with all its threads, as the agent of NodeRole: *)
(* what the program counters amount to for the rest of the cluster.        *)
(***************************************************************************)
EXTENDS HaAgentInv

Checking == {"off", "init", "objects", "health", "split"}

\* A standby that is to become active stays one until its successor starts.
Standby == stby # "none" \/ (amf = "startActv" /\ prevHa = "Standby")

\* The place of a process without the active application.
PassivePlace ==
  IF Broken THEN "failed"
  ELSE IF left = "dirty" THEN "stray"
  ELSE IF Standby THEN "standby" ELSE "idle"

\* The place of an active application once StartJobs() is over.
StartedPlace ==
  IF Broken \/ Handling THEN "failed"
  ELSE IF role \in Closing
       THEN CASE stop["RoleMgr"] \in {"apos", "mips"} -> "stopMips"
              [] stop["RoleMgr"] = "data" -> "stopData"
              [] OTHER -> "idle"
  ELSE IF role \in {"monitor", "ready", "getq"} /\ "startJobsDone" \in flags
       THEN "active" ELSE "failed"

ActivePlace ==
  IF left = "dirty"
  THEN IF role \in AfterStart /\ "startJobsDone" \notin flags THEN "failed" ELSE "stray"
  ELSE IF role \in Checking THEN "split"
  ELSE IF role = "apos" THEN "active"
  ELSE IF role \in {"assemble", "mips"} THEN role
  ELSE StartedPlace

Place ==
  IF proc = "up" THEN IF actv = "none" THEN PassivePlace ELSE ActivePlace
  ELSE IF held = {} THEN "down" ELSE "failed"

\* The state the next takeover will find in m_oldhaState.
Comes(s) == IF s \in {"Undefined", "Standby"} THEN s ELSE "Quiesced"

Old ==
  IF Place \notin {"idle", "standby", "split"} THEN "None"
  ELSE IF Place = "split" \/ haState = "Active" THEN Comes(oldHaState)
  ELSE IF Place = "standby" THEN "Standby"
  ELSE IF amf = "startStby" THEN Comes(prevHa) ELSE Comes(haState)

Node == INSTANCE NodeRole WITH
          place <- Place, has <- held \ {"apos"}, lock <- lockFile, old <- Old

\* The process, however its threads interleave, makes only the moves of
\* NodeRole, which are those that HaCluster composes.
NodeSpec == Node!Spec

=============================================================================
