------------------------------ MODULE NodeRole ------------------------------
(***************************************************************************)
(* What one agent promises the pair: the moves of its node between the     *)
(* places that the other node, the disk and the network can tell apart,    *)
(* and what each move does to /data, the MIP addresses and the lock file.  *)
(* A role is taken disk first and given up addresses first; the lock file  *)
(* goes only when the node becomes standby or its check has passed, and is *)
(* made only by a check that was due.                                      *)
(*                                                                         *)
(* A node whose agent has failed gives up what it has or is reset.  If AMF *)
(* instead starts a new agent on what is left (which the recovery policy   *)
(* NODE_FAILFAST excludes) the node is a stray, of which little can be     *)
(* promised.                                                               *)
(***************************************************************************)
VARIABLES
  place,   \* where the agent is
  has,     \* what the node has of {"data", "mips"}
  lock,    \* its lock file
  old      \* the state the agent comes from; "None" once the check is over

vars == <<place, has, lock, old>>

Ladder == {{}, {"data"}, {"data", "mips"}}

\* One rung down: the addresses go before the disk.
Down(h) == IF "mips" \in h THEN {"data"} ELSE {}

Init == place \in {"down", "idle"} /\ has = {} /\ lock = "absent"
        /\ old = (IF place = "idle" THEN "Undefined" ELSE "None")

GoTo(from, to) == place \in from /\ place' = to

Comes(s) == old' = s

RMLFile == lock' \in {"absent", lock}

Boot == GoTo({"down"}, "idle") /\ Comes("Undefined") /\ UNCHANGED <<has, lock>>

OrderStandby ==
  /\ RMLFile /\ UNCHANGED has
  /\ \/ GoTo({"idle"}, "standby") /\ Comes("Standby")
     \/ GoTo({"idle"}, "failed") /\ Comes("None")

OrderActive == GoTo({"idle", "standby"}, "split") /\ UNCHANGED <<has, lock, old>>

StopApp ==
  /\ \/ GoTo({"idle", "standby"}, "idle") /\ old' \in {"Quiesced", "Undefined"}
     \/ GoTo({"active"}, "stopMips") /\ Comes("None")
  /\ UNCHANGED <<has, lock>>

\* splitBrainAlgo()
CheckPassed == GoTo({"split"}, "assemble") /\ Comes("None") /\ RMLFile /\ UNCHANGED has

SplitBrain ==
  /\ old # "Undefined" \/ lock = "present"
  /\ GoTo({"split"}, "failed") /\ Comes("None")
  /\ lock' \in {"present", lock} /\ UNCHANGED has

\* StartJobs(): a job that fails may have had its effect.
Take(from, to, h) ==
  /\ GoTo(from, to) \/ GoTo(from, "failed")
  /\ has' = h /\ UNCHANGED <<lock, old>>

Assemble == Take({"assemble"}, "mips", {"data"})

SetMipAddrs == Take({"mips"}, "active", {"data", "mips"})

\* StopJobs()
UsetMipAddrs == GoTo({"stopMips"}, "stopData") /\ has' = {"data"} /\ UNCHANGED <<lock, old>>

Disable ==
  /\ GoTo({"stopData"}, "idle") /\ has' = {}
  /\ old' \in {"Quiesced", "Undefined"} /\ UNCHANGED lock

\* The agent fails, or a failed one goes on giving up what the node has.
Fail ==
  /\ place # "down" /\ place' = "failed"
  /\ has' \in {has, Down(has)} /\ Comes("None") /\ UNCHANGED lock

\* The node is reset, or a process without any part of the role ends.
Reset == place' = "down" /\ has' = {} /\ Comes("None") /\ UNCHANGED lock

\* A new agent on what a failed one has left.
Restart == GoTo({"failed"}, "stray") /\ has # {} /\ Comes("None") /\ UNCHANGED <<has, lock>>

Stray ==
  /\ place = "stray" /\ place' \in {"stray", "failed", "idle"}
  /\ has' \in Ladder /\ (place' = "idle" => has' = {}) /\ lock' \in {"absent", "present"}
  /\ old' \in {"None", "Undefined", "Quiesced"}

Next ==
  \/ Boot \/ OrderStandby \/ OrderActive \/ StopApp \/ CheckPassed \/ SplitBrain
  \/ Assemble \/ SetMipAddrs \/ UsetMipAddrs \/ Disable
  \/ Fail \/ Reset \/ Restart \/ Stray

Spec == Init /\ [][Next]_vars

-----------------------------------------------------------------------------
\* What the place of a node says it has: nothing before the check has passed,
\* the disk before the addresses, both while it is active.
Holds ==
  /\ place \in {"down", "idle", "standby", "split", "assemble"} => has = {}
  /\ place \in {"mips", "stopData"} => has = {"data"}
  /\ place \in {"active", "stopMips"} => has = {"data", "mips"}
  /\ has \in Ladder

=============================================================================
