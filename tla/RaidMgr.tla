------------------------------ MODULE RaidMgr ------------------------------
(***************************************************************************)
(* The command raidmgr on the two nodes.  The agent of the node that gets  *)
(* the role runs it to assemble and mount the DRBD resource, the one that  *)
(* loses it to unmount and disable it; the device monitor and the operator *)
(* run it to recover the other disk, for which it runs itself on the peer  *)
(* over ssh.  It takes no lock: each test and each drbdadm or mount is a   *)
(* step of its own, and what was tested may have changed when it is used.  *)
(* A command that was started over ssh goes on when the node that asked    *)
(* for it is reset.                                                        *)
(*                                                                         *)
(* Outdated and worse disks are Inconsistent here, StandAlone is Apart.    *)
(* Admitted names what may happen:                                         *)
(*   "failover"  AMF moves the role while a recovery is under way          *)
(***************************************************************************)
EXTENDS FiniteSets

CONSTANTS Node, Admitted

ASSUME NodeAssumption == \E a, b \in Node : a # b /\ Node = {a, b}
ASSUME AdmittedAssumption == Admitted \subseteq {"failover"}

VARIABLES
  up,        \* DRBD: whether the resource is configured on the node
  role,      \* DRBD: the role of the node
  disk,      \* DRBD: the state of its disk
  link,      \* DRBD: the connection; a synchronisation is from the disk that is UpToDate
  mounted,   \* whether the node has the file system mounted
  agent,     \* the raidmgr that the agent of the node runs
  remote,    \* the raidmgr that the peer runs here over ssh
  rec        \* raidmgr --recover on the node

drbdVars == <<up, role, disk, link>>
vars == <<drbdVars, mounted, agent, remote, rec>>

Peer(n) == CHOOSE m \in Node : m # n

\* The steps of do_deactivate().
DeactSteps == {"deact", "umount", "demote", "down"}
AgentSteps == {"off", "peer", "role", "test", "up", "last", "again", "mount", "active",
               "release", "disable", "secondary", "failed"} \cup DeactSteps
RemoteSteps == {"none", "up", "ok", "fail"} \cup DeactSteps
RecSteps == {"off", "role", "ssh", "deact", "sshAct", "act", "cstate", "sync", "pdisk", "invalidate"}

\* The type invariant.
TypeOK ==
  /\ up \in [Node -> BOOLEAN] /\ role \in [Node -> {"Primary", "Secondary"}]
  /\ disk \in [Node -> {"UpToDate", "Inconsistent"}]
  /\ link \in {"Connected", "Sync", "Paused", "Apart"} /\ mounted \in [Node -> BOOLEAN]
  /\ agent \in [Node -> AgentSteps] /\ remote \in [Node -> RemoteSteps] /\ rec \in [Node -> RecSteps]

Init ==
  /\ up = [n \in Node |-> TRUE] /\ role = [n \in Node |-> "Secondary"]
  /\ disk = [n \in Node |-> "UpToDate"] /\ link = "Connected"
  /\ mounted = [n \in Node |-> FALSE]
  /\ agent = [n \in Node |-> "off"] /\ remote = [n \in Node |-> "none"] /\ rec = [n \in Node |-> "off"]

IsPrimary(n)  == up[n] /\ role[n] = "Primary"
IsUpToDate(n) == up[n] /\ disk[n] = "UpToDate"
Joined == link # "Apart"

\* What n sees of the other node.
IsPeerPrimary(n)  == up[n] /\ Joined /\ role[Peer(n)] = "Primary"
IsPeerUpToDate(n) == up[n] /\ Joined /\ disk[Peer(n)] = "UpToDate"

Resting == \A n \in Node : agent[n] \in {"off", "active"}
Quiet   == \A n \in Node : rec[n] = "off" /\ remote[n] = "none"
MayMove == Quiet \/ "failover" \in Admitted

-----------------------------------------------------------------------------
(* drbdadm, mount and umount                                                 *)

DrbdDown(n) ==
  /\ ~mounted[n]
  /\ up' = [up EXCEPT ![n] = FALSE] /\ role' = [role EXCEPT ![n] = "Secondary"] /\ link' = "Apart"
  /\ UNCHANGED disk

DrbdSecondary(n) ==
  /\ ~mounted[n]
  /\ role' = [role EXCEPT ![n] = "Secondary"] /\ UNCHANGED <<up, disk, link>>

\* One of two connected nodes is Primary; without good data there must be force.
DrbdPrimary(n, force) ==
  /\ up[n] /\ ~IsPeerPrimary(n)
  /\ IsUpToDate(n) \/ IsPeerUpToDate(n) \/ force
  /\ role' = [role EXCEPT ![n] = "Primary"]
  /\ disk' = IF IsPeerUpToDate(n) THEN disk ELSE [disk EXCEPT ![n] = "UpToDate"]
  /\ UNCHANGED <<up, link>>

\* The local disk is given up for that of the peer.
DrbdInvalidate(n) ==
  /\ link = "Connected" /\ IsPeerUpToDate(n)
  /\ disk' = [disk EXCEPT ![n] = "Inconsistent"] /\ link' = "Sync"
  /\ UNCHANGED <<up, role>>

-----------------------------------------------------------------------------
(* do_deactivate() and do_activate()                                         *)

\* By a process that is at pc and goes on to next: done in the end, fail when it aborts.
Deactivate(n, pc, next, done, fail) ==
  \/ /\ pc = "deact"
     /\ next = IF ~up[n] THEN done ELSE IF IsPrimary(n) THEN "umount" ELSE "down"
     /\ UNCHANGED <<drbdVars, mounted>>
  \/ /\ pc = "umount"
     /\ \/ next = "demote" /\ mounted' = [mounted EXCEPT ![n] = FALSE]
        \/ mounted[n] /\ next = fail /\ UNCHANGED mounted
     /\ UNCHANGED drbdVars
  \/ /\ pc = "demote"
     /\ \/ DrbdSecondary(n) /\ next = "down"
        \/ next = fail /\ UNCHANGED drbdVars
     /\ UNCHANGED mounted
  \/ /\ pc = "down"
     /\ \/ DrbdDown(n) /\ next = done
        \/ next = fail /\ UNCHANGED drbdVars
     /\ UNCHANGED mounted

\* A synchronisation that is paused is resumed.
Activate(n, pc, next, done, fail) ==
  /\ pc = "up"
  /\ \/ /\ next = done
        /\ up' = [up EXCEPT ![n] = TRUE] /\ link' = (IF link = "Paused" THEN "Sync" ELSE link)
        /\ UNCHANGED <<role, disk>>
     \/ (~up[n] \/ link = "Paused") /\ next = fail /\ UNCHANGED drbdVars
  /\ UNCHANGED mounted

AgentGoto(n, pc)  == agent' = [agent EXCEPT ![n] = pc] /\ UNCHANGED <<remote, rec>>
RemoteGoto(n, pc) == remote' = [remote EXCEPT ![n] = pc] /\ UNCHANGED <<agent, rec>>
RecGoto(n, pc)    == rec' = [rec EXCEPT ![n] = pc] /\ UNCHANGED <<agent, remote, mounted>>

-----------------------------------------------------------------------------
(* The agent: raidmgr --assemble --mount, raidmgr --disable --unmount        *)

\* AMF gives the role to one node at a time.  do_assemble() begins.
Assemble(n) ==
  /\ agent[n] = "off" /\ agent[Peer(n)] = "off" /\ MayMove
  /\ AgentGoto(n, IF ~up[n] THEN "failed"
                  ELSE IF IsPrimary(n) /\ IsUpToDate(n) THEN "mount" ELSE "peer")
  /\ UNCHANGED <<drbdVars, mounted>>

AssemblePeer(n) ==
  /\ agent[n] = "peer"
  /\ AgentGoto(n, IF IsPeerPrimary(n) THEN "failed" ELSE "role")
  /\ UNCHANGED <<drbdVars, mounted>>

\* do_role(), the first time and the last.
AssembleRole(n) ==
  /\ agent[n] \in {"role", "again"}
  /\ \/ \E force \in BOOLEAN : DrbdPrimary(n, force) /\ AgentGoto(n, IF agent[n] = "role" THEN "test" ELSE "last")
     \/ AgentGoto(n, "failed") /\ UNCHANGED drbdVars
  /\ UNCHANGED mounted

\* If that did not do, the resource is taken down and up again.
AssembleTest(n) ==
  /\ agent[n] = "test"
  /\ AgentGoto(n, IF IsPrimary(n) /\ IsUpToDate(n) THEN "last" ELSE "deact")
  /\ UNCHANGED <<drbdVars, mounted>>

AssembleRestart(n) ==
  \E next \in AgentSteps :
    /\ \/ Deactivate(n, agent[n], next, "up", "failed")
       \/ Activate(n, agent[n], next, "again", "failed")
    /\ AgentGoto(n, next)

AssembleLast(n) ==
  /\ agent[n] = "last"
  /\ AgentGoto(n, IF ~IsPrimary(n) /\ ~IsUpToDate(n) THEN "failed" ELSE "mount")
  /\ UNCHANGED <<drbdVars, mounted>>

\* do_mount(); the rest of the start jobs follows and the agent is active.
Mount(n) ==
  /\ agent[n] = "mount"
  /\ \/ (mounted[n] \/ IsPrimary(n)) /\ AgentGoto(n, "active") /\ mounted' = [mounted EXCEPT ![n] = TRUE]
     \/ ~mounted[n] /\ AgentGoto(n, "failed") /\ UNCHANGED mounted
  /\ UNCHANGED drbdVars

\* The stop jobs: do_unmount() and then do_disable().
Unmount(n) ==
  /\ agent[n] = "active" /\ MayMove
  /\ AgentGoto(n, "release")
  /\ UNCHANGED <<drbdVars, mounted>>

UnmountDone(n) ==
  /\ agent[n] = "release"
  /\ \/ AgentGoto(n, "disable") /\ mounted' = [mounted EXCEPT ![n] = FALSE]
     \/ mounted[n] /\ AgentGoto(n, "failed") /\ UNCHANGED mounted
  /\ UNCHANGED drbdVars

Disable(n) ==
  /\ agent[n] = "disable"
  /\ AgentGoto(n, IF ~up[n] THEN "failed" ELSE IF IsPrimary(n) THEN "secondary" ELSE "off")
  /\ UNCHANGED <<drbdVars, mounted>>

DisableSecondary(n) ==
  /\ agent[n] = "secondary"
  /\ \/ DrbdSecondary(n) /\ AgentGoto(n, "off")
     \/ AgentGoto(n, "failed") /\ UNCHANGED drbdVars
  /\ UNCHANGED mounted

AgentStep(n) ==
  \/ AssemblePeer(n) \/ AssembleRole(n) \/ AssembleTest(n) \/ AssembleRestart(n) \/ AssembleLast(n)
  \/ Mount(n) \/ UnmountDone(n) \/ Disable(n) \/ DisableSecondary(n)

-----------------------------------------------------------------------------
(* raidmgr --recover                                                         *)

\* The device monitor or the operator starts it; do_recover() reads both disks
\* and goes on only if the local one is good and the other one is not.
Recover(n) ==
  /\ rec[n] = "off" /\ up[n] /\ (Resting \/ "failover" \in Admitted)
  /\ IsUpToDate(n) /\ ~IsPeerUpToDate(n)
  /\ RecGoto(n, "role") /\ UNCHANGED drbdVars

RecoverRole_Unchecked(n) ==
  /\ rec[n] = "role"
  /\ RecGoto(n, "ssh") /\ UNCHANGED drbdVars
RecoverRole(n) ==
  /\ rec[n] = "role"
  /\ RecGoto(n, IF IsPrimary(n) THEN "ssh" ELSE "off") /\ UNCHANGED drbdVars

\* ssh to the peer, which may fail: raidmgr --deactivate --force, and then
\* raidmgr --activate --force.
RecoverSsh(n) ==
  /\ \/ \E next \in {<<"ssh", "deact", "deact">>, <<"sshAct", "act", "up">>} :
          /\ rec[n] = next[1] /\ remote[Peer(n)] = "none"
          /\ rec' = [rec EXCEPT ![n] = next[2]] /\ remote' = [remote EXCEPT ![Peer(n)] = next[3]]
     \/ rec[n] \in {"ssh", "sshAct"} /\ rec' = [rec EXCEPT ![n] = "off"] /\ UNCHANGED remote
  /\ UNCHANGED <<drbdVars, mounted, agent>>

RemoteStep(n) ==
  \E next \in RemoteSteps :
    /\ \/ Deactivate(n, remote[n], next, "ok", "fail")
       \/ Activate(n, remote[n], next, "ok", "fail")
    /\ RemoteGoto(n, next)

\* The command on the peer has ended.
RecoverReply_OnlyOk(n) ==
  /\ rec[n] \in {"deact", "act"} /\ remote[Peer(n)] = "ok"
  /\ remote' = [remote EXCEPT ![Peer(n)] = "none"]
  /\ rec' = [rec EXCEPT ![n] = IF rec[n] = "deact" THEN "sshAct" ELSE "cstate"]
  /\ UNCHANGED <<drbdVars, mounted, agent>>
RecoverReply(n) ==
  /\ rec[n] \in {"deact", "act"} /\ remote[Peer(n)] \in {"ok", "fail"}
  /\ remote' = [remote EXCEPT ![Peer(n)] = "none"]
  /\ rec' = [rec EXCEPT ![n] = IF remote[Peer(n)] = "fail" THEN "off"
                               ELSE IF rec[n] = "deact" THEN "sshAct" ELSE "cstate"]
  /\ UNCHANGED <<drbdVars, mounted, agent>>

\* Nobody is there to hear that it has ended.
RemoteOrphan(n) ==
  /\ remote[n] \in {"ok", "fail"} /\ rec[Peer(n)] \notin {"deact", "act"}
  /\ RemoteGoto(n, "none") /\ UNCHANGED <<drbdVars, mounted>>

\* The connection is read once; if it is Connected, the disk of the peer is
\* looked at, and the local one invalidated.
RecoverCState(n) ==
  /\ rec[n] = "cstate"
  /\ RecGoto(n, CASE link = "Paused"    -> "sync"
                  [] link = "Connected" -> "pdisk"
                  [] OTHER              -> "off")
  /\ UNCHANGED drbdVars

RecoverSync(n) ==
  /\ rec[n] = "sync" /\ RecGoto(n, "off")
  /\ \/ link = "Paused" /\ link' = "Sync" /\ UNCHANGED <<up, role, disk>>
     \/ UNCHANGED drbdVars

RecoverPDisk(n) ==
  /\ rec[n] = "pdisk"
  /\ RecGoto(n, IF IsPeerUpToDate(n) THEN "off" ELSE "invalidate")
  /\ UNCHANGED drbdVars

RecoverInvalidate(n) ==
  /\ rec[n] = "invalidate" /\ RecGoto(n, "off")
  /\ DrbdInvalidate(n) \/ UNCHANGED drbdVars

RecStep(n) ==
  \/ RecoverRole(n) \/ RecoverSsh(n) \/ RecoverReply(n) \/ RecoverCState(n) \/ RecoverSync(n)
  \/ RecoverPDisk(n) \/ RecoverInvalidate(n)

-----------------------------------------------------------------------------
(* The node and DRBD                                                         *)

\* The agent asks for a reset when raidmgr fails; a node may also crash.
Reset(n) ==
  /\ up' = [up EXCEPT ![n] = FALSE] /\ role' = [role EXCEPT ![n] = "Secondary"] /\ link' = "Apart"
  /\ mounted' = [mounted EXCEPT ![n] = FALSE]
  /\ agent' = [agent EXCEPT ![n] = "off"] /\ remote' = [remote EXCEPT ![n] = "none"]
  /\ rec' = [rec EXCEPT ![n] = "off", ![Peer(n)] = IF @ \in {"deact", "act"} THEN "off" ELSE @]
  /\ UNCHANGED disk

\* The resource is activated when the node boots, and on the standby.
Boot(n) ==
  /\ ~up[n] /\ agent[n] = "off" /\ remote[n] = "none"
  /\ up' = [up EXCEPT ![n] = TRUE]
  /\ UNCHANGED <<role, disk, link, mounted, agent, remote, rec>>

\* The connection comes and goes, a Secondary that missed something is no
\* longer UpToDate, and a synchronisation is made, paused and resumed.
Drbd ==
  /\ \/ /\ link = "Apart" /\ \A n \in Node : up[n]
        /\ ~\A n \in Node : role[n] = "Primary"
        /\ \E n \in Node : disk[n] = "UpToDate"
        /\ link' = IF \A n \in Node : disk[n] = "UpToDate" THEN "Connected" ELSE "Sync"
        /\ UNCHANGED disk
     \/ Joined /\ link' = "Apart" /\ UNCHANGED disk
     \/ \E n \in Node : /\ role[n] = "Secondary" /\ role[Peer(n)] = "Primary" /\ disk[Peer(n)] = "UpToDate"
                        /\ disk' = [disk EXCEPT ![n] = "Inconsistent"] /\ link' = link
     \/ link = "Sync" /\ link' = "Connected" /\ disk' = [n \in Node |-> "UpToDate"]
     \/ link = "Sync" /\ link' = "Paused" /\ UNCHANGED disk
     \/ link = "Paused" /\ link' = "Sync" /\ UNCHANGED disk
  /\ UNCHANGED <<up, role, mounted, agent, remote, rec>>

-----------------------------------------------------------------------------
Next ==
  \/ Drbd
  \/ \E n \in Node : Assemble(n) \/ Unmount(n) \/ AgentStep(n) \/ Recover(n) \/ RecStep(n)
                     \/ RemoteStep(n) \/ RemoteOrphan(n) \/ Reset(n) \/ Boot(n)

Spec == Init /\ [][Next]_vars

\* A shell goes on with its script, and ssh ends when the command does.
FairSpec ==
  Spec /\ \A n \in Node : WF_vars(RecStep(n)) /\ WF_vars(RemoteStep(n))

-----------------------------------------------------------------------------
\* The active node keeps its data: a node whose agent is active is Primary and
\* has the file system mounted, although any node may start a recovery that
\* takes the resource of the other one down by force, and such a command
\* outlives the node that asked for it (do_recover(), do_deactivate()).
\* raidmgr_drbd: "recovery shall be always on peer disk and of-course, the
\* current node role shall be primary".
ActiveHasData == \A n \in Node : agent[n] = "active" => IsPrimary(n) /\ mounted[n]

\* The peer is taken down and brought up again only while a good copy is in use
\* on the node that recovers it: "disk state shall be UpToDate to perform the
\* recovery on the other node" (do_recover()).
RecoveryByPrimary ==
  \A n \in Node : rec[n] \in {"ssh", "deact", "sshAct", "act"} => IsPrimary(n) /\ IsUpToDate(n)

\* A recovery comes to an end, whatever fails on the peer (do_recover()).
RecoveryEnds == \A n \in Node : (rec[n] # "off") ~> (rec[n] = "off")

=============================================================================
