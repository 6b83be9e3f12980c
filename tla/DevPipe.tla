------------------------------ MODULE DevPipe ------------------------------
(***************************************************************************)
(* How the loss of the DRBD role reaches the HA agent of the node.  The    *)
(* device monitor daemon polls DRBD with one command after another (its    *)
(* thread HA_DEVMON_DRBDMon) and writes a message into a named pipe when   *)
(* the verdict changes; the reactor thread of the agent reads the pipe and *)
(* examines DRBD itself before it fails over.  Nothing orders the starts   *)
(* and the ends of the two processes, and the pipe keeps its contents as   *)
(* long as one of them has it open.  The reactor of the agent is the one   *)
(* of the process: its event loop runs once, until RoleMgr ends it, and    *)
(* what the agent registers with it in a later activation is not served.   *)
(*                                                                         *)
(* A message has MsgSize bytes and carries no mark, a read() takes up to   *)
(* ReadSize bytes and only its first bytes are looked at.                  *)
(***************************************************************************)
EXTENDS Naturals, Sequences

CONSTANTS PipeSize,   \* how many messages the kernel keeps for the pipe
          MsgSize,    \* type, size and DRBD_InfoT: 313 bytes
          ReadSize,   \* the buffer of readMsg(): 1024 bytes
          MaxRetry,   \* max_retry of drbdHealth(): 300
          Disks       \* the disk states that occur

ASSUME PipeSizeAssumption == PipeSize \in Nat \ {0}
ASSUME MsgSizeAssumption == MsgSize \in Nat \ {0} /\ ReadSize \in Nat /\ MsgSize <= ReadSize
ASSUME MaxRetryAssumption == MaxRetry \in Nat

\* Of the two disks: both UpToDate; the local one Consistent; the local one
\* worse than that; only that of the peer not UpToDate.
ASSUME DisksAssumption == Disks \subseteq {"UpToDate", "Consistent", "Bad", "PeerBad"}
                          /\ "UpToDate" \in Disks

VARIABLES
  drbd,      \* DRBD on this node: connection, role and disk state
  pc,        \* DRBDMon::svc(): the step of a tick it is at, "off" when not running
  got,       \* what m_cstate, m_role, m_ldisk and m_rdisk, read so far, amount to
  type,      \* m_msgInfo.type
  sendMsg,   \* m_sendMsg: a fault has been reported
  told,      \* history: what this daemon last got into the pipe
  pipe,      \* the messages in the pipe
  headLeft,  \* how many bytes of the first of them are left
  agent,     \* RoleMgr of the agent, as the pipe sees it
  check,     \* the reactor thread of the agent, in drbdHealth()
  loopEnded, \* the event loop of ACE_Reactor::instance() has been ended in this process
  steady     \* history: DRBD has been in order ever since the agent is active

monVars   == <<pc, got, type, sendMsg, told>>
pipeVars  == <<pipe, headLeft>>
agentVars == <<agent, check, loopEnded>>
vars == <<drbd, monVars, pipeVars, agentVars, steady>>

Conns == {"Connected", "Other", "Down"}           \* "Down": not configured
Roles == {"Primary", "Secondary"}
Faults == {"DISK_FAULTY", "ROLE_CHANGE", "CONN_ERROR"}
Msgs   == Faults \cup {"DISK_HEALTHY"}

Idle  == [pc |-> "none", upToDate |-> FALSE, bad |-> FALSE, retry |-> 0]

\* The type invariant.
TypeOK ==
  /\ drbd \in [conn : Conns, role : Roles, disk : Disks]
  /\ got \in Msgs \cup {"failed"}
  /\ pc \in {"off", "idle", "role", "disk", "judge"}
  /\ type \in Msgs /\ sendMsg \in BOOLEAN /\ told \in {"nothing", "fault", "healthy"}
  /\ pipe \in Seq(Msgs) /\ Len(pipe) <= PipeSize /\ headLeft \in 1..MsgSize
  /\ agent \in {"off", "opening", "taking", "active", "releasing", "failover"}
  /\ check \in [pc : {"none", "disk", "role", "loop"}, upToDate : BOOLEAN,
                bad : BOOLEAN, retry : 0..MaxRetry]
  /\ loopEnded \in BOOLEAN /\ steady \in BOOLEAN

Init ==
  /\ drbd = [conn |-> "Other", role |-> "Secondary", disk |-> "UpToDate"]
  /\ pc = "off" /\ got = "DISK_HEALTHY" /\ type = "DISK_HEALTHY" /\ sendMsg = FALSE /\ told = "nothing"
  /\ pipe = <<>> /\ headLeft = MsgSize
  /\ agent = "off" /\ check = Idle /\ loopEnded = FALSE /\ steady = FALSE

LocalUpToDate == drbd.conn # "Down" /\ drbd.disk \in {"UpToDate", "PeerBad"}
IsPrimary     == drbd.conn # "Down" /\ drbd.role = "Primary"
InOrder       == IsPrimary /\ LocalUpToDate

-----------------------------------------------------------------------------
(* The pipe                                                                  *)

\* What becomes of the contents when the last process closes the pipe.
PipeClosed(other) ==
  IF other = "off" THEN pipe' = <<>> /\ headLeft' = MsgSize ELSE UNCHANGED pipeVars

\* How many bytes the first n messages are.
Bytes(n) == IF n = 0 THEN 0 ELSE headLeft + (n - 1) * MsgSize

\* The number of messages that one read() takes whole.
WholeRead == IF Bytes(Len(pipe)) <= ReadSize THEN Len(pipe)
                                             ELSE 1 + (ReadSize - headLeft) \div MsgSize

\* What readMsg() makes of the contents: the first bytes are taken for the type
\* of a message, which they are not when the head is not whole.
ReadType == IF headLeft = MsgSize THEN Head(pipe) ELSE "Invalid"

\* read(): all that was read is gone, and the next read() begins wherever this one ends.
Read ==
  LET n == WholeRead IN
    /\ pipe' = SubSeq(pipe, n + 1, Len(pipe))
    /\ headLeft' = IF n = Len(pipe) THEN MsgSize
                                    ELSE Bytes(n + 1) - ReadSize

-----------------------------------------------------------------------------
(* HA_DEVMON_DRBDMon and HA_DEVMON_DRBDMgr                                   *)

\* Adm::svc() opens the pipe and then starts the monitor.
MonStart ==
  /\ pc = "off" /\ agent # "failover"
  /\ pc' = "idle" /\ got' = "DISK_HEALTHY" /\ type' = "DISK_HEALTHY" /\ sendMsg' = FALSE /\ told' = "nothing"
  /\ UNCHANGED <<drbd, pipeVars, agentVars, steady>>

\* shutDown_all() joins the monitor and then closes the pipe; the process may
\* also be killed anywhere in a tick.
MonStop ==
  /\ pc # "off"
  /\ pc' = "off" /\ got' = "DISK_HEALTHY" /\ type' = "DISK_HEALTHY" /\ sendMsg' = FALSE /\ told' = "nothing"
  /\ PipeClosed(agent)
  /\ UNCHANGED <<drbd, agentVars, steady>>

\* parse_proc_drbd(): one command for each of the states, which may change
\* between them; isactive(): the connection prevails over the role and the role
\* over the disks.  A command that cannot be run, like a connection state that
\* is not there, spoils the whole reading.
ConnVerdict(d) ==
  CASE d.conn = "Down" -> "failed"
    [] d.conn = "Other" -> "CONN_ERROR"
    [] d.conn = "Connected" -> "DISK_HEALTHY"

RoleVerdict_None(d) == "DISK_HEALTHY"
RoleVerdict(d) == IF d.conn # "Down" /\ d.role = "Primary" THEN "DISK_HEALTHY" ELSE "ROLE_CHANGE"

DiskVerdict(d) ==
  IF d.conn # "Down" /\ d.disk \in {"UpToDate", "Consistent"} THEN "DISK_HEALTHY" ELSE "DISK_FAULTY"

ReadState(from, to, verdict) ==
  /\ pc = from /\ pc' = to
  /\ got' = IF got = "DISK_HEALTHY" THEN verdict ELSE got
  /\ UNCHANGED <<drbd, type, sendMsg, told, pipeVars, agentVars, steady>>

GetConnectedState == ReadState("idle", "role", ConnVerdict(drbd))
GetDrbdRole       == ReadState("role", "disk", RoleVerdict(drbd))
GetDiskState      == ReadState("disk", "judge", DiskVerdict(drbd))

CommandFails ==
  /\ pc \in {"idle", "role", "disk"} /\ pc' = "judge"
  /\ got' = "failed"
  /\ UNCHANGED <<drbd, type, sendMsg, told, pipeVars, agentVars, steady>>

\* healthCheck(), by the verdict, what was reported before and whether
\* there is room in the pipe (write_buffer() does not wait).  A reading that
\* failed counts as healthy and leaves the type as it was.  A report that
\* fails makes rCode negative, and so falls through to the second branch: it
\* is tried once more and the fault counts as not reported.
HealthCheck_Else(room) ==
  LET first  == got \in Faults /\ ~sendMsg
      second == got \notin Faults /\ sendMsg
  IN /\ sendMsg' = (first \/ (sendMsg /\ ~second))
     /\ IF (first \/ second) /\ room
          THEN pipe' = Append(pipe, type') /\ told' = IF type' \in Faults THEN "fault" ELSE "healthy"
          ELSE UNCHANGED <<pipe, told>>
HealthCheck(room) ==
  LET first  == got \in Faults /\ ~sendMsg
      second == (got \notin Faults /\ sendMsg) \/ (first /\ ~room)
  IN /\ sendMsg' = ((first \/ sendMsg) /\ ~second)
     /\ IF (first \/ second) /\ room
          THEN pipe' = Append(pipe, type') /\ told' = IF type' \in Faults THEN "fault" ELSE "healthy"
          ELSE UNCHANGED <<pipe, told>>

\* The rest of the tick.
Judge ==
  /\ pc = "judge" /\ pc' = "idle"
  /\ type' = IF got = "failed" THEN type ELSE got
  /\ HealthCheck(Len(pipe) < PipeSize)
  /\ got' = "DISK_HEALTHY"
  /\ UNCHANGED <<drbd, headLeft, agentVars, steady>>

-----------------------------------------------------------------------------
(* HA_AGENT_RoleMgr: the life of the reader                                  *)

\* initRoleMgr(): the pipe is opened, a thread started that runs the event loop
\* of the reactor, and the handler registered, all before m_drbdObj is made.
\* run_reactor_event_loop() returns at once if the loop has been ended before:
\* loopEnded stays, and nobody calls the handler.
InitRoleMgr ==
  /\ agent = "off"
  /\ agent' = "opening"
  /\ UNCHANGED <<drbd, monVars, pipeVars, check, loopEnded, steady>>

NewDRBDMgr ==
  /\ agent = "opening"
  /\ agent' = "taking"
  /\ UNCHANGED <<drbd, monVars, pipeVars, check, loopEnded, steady>>

\* The start jobs have assembled DRBD: this node is Primary and the agent active.
StartJobsDone ==
  /\ agent = "taking" /\ drbd.conn # "Down"
  /\ agent' = "active" /\ drbd' = [drbd EXCEPT !.role = "Primary"]
  /\ steady' = (InOrder' /\ check.pc = "none")
  /\ UNCHANGED <<monVars, pipeVars, check, loopEnded>>

\* close(): the handler is removed, which waits for the handler that runs.
Close ==
  /\ agent \in {"taking", "active"} /\ check.pc = "none"
  /\ agent' = "releasing" /\ steady' = FALSE
  /\ UNCHANGED <<drbd, monVars, pipeVars, check, loopEnded>>

\* The stop jobs have made this node Secondary; close(u_long) ends the event
\* loop of the reactor, for good, and closes the pipe.
PClose ==
  /\ agent = "releasing"
  /\ agent' = "off" /\ drbd' = [drbd EXCEPT !.role = "Secondary"]
  /\ loopEnded' = TRUE /\ PipeClosed(pc)
  /\ UNCHANGED <<monVars, check, steady>>

\* The process of the agent ends, and AMF starts another with a reactor of its own.
ProcessEnds ==
  /\ agent' = "off" /\ check' = Idle /\ loopEnded' = FALSE /\ steady' = FALSE
  /\ PipeClosed(pc)
  /\ UNCHANGED <<drbd, monVars>>

\* It is killed, or ends by itself, anywhere.
AgentEnds == agent # "failover" /\ ProcessEnds

-----------------------------------------------------------------------------
(* HA_AGENT_RoleMgr: handle_input()                                          *)

Listening ==
  agent \in {"opening", "taking", "active"} /\ ~loopEnded /\ check.pc = "none" /\ pipe # <<>>

\* dispatch() and processMsg(): only a change of the role is acted upon.
Dispatch_TrustsMsg ==
  /\ Listening
  /\ IF ReadType = "ROLE_CHANGE" THEN agent' = "failover" ELSE agent' = agent
  /\ Read
  /\ UNCHANGED <<drbd, monVars, check, loopEnded, steady>>
Dispatch ==
  /\ Listening
  /\ ReadType = "ROLE_CHANGE" => agent # "opening"
  /\ check' = [check EXCEPT !.pc = IF ReadType = "ROLE_CHANGE" THEN "disk" ELSE "none"]
  /\ Read
  /\ UNCHANGED <<drbd, monVars, agent, loopEnded, steady>>

\* The same before m_drbdObj is there: the process ends.
DispatchTooEarly ==
  /\ Listening /\ ReadType = "ROLE_CHANGE" /\ agent = "opening"
  /\ ProcessEnds

\* drbdHealth(false): the disk and the role are read, once (a command that
\* cannot be run tells nothing of the disk, and is an error for the role) ...
DiskRead(r) ==
  \/ check' = [r EXCEPT !.upToDate = LocalUpToDate] /\ UNCHANGED steady
  \/ check' = [r EXCEPT !.upToDate = FALSE] /\ steady' = FALSE

HealthDisk ==
  /\ check.pc = "disk" /\ DiskRead([check EXCEPT !.pc = "role"])
  /\ UNCHANGED <<drbd, monVars, pipeVars, agent, loopEnded>>

HealthRole ==
  /\ check.pc = "role"
  /\ \/ check' = [check EXCEPT !.pc = "loop", !.bad = ~IsPrimary] /\ UNCHANGED steady
     \/ check' = [check EXCEPT !.pc = "loop", !.bad = TRUE] /\ steady' = FALSE
  /\ UNCHANGED <<drbd, monVars, pipeVars, agent, loopEnded>>

\* ... and the disk again, every second, until it is UpToDate.
HealthRetry ==
  /\ check.pc = "loop" /\ ~check.upToDate /\ check.retry < MaxRetry
  /\ DiskRead([check EXCEPT !.retry = @ + 1])
  /\ UNCHANGED <<drbd, monVars, pipeVars, agent, loopEnded>>

\* processMsg() calls nodefailOver() when drbdHealth() fails.
HealthDone ==
  /\ check.pc = "loop" /\ (check.upToDate \/ check.retry = MaxRetry)
  /\ agent' = IF check.bad \/ ~check.upToDate THEN "failover" ELSE agent
  /\ check' = Idle
  /\ UNCHANGED <<drbd, monVars, pipeVars, loopEnded, steady>>

DrbdHealth == HealthDisk \/ HealthRole \/ HealthRetry \/ HealthDone

\* The node is reset.
Reset ==
  /\ agent = "failover"
  /\ drbd' = [drbd EXCEPT !.conn = "Other", !.role = "Secondary"]
  /\ pc' = "off" /\ got' = "DISK_HEALTHY" /\ type' = "DISK_HEALTHY" /\ sendMsg' = FALSE /\ told' = "nothing"
  /\ pipe' = <<>> /\ headLeft' = MsgSize
  /\ agent' = "off" /\ check' = Idle /\ loopEnded' = FALSE /\ steady' = FALSE

-----------------------------------------------------------------------------
(* DRBD                                                                      *)

\* DRBD changes by itself, by the peer and by the operator; the role is only
\* ever taken by the agent.
Drbd ==
  /\ agent # "failover"
  /\ \/ \E c \in Conns \ {drbd.conn} :
          drbd' = [drbd EXCEPT !.conn = c, !.role = IF c = "Down" THEN "Secondary" ELSE @]
     \/ \E d \in Disks \ {drbd.disk} : drbd' = [drbd EXCEPT !.disk = d]
     \/ drbd.role = "Primary" /\ drbd' = [drbd EXCEPT !.role = "Secondary"]
  /\ steady' = (steady /\ InOrder')
  /\ UNCHANGED <<monVars, pipeVars, agentVars>>

-----------------------------------------------------------------------------
ReadDrbd == GetConnectedState \/ GetDrbdRole \/ GetDiskState
Handle == Dispatch \/ DispatchTooEarly \/ DrbdHealth

Next ==
  \/ MonStart \/ MonStop \/ ReadDrbd \/ CommandFails \/ Judge
  \/ InitRoleMgr \/ NewDRBDMgr \/ StartJobsDone \/ Close \/ PClose \/ AgentEnds
  \/ Handle \/ Reset \/ Drbd

Spec == Init /\ [][Next]_vars

\* The timer restarts at every tick and the threads are scheduled; a command
\* that is run for ever succeeds at some time.  A thread that has ended is owed
\* nothing: with loopEnded no step of Handle is enabled.
FairSpec ==
  /\ Spec
  /\ WF_vars(ReadDrbd \/ Judge)
  /\ SF_vars(GetConnectedState) /\ SF_vars(GetDrbdRole) /\ SF_vars(GetDiskState)
  /\ WF_vars(Handle)

-----------------------------------------------------------------------------
\* The daemon is only silent about a fault that it has told: whenever a tick
\* ends with m_sendMsg set, the last message that got into the pipe was a fault
\* - whether a write failed, a reading failed or the verdict changed in between
\* (drbdmon.cpp, healthCheck(): what makes it so is that the branch of a failed
\* report falls through to the one that takes it back).
SilentOnlyIfTold == sendMsg => told = "fault"

\* No false alarm: however late, old or torn the message, the agent does not
\* reset a node whose DRBD has been Primary and UpToDate ever since the agent
\* took the role, with every command run (rolemngr.cpp, processMsg(): "check if
\* there is real role change or just the devmon is lying").
NoFalseAlarm == agent = "failover" => ~steady

Healthy == drbd.conn = "Connected" /\ drbd.role = "Primary" /\ drbd.disk \in {"UpToDate", "Consistent"}

\* A fault that stays as it is gets reported, even if the pipe was full and
\* readings failed (drbdmon.cpp, healthCheck()), to an agent whose event loop
\* still runs: after that nobody makes room in a full pipe.
FaultTold ==
  /\ <>[](pc # "off" /\ agent = "active" /\ ~loopEnded /\ drbd.conn # "Down" /\ ~Healthy)
  /\ <>[][FALSE]_drbd
  => <>[](told = "fault")

\* In the first activation of a process a lost role leads to a failover, when
\* it is the first thing that happens after a time without fault
\* (healthCheck(), dispatch(), drbdHealth()), unless the role comes back or
\* someone goes away.
RoleLossActedOn ==
  (/\ agent = "active" /\ ~loopEnded /\ check.pc = "none" /\ pipe = <<>> /\ pc = "idle" /\ ~sendMsg
   /\ drbd.conn = "Connected" /\ drbd.role = "Secondary")
  ~> \/ agent # "active" \/ pc = "off"
     \/ drbd.conn # "Connected" \/ drbd.role = "Primary"

\* apos_ha_reactorrunner.cpp: "When a reactor is stopped it need to be reset in
\* order to be able to be started again. This is handled by this class.": the
\* reactor of an active agent reads what comes into the pipe.
PipeServed ==
  (agent = "active" /\ pipe # <<>>) ~> (agent # "active" \/ pipe = <<>>)

\* rolemngr.cpp: "register pipe handler to receive events from DevMon": a change
\* of role that is in the pipe of an active agent, whose event loop runs, is
\* examined.
RoleChangeReceived ==
  (agent = "active" /\ ~loopEnded /\ \E i \in 1..Len(pipe) : pipe[i] = "ROLE_CHANGE")
  ~> (agent # "active" \/ check.pc # "none")

=============================================================================
