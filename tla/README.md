# Verification of the APOS high-availability core

APOS is the operating-system layer of an APG: two nodes (SC-1 and SC-2) that
share a replicated disk (DRBD), a set of movable IP addresses (MIPs) and a
cluster middleware whose Availability Management Framework (AMF) decides which
node is active.  Most of the repository is installation scripts, node
configuration, command wrappers and third-party code (iPXE, packaging of
boost).  The parts that carry protocol logic of their own are

* the *HA agent*, `apos_ha_rdeagentd`, in `src/ha_cnz/haadm_agent_caa/drbd`: the
  process that carries out AMF's orders on a node, takes and releases the active
  role, watches DRBD, and defends the pair against a split brain;
* the *device monitor*, `apos_ha_devmond`, in `src/ha_cnz/haadm_devmon_caa/drbd`:
  the process that polls DRBD on the active node, tells the agent through a
  named pipe what it finds, and starts the recovery of a bad disk;
* *raidmgr*, `src/cmd_cnz/drbdr/raidmgr_drbd`: the command through which both of
  them, and the operator, change the state of DRBD on this and on the other node.

This directory holds TLA+ models of them, TLC configurations that check these,
and TLAPS proofs.

Source names below are short: `rolemngr.cpp` is
`src/ha_cnz/haadm_agent_caa/drbd/src/apos_ha_agent_rolemngr.cpp`, and
`devmon drbdmon.cpp` is
`src/ha_cnz/haadm_devmon_caa/drbd/src/apos_ha_devmon_drbdmon.cpp`, and so on.

## 1. Inventory

### 1.1 The agent process

| Part | State | Operations | Interacts with |
| --- | --- | --- | --- |
| AMF class (`amfclass.cpp`) | `HAState`, the health-check flag, two self-pipes | the callbacks of AMF (CSI set, CSI remove, terminate, health check), `activate()` (the poll loop), the SIGUSR2 handler | calls the agent class and answers AMF with `saAmfResponse` |
| Agent class (`hamanager.cpp`) | `m_actvAdmObj`, `m_stbyAdmObj`, `m_admLock` | `activateApp`, `passifyApp`, `stopApp`, `stopActv`, `stopStndby` | creates, joins and deletes the two applications |
| Global (`global.cpp`) | `m_oldhaState`, `m_tasksDone`, `m_compRestart`, `m_shutdownOrdered`, pointers to the RoleMgr and the monitor | `waitOntask`, `compRestart`, `nodefailOver`, `reboot`, `deactivate` | shared, without a lock, by every thread |
| ACTVAdm (`actvAdm.cpp`) | a thread, a queue | `start`, `svc`, `stop`, `close(u_long)` | owns the RoleMgr |
| STNBYAdm (`stbyAdm.cpp`) | a thread, a queue, `ShutdownDone` | `start`, `svc`, `stop`, `close(u_long)` | owns a DRBD monitor, writes the persistent record |
| RoleMgr (`rolemngr.cpp`, `drbdmgr.cpp`) | a thread, a queue, `m_startJobsDone`, `m_drbdObj`, `m_regHndlr` | `initRoleMgr`, `healthCheck`, `splitBrainAlgo`, `StartJobs`, `StopJobs`, `shutDown_all`, `processMsg`, both `close` | runs the scripts that mount /data, set the MIPs and start the servers |
| DRBD monitor (`drbdmon.cpp`) | a thread, a timer, a queue | `init`, `superviseDRBD`, `close` | calls `nodefailOver`, writes the persistent record |
| Reactor and pipe handler (`reactorrunner.cpp`, `rolemngr.cpp`) | the registered handler, the event loop of `ACE_Reactor::instance()` | `svc`, `stop`, `handle_input` -> `processMsg` | messages of DevMon, calls `nodefailOver` |
| Lock file (`lockFile.cpp`) | a file on the local disk | `MKLFile`, `RMLFile`, `CHKLFile` | remembers a split brain across a reset |
| Persistent record (`powerOff.cpp`) | a mapped file: connection state, reboot count | `init`, `get_persis_info`, `write_persis_info`, `drbdinfo`, `peerdrbdinfo` | RoleMgr, STNBYAdm, DRBD monitor |
| Peer state (`immOm.cpp`) | none | `peerNodeLockd`, `isVirtualNode` | the information model |
| Probes (`arping.cpp`, `ping.cpp`, `ndisc.cpp`) | sockets | one request with retries | `splitBrainAlgo` |
| Configuration, utilities, tracing, TIPC | configuration values | parsing, `_execlp`, logging | everybody |

### 1.2 The device monitor process

| Part | State | Operations | Interacts with |
| --- | --- | --- | --- |
| AMF class (`devmon amfclass.cpp`) | `HAState`, the previous state of a CSI set | the callbacks of AMF, the poll loop, the handlers of SIGUSR2 and SIGHUP | calls devmonHAClass, answers AMF |
| devmonHAClass (`devmon hamanager.cpp`) | `m_admObj`, `m_admLock` | `activateApp`, `passifyApp` | creates, joins and deletes Adm |
| Adm (`devmon adm.cpp`) | a thread, a queue, the handlers of SIGTERM and SIGINT | `start`, `svc`, `stop`, `shutDown_all` | opens the pipe, starts and joins both monitors |
| DRBDMon (`devmon drbdmon.cpp`, `devmon drbdmgr.cpp`) | a thread, a reactor thread with a timer, a queue, `m_sendMsg`, `m_msgInfo` | `healthCheck`, `parse_proc_drbd`, `isactive`, `write_buffer` | DRBD by one command after another, the pipe |
| DRBDRecovery (`devmon drbdrecovery.cpp`) | a thread, a reactor thread with a timer, a queue | `healthCheck` | runs `raidmgr --recover` |
| Global (`devmon global.cpp`) | `fifo_fd`, `shutdown_ordered` | open, close and write of the pipe, `compRestart` | every thread |

### 1.3 Around them

* The pipe: messages of 313 bytes without a mark where one begins; a write that
  finds no room fails, a read takes what there is, up to 1024 bytes.
* raidmgr: no state but that of DRBD, no lock; `--assemble`, `--mount`,
  `--unmount`, `--disable`, `--activate`, `--deactivate`, `--recover`, the last by
  running itself on the other node over ssh.
* `apos_ha_rdeagent_clc` and `apos_ha_devmon_clc`: the scripts AMF instantiates and
  cleans up the two processes with: SIGUSR2, a wait, SIGKILL.
* AMF itself (external), with recovery policy NODE_FAILFAST and one active
  assignment in the cluster (`src/ha_cnz/ha_agent_cxc/conf/apg-haagent-csm.yml`).
* The operations scripts (`src/ha_cnz/ha_agent_cxc/bin`): one command per job.
* The older agent for software RAID (`haadm_agent_caa/md`), the demonstration
  applications, and the shell code of the rest of APOS.

### 1.4 What is hard

* **Threads.**  The main thread, ACTVAdm or STNBYAdm, RoleMgr, the monitor and
  the reactor share `Global` and the RoleMgr with hardly any locking.  Three of
  them can run `StopJobs()` at once; the shutdown is a chain of four joins.
* **Callback timeout.**  `waitOntask()` gives up while RoleMgr goes on, so that
  AMF's view and the node's differ.
* **Partial failure.**  A start that fails half way is not undone; a stop that
  fails starts over.
* **Crash.**  Mounts, addresses and servers outlive the process; the lock file
  outlives the node.
* **Two nodes.**  In a partition each side has an AMF of its own.  What remains
  is check-then-act: probe the other node's addresses, then take the role; or
  test that this node is Primary, then take the other one's resource down.
* **Messages.**  The pipe has no framing, a limit, and two ends that start and
  stop independently; what a message says may be over when it is read.
* **A second activation.**  Objects of an application are made anew, but the flags
  of `Global` and the reactor belong to the process: what the first activation has
  left of them, the next one finds.
* **Torn readings.**  Both daemons read connection, role and disks of DRBD with
  separate commands, each of which may fail, while DRBD changes.
* **Signals.**  SIGUSR2 runs `passifyApp()` in the thread that may hold its lock;
  handlers of SIGTERM and SIGINT point to an object that is deleted.

### 1.5 What makes it correct

A node never runs both applications; a deleted application leaves no thread,
message or handler; what was taken is released in the reverse order; AMF is told
"active" only of a node that holds the whole role; every callback ends; at most
one node has the disk, and at most one the addresses; a split brain is
remembered until it is over.  A fault of DRBD that stays is told and acted upon,
and one that is not there is not; a recovery does not touch the node that has
the data in use; the supervision runs exactly while AMF was told so.  `PROJECT.json` lists the hazards line by line.

## 2. Plan

Done, in this order:

1. `HaAgent`, one process with all its threads; `HaAgentInv`, its inductive
   invariant; `HaAgentProofs`; `MCHaAgent`.
2. `ActiveRole`, the abstract promise of the pair; `HaCluster`, the agents of
   two nodes around a back-plane that breaks, composed of the steps of
   `HaAgent` that another node can notice; `HaClusterInv`; `HaClusterProofs`
   with the refinement of `ActiveRole`; `MCHaCluster`.
3. `SyncRecord`, the DRBD monitor and the persistent record with its three
   writers; `SyncRecordInv`; `SyncRecordProofs`; `MCSyncRecord`.

4. `DevPipe`, what the device monitor finds, the pipe and what the agent makes
   of a message; `DevPipeInv`; `DevPipeProofs`; `MCDevPipe`.
5. `RaidMgr`, the role, activation and recovery of the resource on two nodes;
   `RaidMgrInv`; `RaidMgrProofs`; `MCRaidMgr`.
6. `DevMon`, the device monitor process with its threads and signals;
   `DevMonInv`; `DevMonProofs`; `MCDevMon`.
7. `Probe`, a round of ARP or ping probes with its retries over an unreliable
   network; `ProbeInv`; `ProbeProofs`; `MCProbe`.

8. `NodeRole`, the abstract specification of one agent, which `HaAgent`
   implements (`HaAgentNode`, `HaAgentNodeProofs`) and of which the nodes of
   `HaCluster` are instances (`HaCluster!Member`, `HaClusterProofs`).

To come:

9. More circumstances in `SyncRecord`: the states other than "WFConnection" in
   which DRBD reports a lost peer, and whether an interrupted resynchronisation
   stays on record.

## 3. The modules and the code

### 3.1 `HaAgent`

One process.  Each thread has a program counter: `amf` (the main thread inside
AMF's callbacks), `actv` and `stby` (the applications), `role` (RoleMgr),
`watch` (the monitor, and the reactor thread that serves DevMon's pipe).  `stop`
says how far a thread is inside `StopJobs()`, which three threads can be at once;
`failover` which threads are inside `nodefailOver()`; `queued` which tasks have a
shutdown message; `flags` which of `m_tasksDone`, `m_compRestart`,
`m_shutdownOrdered` and `m_startJobsDone` are true; `held` what the node holds of
the active role, which survives the process.  `left` is a history variable.

An action is one step of one thread between two points where another thread can
see or change what it works on: a script that is run, a message put or taken, a
join, a flag set.  Actions keep the names of the functions (`SetActive` is
`activateApp` up to its first wait, `JoinActv` the `wait()` in `stopActv`, and so
on; `map` in `PROJECT.json` gives the lines).  Failures are alternatives of the
step that can fail: a start job leaves the rest undone and sets `m_compRestart`;
a stop job sends the thread into `nodefailOver()`, which begins with the stop
jobs again.  Undefined behaviour is a choice of outcomes: a monitor that is
closed before `init()` has run (`NullReactor`), stop jobs on a deleted
`m_drbdObj` (`UseAfterFree`), a pipe message before there is one
(`PipeWithoutObject`).  `loop` is the event loop of the one reactor of the process:
RoleMgr ends it (`RoleJoin`) and nothing resets it, so that in a later activation
the thread that is to serve the pipe ends at once (`InitPipe`, `RunLoop`).  AMF is external: `Allowed` lists the orders it gives in a
state, and it sends no order during another.

`HaAgentNode` maps a process to the agent of `NodeRole` (3.3): the program counters,
flags and the state AMF knows amount to a `Place`, the resources to what the node
`has`, `m_oldhaState` and what will be copied into it to `Old`.

### 3.2 `HaCluster` and `ActiveRole`

Two nodes.  An agent is reduced to what the other node can notice: idle,
standby, deciding (`split`), taking (`assemble`, `mips`), active, releasing
(`stopMips`, `stopData`), failed, down.  `SplitBrainSkip` and `SplitBrainProbe`
are `splitBrainAlgo()`; `lock` is the lock file, which survives a reset;
`detected` is a history variable.  An active AMF per partition, the back-plane
and the administrative operations are external.

The algorithm is not safe under everything AMF and the network may do.  What it
depends on is made explicit as a constant, `Admitted`, the set of circumstances
that may occur:

| Circumstance | Why the algorithm cannot stand it |
| --- | --- |
| `virtual` | the addresses on the public interface are not probed, and the internal ones are not reachable in a partition |
| `overlap` | a node that is taking or releasing the role has the disk, but no address that would answer |
| `coldStart` | an agent that comes from UNDEFINED without a lock file does not probe at all |
| `lockRace` | a locked peer is trusted to be inactive, before it is |
| `lockFile` | without the file the next start does not probe |

Which property depends on which of them is known exactly: TLC was run with
each of the 32 sets in `HaCluster.cfg`, and the hypotheses of the theorems are
those with which it finds no violation.

| Property | Holds exactly when none of these is admitted | Theorem |
| --- | --- | --- |
| `OneActive`, `RoleSpec` | all five | `OneOwner`, `Refinement` |
| `LockFileKept` | `virtual`, `overlap`, `lockRace` | `LockFileSound` |
| `NoResponseNoActive` | `virtual`, `overlap` | `CheckSound` |
| `LockedPeerInactive` | `lockRace` | `LockSound` |
| `MembersSpec` | - (always holds) | `MembersRefine` |

`NoResponseNoActive` and `LockedPeerInactive` are what the comments at
`rolemngr.cpp:728-734` and `rolemngr.cpp:713-716` say without any condition.  All five
circumstances are listed under `hazards`.  Besides,
the model assumes that the probe of a live address on an intact network is
answered; how much may go wrong with that is the subject of `Probe` (3.8).

`ActiveRole` is what the rest of APOS may rely on: the disk belongs to at most
one node, the addresses are only up over the disk, and the role never passes
from node to node in one step.  `RoleSpec` instantiates it with the nodes that
have `/data` and the nodes that have the addresses.

### 3.3 `NodeRole`

What `HaCluster` composes, and what one agent is supposed to do, is stated once, in
`NodeRole`: the places of an agent, the moves between them, and what each does to
the disk, the addresses and the lock file.  A role is taken disk first and given up
addresses first; the lock file goes only when the node becomes standby or a check
has passed, and comes only from a check that was due.  Both sides are shown
against it: `HaAgent` implements it with all its threads (`NodeSpec`), and every
node of `HaCluster`, whatever is admitted, makes only its moves (`MembersSpec`).  So
the steps of `HaCluster` are not merely chosen to look like those of `HaAgent`: both
are held to the same specification of an agent.

Two things of `NodeRole` do not occur in `HaCluster`.  `Restart` and `Stray` are a new
process on what a dead one has left, which AMF's recovery policy NODE_FAILFAST
excludes in the cluster (`apg-haagent-csm.yml:29`) but `HaAgent` admits; and moves that
fail with their effect (`Take`), which are two steps of `HaCluster`.  The
attempt to prove the refinement corrected `HaCluster`: that a failing node gives up
addresses and disk by itself, before it is reset (`FailoverStop`), was missing, as
were a stop order to an idle agent and the reset of one that has not failed.

### 3.4 `SyncRecord`

One node.  `rec` is the record as the processes see it (`HA_AGENT_PersistantInfoT`:
connection state and reboot counter), `saved` the page as it is on the disk.  A thread is
at `get`, then at the three stores of `write_persis_info()` (`clear`, `cstate`,
`count`), each a step of its own, because a reset or another thread can fall in
between; `info` is its local copy.  `PwrOffNew` and `PwrOffInit` are the two
halves of `Global::PWROff()`, between which another thread finds an object
without a mapping (`NullMap`); `JoinMonitor` ends with `Global::deactivate()`, which
deletes the object, so that the next application makes it anew.  `StbyGet`, `MonGet`, `HealthRefuse` and `HealthPass`
are what the three threads do with the record.  The monitor's tick is `Tick`,
`DrbdInfo`, `PeerDrbdInfo`, `Judge`, `Retry`/`RetryOk`.  `seen` (the state recorded
last) and `refused` (reboots made by `healthCheck()`) are history variables; a
reset that brings back an older page brings back their values of that time,
so that the properties speak of the record that survived.

`RCF` and `APEvent()`, which `healthCheck()` writes for other programs, are left out:
nothing in the agent reads them.  The branch of `superviseDRBD()` that
compares local and peer state is unreachable, because the second call is not
made when the first succeeds; `Judge` says so.  Two circumstances:
`earlyTick`, the monitor ticks (2 seconds after it was opened) before STNBYAdm
has written the record; `powerLoss`, a reset loses what the kernel has not
written back.

### 3.5 `DevPipe`

One node: DRBDMon, the pipe, and RoleMgr with the reactor thread that reads it.
`drbd` is DRBD itself, which changes at any time (`Drbd`).  `pc` and `got` are a tick
of DRBDMon: three commands, each a step (`GetConnectedState`, `GetDrbdRole`,
`GetDiskState`, or `CommandFails`), and `Judge`, which is `isactive()` and
`healthCheck()`.  `got` keeps the verdict rather than the strings, since the first
of the three that is not in order prevails.  `told`, what this process last got into the pipe,
and `steady`, that DRBD has been in order and readable since the agent took the
role, are history variables.

The pipe is a sequence of messages of which the first may be incomplete
(`headLeft`).  `Read` is one `read()`: it takes up to `ReadSize` bytes, of which
`readMsg()` decodes those of the first message only; `ReadType` is what it makes
of them when they begin inside a message.  Every message a tick can write has
the same size.  The agent goes through `InitRoleMgr` (the handler is registered),
`NewDRBDMgr` (`m_drbdObj` exists), `StartJobsDone`, `Close`, `PClose`; a role change
that is read before `m_drbdObj` exists dereferences null (`DispatchTooEarly`).
`loopEnded` says that `close(u_long)` has ended the event loop of the reactor: it is
the singleton of the process, `run_reactor_event_loop()` returns at once on it and
nobody calls `reset_reactor_event_loop()`, so that the handler of a later activation
is registered and never called.  Only a new process has a new reactor
(`ProcessEnds`, which is the end of `AgentEnds` and `DispatchTooEarly`).
`HealthDisk`, `HealthRole`, `HealthRetry`, `HealthDone` are `drbdHealth()`.

Abstractions: the two writes that `healthCheck()` can make in one call are one
step, so that there is room for both or for neither (a reader that makes room
in between would only have the fault told twice); `nodefailOver()` leads to a
reset; the disk states are the four the code tells apart.

### 3.6 `RaidMgr`

Two nodes, DRBD between them (`up`, `role`, `disk`, `link`, `mounted`) and three
shells a node may run: that of the agent (`agent`), a recovery (`rec`), and a
command that a recovery on the other node has started through ssh (`remote`).
Each test and each `drbdadm`, `mount` or `umount` command is a step, because the
script has no lock: what a test has seen may be over at the next command.
`Deactivate` and `Activate` are the functions both shells use, with the step that
follows as a parameter.  Any command may fail; the effect of the ones that
succeed (`DrbdPrimary` and so on) is external.  Both the device monitor and the
operator can start a recovery, so `Recover` has only the guards of the script.  A
reset of a node ends what runs on it, but not what it has started elsewhere
(`RemoteOrphan`).

Abstractions: `Outdated` and the states below it are `Inconsistent`, `StandAlone`
is `Apart`; a Primary that loses its local disk, and two ssh commands on one
node at a time, are left out.  `Admitted` may hold one circumstance, `failover`: the
role moves during a recovery.  The passing run and two of the theorems are for the
case that it does not; `raid_failover` shows why.

### 3.7 `DevMon`

One process.  `main` and `order` are the main thread and the callback it serves,
`adm` the Adm thread, `mon` the two monitors, `reactor` the reactor threads that
serve their timers, `backlog` and `closeMsg` the messages in their queues: a
queue is a number of TIMEOUTs, then possibly a CLOSE, since what comes after a
CLOSE is not taken any more.  `flags` are the flags of `Global`, SHUTDOWN in the
queue of Adm, and the registered handlers.  What a check finds is in `DevPipe`; what a
recovery does is in `RaidMgr`.

The health check of AMF is always answered with success and SIGHUP only rereads
the configuration; neither is an action.  `haState` and `prevHa` are kept as the
code keeps them.  `Usr2` in a thread that holds `m_admLock` waits for itself
(`main = "stuck"`) until the CLC script kills the process; a signal between the
unlock and the answer is taken as arriving after the answer.  `Signal` to an Adm
object that a failed start has deleted is undefined: the process crashes, or
nothing happens.  SIGTERM while active stops the supervision, but the process lives
on and AMF is not told; `ActiveWatched` excludes it by the history flag `term`, and
it is a hazard of the list.

### 3.8 `Probe`

The loop over the addresses in `splitBrainAlgo()` with what it calls, `ping()` on a
virtual node and `arping()` on a native one (`node`, chosen once).  `pc`, `cur`, `counter` and
`success` are the loops and their counters; `net` holds the packets on their way,
`held` the addresses that the other node has.  One action is one request
(`Send`), one packet that is taken for an answer or not (`Receive`, `Ignore`), the
end of the wait (`Timeout`), or an error (`RecvFails`, and the alternatives of
`Send` and `NextMip`).  The environment answers, loses and repeats packets,
delivers them in any order and late, even to the socket of another address, and
moves addresses at any time.  `kept`, `faults`, `ever` and `answered` are history.

What the code looks at in a packet is modelled as it is: the interface the socket
is bound to (`Heard`), for ARP the address (`m_dst`), for ICMP the number and the
id of the process, but not the sender.  The two accidents of width are in the
model too: `icmp_id` has 16 bits and is compared with the whole process id
(`IdMatches`), and of an IPv6 address the wrong bytes are read (`m_dst` is 0).  A
packet does not survive a round: rounds are apart by a reset or by the work of an
active node.  A fault is a request or an answer that is lost, late or spoilt
by an error; `Tolerance` is how many of them the retries make up for, all but
one of the tries with ARP and all but two with ping, except that a single try
must succeed.  An address whose `init()` fails is not probed, and nothing is
claimed of it.

## 4. The runs

| Run | Module, configuration | Checks | Result |
| --- | --- | --- | --- |
| `agent` | `MCHaAgent`, `HaAgent.cfg` | `OneRole`, `NoOrphans`, `Released`, `ResourceOrder`, `ActiveAnswerTrue`, `JoinsAdvance`, `NodeSpec`, `Answered`, `IInv` | hold, 411670 states |
| `agent_stop_failure` | `HaAgentReset.cfg` | `StopFailureResets` | violated: a finding |
| `cluster` | `MCHaCluster`, `HaCluster.cfg` | `OneActive`, `LockFileKept`, `NoResponseNoActive`, `LockedPeerInactive`, `RoleSpec`, `MembersSpec`, `IInv` | hold, 16056 states |
| `record_kept` | `MCSyncRecord`, `SyncRecord.cfg` | `RecordKept`, `CountTrue`, `IInv` | hold, 167510 states |
| `record_live` | `SyncRecordLive.cfg` | `RecordCatchesUp` | holds, 362738 states |
| `devpipe` | `MCDevPipe`, `DevPipe.cfg` | `SilentOnlyIfTold`, `NoFalseAlarm`, `FaultTold`, `RoleLossActedOn`, `IInv` | hold, 317686 states |
| `devpipe_lost` | `DevPipeLost.cfg` | `RoleChangeReceived` | violated: a finding |
| `devpipe_again` | `DevPipeAgain.cfg` | `PipeServed` | violated: a finding |
| `raid` | `MCRaidMgr`, `RaidMgr.cfg` | `ActiveHasData`, `RecoveryByPrimary`, `RecoveryEnds`, `IInv` | hold, 1253 states |
| `raid_failover` | `RaidMgrFailover.cfg` | `ActiveHasData` | violated: a finding |
| `devmon` | `MCDevMon`, `DevMon.cfg` | `ActiveWatched`, `NothingLeft`, `InUse`, `NoAbnormalClose`, `Answered`, `IInv` | hold, 69962 states |
| `probe` | `MCProbe`, `Probe.cfg` | `FoundTrue`, `TwoAnswers`, `ActiveFound`, `RoundEnds`, `IInv` | hold, 1066054 states |

Each module's type invariant, `TypeOK`, is a part of its `IInv` and checked with it.

What the passing runs show.  The chain of joins by which an application ends
neither loses a thread nor blocks, whichever thread is in `StopJobs()` or
`nodefailOver()` at the time (`JoinsAdvance` says that at each join someone it depends
on can go on, with the guards of the threads written out); addresses are never up over a disk that is not
mounted, not even after a crash between two jobs; AMF hears "active" only of a
node that holds everything.  Every callback ends, unless a stop script fails again
and again (`StopFailsForEver`), and then the node does not even reset itself.  With the assumptions of 3.2, two nodes never have
the role, and the lock file is what carries that across the reset.  The record
survives three unsynchronised writers because of *when* they run, not because
of how they write: RoleMgr has no monitor yet, and STNBYAdm is normally done
before the first tick; with `earlyTick` TLC finds `RecordKept` and `CountTrue`
violated, and `record_live` shows that the next ticks repair the state.

The device monitor is silent about a fault only after it has told it: a write that
finds the pipe full falls through to the branch that takes the report back, so
that the next tick tries again; with an `else` there, as a reader of the code might
expect, a fault would be lost for ever (the mutant `HealthCheck_Else`).  The agent
trusts no message: it reads DRBD itself, so that old and torn messages do no
harm (`NoFalseAlarm`).  A fault that stays is told (`FaultTold`) and a lost role leads
to a failover (`RoleLossActedOn`) when each message is read by itself and the event
loop of the agent runs, that is in the first activation of its process.  A recovery by raidmgr leaves the active node
its data and always ends, as long as the role stays where it is.  The device
monitor's chain of joins neither blocks nor leaves a thread, a timer or the pipe
behind, in the first activation and in every later one.

A late or repeated echo reply never counts twice for one request.  `ping()` looks
at no sender and numbers the requests of every address from 0, so that a late
answer of one address would do for the next; it does not, because the two
internal addresses are on different interfaces (`cluster.conf`) and the sockets are
bound to them (the mutant `Heard_Unbound`).

What the violations show.

* `StopFailureResets`: `shutDown_all()` and `nodefailOver()` call each other as
  long as a stop script fails; the "quick reset" of `rolemngr.cpp:359` is only
  reached when it succeeds.
* `RoleChangeReceived`: at the real sizes one `read()` takes up to three whole
  messages and looks at the first; a ROLE_CHANGE behind another message is gone,
  and the device monitor, which has told it, is silent.
* `PipeServed`: the header of `reactorrunner.cpp` (lines 19-20) says of a stopped
  reactor that it needs a reset to be started again, and that "This is handled by
  this class"; it is not.  A process that becomes active a second time has a
  handler that nobody calls: messages stay in the pipe, and when it is full new
  faults cannot be told.  With `~loopEnded` as a further premise the property holds.
* `ActiveHasData` with `failover` admitted: `do_recover()` tests `is_primary` once;
  if the role moves before the forced deactivation has run on the other node, it
  unmounts and demotes the node that is now active.

Six more disagreements between comment or name and code can be read off the modules,
without a run of their own.  Nothing ends the loop of the agent's `activate()`
after SIGUSR2, so that the CLC script always needs its SIGKILL (`HaAgent`, `Kill`).
`AGNT_REBOOT_COUNT` decides which file `healthCheck()` writes, not whether the node
reboots: a node whose peer went away in the middle of a resynchronisation reboots
for as long as AMF makes it active (`SyncRecord`, `HealthRefuse`).  With DRBD gone
`drbdinfo()` and `peerdrbdinfo()` both fail, and the branch that resets the node
needs one of them to succeed (`Judge`).  `Counter > MAX_ATTEMPTS` comes after a loop
that ends at `Counter = MAX_ATTEMPTS` (`Retry`).
`icmp_id` has 16 bits and `send_ping()` compares it with the whole process id
(`ping.cpp:170`, `ping.cpp:220`): with an id above 65535 no ping ever succeeds, and with
`Pid = 65536` in `Probe.cfg` TLC finds `ActiveFound` violated.  The comment at
`rolemngr.cpp:728-734` promises a request to the IPv6 address of `nbi`, but
`set_destaddr()` takes the flow information of a `sockaddr_in6` for the address and asks
for 0.0.0.0 (`arping.cpp:177`): with `V6 = {3}` `ActiveFound` is violated too.

### 4.1 Bounds

`HaAgent` and `HaCluster` are finite as they are: the only thing the code could
repeat without limit is a message to a task that is already told to end, and a
second one has no effect, so that `queued` is a set.  `HaCluster` is checked with
the two nodes an APG has; its theorems are for any set of nodes.  In `SyncRecord`
the counter stops at `RebootCount + 1` (`MaxCount`): the code only compares it
with the configured count.  `RebootCount` is 1 or 2, so that it is below, at and
above the limit; the theorems are for every value.  The connection states that
the code treats alike are one (`SyncTarget`, `SyncSource`).  `MaxAttempts` is the
code's own 3.

In `DevPipe` the sizes of `devpipe` are the smallest: room for one message, which a
read takes whole.  The pipe is then full as often as possible, which is the hard
case for `SilentOnlyIfTold` and `FaultTold`, and the liveness properties do not hold
with reads that take more than one message, which is what `devpipe_lost` shows at
the real 313 and 1024 bytes.  Reads that begin or end inside a message can only
matter to the safety properties; these are proved for every size, and TLC finds
them to hold with two messages of two bytes and three bytes a read, too.
`MaxRetry` is 1 (0 in the two violations) instead of 300: the retries differ only in
how often they read.  `devpipe_again` needs a single message.  `RaidMgr` has the two nodes of an APG.  In `DevMon` `MaxBacklog` (2) is how
many ticks a monitor can be behind: none, some, and more than one.  The theorems are
for every value.

`Probe` has the three addresses of `cluster.conf`, two internal ones and a public one
on interfaces of their own, and both kinds of node; `XTimes` is 3, the value of `apos_ha_agentd.conf`, with which there is a first, a
last and another try; `faults` is counted up to `XTimes`, above every `Tolerance`.
A packet that is on its way twice is one that stays when it is received.

### 4.2 Fairness

`HaAgent!ThreadFairness` is weak fairness of each thread: the kernel schedules
all of them, none runs at a real-time priority that could starve another; a
script that a thread waits for ends, because `_execlp()` and `_execvp()` set
`alarm()` in the child (`utils.cpp:142-243`); `waitOntask()` has a timeout.
`FairSpec` adds weak fairness of `Kill`: the CLC script sends SIGKILL 60 seconds
after SIGUSR2.  Nothing is assumed of AMF, DRBD, scripts that succeed, or
messages of DevMon.

`SyncRecord!FairSpec`: the threads are scheduled, the timer of the monitor is a
repeating one, `nodefailOver()` resets the node, the join of a monitor that was
told to end returns; and strong fairness of `DrbdInfo`: a command that is tried
at every tick for ever does not fail to start (`popen()`) every time.

`DevPipe!FairSpec`: DRBDMon and the reactor thread of the agent are scheduled, and
the timer repeats; strong fairness of each of the three readings, for the same
reason as above.  The reactor thread is owed steps only while its event loop runs:
with `loopEnded` no step of `Handle` is enabled.  Nothing is assumed of the agent's life, of DRBD or of the pipe.
`RaidMgr!FairSpec`: a shell goes on with its script, also one that runs for ssh; a
command that hangs for ever is not considered.  `DevMon!FairSpec`: the main thread,
Adm, the monitors and their reactors are scheduled, and the CLC script goes on
from SIGUSR2 to SIGKILL.  `Probe!FairSpec`: the thread of RoleMgr is scheduled, and
the wait for a packet has a timeout that shrinks with every packet; nothing is
assumed of the network.

## 5. The proofs

Each component has a module of proofs.  For every value of the constants:

| Module | Theorem | Statement |
| --- | --- | --- |
| `HaAgentProofs` | `Inductive` | `Spec => []IInv` |
| | `TypeCorrect`, `RolesExclusive`, `NothingLeftRunning`, `ResourcesReleased`, `ResourcesOrdered`, `AnswerHonest`, `NoDeadlock` | every invariant of `agent` |
| | `NeverAbnormal` | the abnormal exit of `close(u_long)` is dead code |
| `HaAgentNodeProofs` | `NodeRefinement` | `Spec => NodeSpec`: one process implements `NodeRole` |
| | `NodeHolds` | the place of an agent says what its node has (`Node!Holds`) |
| `HaClusterProofs` | `Inductive`, `OneOwner`, `Refinement` | `IInv`, `OneActive` and `RoleSpec`, for any set of nodes and `Admitted = {}` |
| | `CheckSound`, `LockSound`, `LockFileSound` | the action properties of `cluster`, each without the circumstances it cannot stand (3.2) and with any of the others |
| | `Types`, `Phases`, `MembersRefine` | types, `PhaseInv` and `MembersSpec`, for any `Admitted` |
| `SyncRecordProofs` | `Inductive` | `Spec => []IInv`, for any `RebootCount` and `Admitted` |
| | `TypeCorrect` | types, for any `Admitted` |
| | `NothingLost`, `NothingInvented` | `RecordKept` and `CountTrue`, if `earlyTick` is not admitted |
| `DevPipeProofs` | `Inductive` | `Spec => []IInv`, for every size of pipe, message and read |
| | `Types`, `Silent`, `NoAlarm` | every invariant of `devpipe` |
| `RaidMgrProofs` | `Inductive`, `Types` | `Spec => []IInv`, types, for any `Admitted` |
| | `OwnAnswer`, `Advances` | `AnswerInv` and `RecoveryAdvances`, for any `Admitted` |
| | `DataKept`, `ByPrimary` | `ActiveHasData` and `RecoveryByPrimary`, if `failover` is not admitted |
| `DevMonProofs` | `Inductive` | `Spec => []IInv`, for every `MaxBacklog` |
| | `Types`, `Watched`, `Gone`, `Used`, `Ordered` | every invariant of `devmon` |
| | `NoDeadlock` | `JoinsAdvance` of the device monitor |
| `ProbeProofs` | `Inductive` | `Spec => []IInv`, for any addresses, interfaces, tries and process id |
| | `Types`, `Found`, `Twice` | every invariant of `probe` |
| | `FoundExactly` | `ping()` too finds only the address it asked for, if no two share an interface |
| | `Advances` | `RoundAdvances` |
| | `Complete` | `ActiveFound`, if the process id is below 65536 and no address is an IPv6 address |

Assumptions: `StopMayFail` is a Boolean, `RebootCount` and `MaxRetry` are natural
numbers, `PipeSize`, `MsgSize` and `MaxBacklog` positive ones, a message fits into one
read (`MsgSize <= ReadSize`), `Disks` are known disk states with `UpToDate` among them,
`Admitted` is a set of known circumstances; in `RaidMgr` there are two nodes.  In
`Probe` there is at least one try, and every address has an interface.

*`HaAgent`.*  None of the properties is inductive: that no thread is left when an
application is deleted depends on what each thread is doing while it is being
joined.  `IInv` says what each program counter implies, in seven parts: what the
main thread knows of the applications (`MainInv`), which threads can exist and be
in `StopJobs()` (`ThreadInv`), the order in which a shutdown reaches ACTVAdm,
RoleMgr and the watchers (`ShutdownInv`), how far the jobs have come
(`ResourceInv`), what `m_tasksDone` stands for (`AnswerInv`), which application an
order of AMF can find (`OrderlyInv`), and that whoever is waited for has been told
to end (`WaitInv`).  One lemma per part, one step per action.  `NoDeadlock` needs
`WaitInv`: from a join one goes along the chain (ACTVAdm, RoleMgr, the monitor or
the reactor) to a thread whose message is in its queue or which is past waiting.

*`HaAgentNode`.*  One step per action shows which move of `NodeRole` it is, or that
it is none (`NodeMoves`).  `OrderlyInv` is there for this proof: that a node which
stops in good order really has the disk and the addresses it then gives up is
not needed for any property of `HaAgent` itself.  `NodeHolds` is not proved of the
process: `Node!Holds` is inductive in `NodeRole`, and the refinement carries it over.

*`HaCluster`.*  Before a node mounts the disk, all that excludes a second owner is
what its check has seen.  `IInv` says what that is: takeovers do not overlap
(`TakingInv`), a check that is skipped has nothing to find, for a locked peer
(`LockSkipInv`) or for an agent that comes from nowhere (`ColdSkipInv`), a detected
split brain is in the lock file (`LockFileInv`), in a partition a locked node has
no part in the role (`LockedInv`).  From these, a node that has passed the check
is alone (`ExclusiveInv`), which gives `OneActive` and the refinement.  The parts
are inductive under weaker hypotheses than the whole: `PhaseInv` under any,
`TakingInv` without `overlap`, `LockedInv` and `LockSkipInv` without `lockRace`; each
action property is proved from the parts it needs, which is why a check can be
trusted in circumstances in which the pair as a whole cannot.

*`SyncRecord`.*  `Control` says which threads exist together and hence that no two
are at the record; `Kept`, that whoever writes holds the state recorded last, so
that clearing and refilling the record restores it; `Counted`, that the counter
in the record, on the disk and in every copy is covered by reboots that happened, and that a
copy which ends a run of reboots has none.

*`DevPipe`.*  `NoFalseAlarm` says nothing of the examination that is under way.
`CheckInv` does: as long as DRBD has been in order, what `drbdHealth()` has found so
far is in order too, and only an agent that is taking or has the role and whose event
loop runs examines anything.  Nothing need be said of the messages in the pipe, which is
the point: the agent is safe whatever it reads.

*`RaidMgr`.*  `RoleInv`: a Primary or mounted node is one whose agent is at work, and
the other one's is not.  `RecoverInv`: while a recovery or its remote command is under
way both agents rest, whoever is past the test runs on the active node, and what
runs for it on the other node meets an agent that is off.  `AnswerInv` holds whatever
is admitted: a recovery that waits for ssh waits for its own command, not for
what an earlier one left behind.

*`DevMon`.*  `AdmInv` says what each step of Adm implies of the flags, the monitors and
their reactors; `MainInv` ties the callback, the stored state and the object;
`SignalInv` says who can have asked the supervision to end, and that handlers
without an object remain only after a failed start; `WaitInv` says that whoever is
joined has been told to end, which gives `NoDeadlock`.

*`Probe`.*  `SoundInv`: a reply on the network comes from a node that had the
address, and an answer that was counted belongs to a request with a smaller
number than the present one, so that the next one is different.  `CompleteInv`: as
long as the other node has the address, every request without an answer is paid
for by a fault, and the request under way is paid for or still on its way; when
the tries are used up, the faults exceed `Tolerance`.

Only model-checked: the liveness properties (`Answered` of both processes,
`RecordCatchesUp`, `FaultTold`, `RoleLossActedOn`, `RecoveryEnds`, `RoundEnds`) and the violations,
since fairness and ENABLED are beyond the prover.  Of four of them the safety part
is proved, for every value of the constants: `JoinsAdvance` of both processes (no
join waits in vain, with the guards of the threads written out instead of
ENABLED; that they are the guards was checked with TLC), and `RecoveryAdvances` and
`RoundAdvances` (no step is ever repeated, so that there are only so many).
What is left to TLC there is that a thread which can go on does.

## 6. What is not modelled

* The `--noha` mode, SIGINT and SIGHUP of the agent: operator and test use.
* Initialisation with AMF before the first callback; the health-check callback,
  which only answers.
* `ndisc.cpp`, whose only call is commented out; layout and checksums of packets.
* Parsing of the configuration, logging and tracing: I/O without protocol state.
  A configuration without a number for `AGNT_X_TIMES` means no probe at all.
* Of the device monitor: the `--noha` mode, the reading of the configuration, tracing.
* Of raidmgr: partitioning, creation of volumes and file systems, adding disks,
  the status output, and the conversion of metadata at boot: sequential
  administration of a disk that is not in use.
* The older agent for software RAID (not built for DRBD nodes), the
  demonstration applications.
* The shell code of the other parts of APOS: sequential installation and
  administration scripts.
* Third-party code.
