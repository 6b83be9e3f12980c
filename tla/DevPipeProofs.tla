--------------------------- MODULE DevPipeProofs ---------------------------
(***************************************************************************)
(* Proofs about DevPipe for every size of the pipe, of a message and of    *)
(* the read buffer, and every max_retry.                                   *)
(***************************************************************************)
EXTENDS DevPipeInv, TLAPS

USE DEF monVars, pipeVars, agentVars

-----------------------------------------------------------------------------
(* read()                                                                    *)

\* Division with remainder, by the size of a message.
LEMMA Division ==
  ASSUME NEW a \in Nat
  PROVE  /\ a \div MsgSize \in Nat
         /\ (a \div MsgSize) * MsgSize <= a
         /\ a < (a \div MsgSize) * MsgSize + MsgSize
BY MsgSizeAssumption, Z3

\* Fewer bytes are fewer messages.
LEMMA Fewer ==
  ASSUME NEW q \in Nat, NEW k \in Nat, q * MsgSize < k * MsgSize
  PROVE  q < k
BY MsgSizeAssumption, Z3

\* A read() takes some of the messages whole, and of the next one it leaves
\* some bytes: the pipe is again a sequence of messages, of which only the
\* first may be a rest.
LEMMA ReadKeepsPipe ==
  ASSUME TypeOK, pipe # <<>>, Read
  PROVE  pipe' \in Seq(Msgs) /\ Len(pipe') <= PipeSize /\ headLeft' \in 1..MsgSize
<1> DEFINE n == WholeRead
           q == (ReadSize - headLeft) \div MsgSize
<1>1. /\ pipe \in Seq(Msgs) /\ Len(pipe) \in Nat \ {0} /\ Len(pipe) <= PipeSize
      /\ headLeft \in 1..MsgSize /\ ReadSize - headLeft \in Nat
  BY MsgSizeAssumption DEF TypeOK
<1>2. n \in 0..Len(pipe) /\ (n # Len(pipe) => Bytes(n + 1) - ReadSize \in 1..MsgSize)
  <2>1. CASE Bytes(Len(pipe)) <= ReadSize
    BY <1>1, <2>1 DEF WholeRead
  <2>2. CASE ~(Bytes(Len(pipe)) <= ReadSize)
    <3>1. n = 1 + q
      BY <2>2 DEF WholeRead
    <3>2. q \in Nat /\ q * MsgSize <= ReadSize - headLeft /\ ReadSize - headLeft < q * MsgSize + MsgSize
      BY <1>1, Division
    <3>3. ReadSize - headLeft < (Len(pipe) - 1) * MsgSize
      BY <1>1, <2>2, MsgSizeAssumption, Z3 DEF Bytes
    <3>4. q < Len(pipe) - 1
      <4>1. q * MsgSize \in Nat /\ (Len(pipe) - 1) * MsgSize \in Nat /\ Len(pipe) - 1 \in Nat
        BY <1>1, <3>2, MsgSizeAssumption, Z3
      <4>2. q * MsgSize < (Len(pipe) - 1) * MsgSize
        BY <1>1, <3>2, <3>3, <4>1
      <4> QED
        BY <3>2, <4>1, <4>2, Fewer
    <3>5. Bytes(n + 1) = headLeft + (q * MsgSize + MsgSize)
      BY <1>1, <3>1, <3>2, MsgSizeAssumption, Z3 DEF Bytes
    <3>6. q * MsgSize \in Nat
      BY <3>2, MsgSizeAssumption, Z3
    <3>7. Bytes(n + 1) - ReadSize \in 1..MsgSize
      <4> HIDE DEF n, q
      <4> QED
        BY <1>1, <3>2, <3>5, <3>6, MsgSizeAssumption
    <3> QED
      <4> HIDE DEF q
      <4> QED
        BY <1>1, <3>1, <3>2, <3>4, <3>7
  <2> QED
    BY <2>1, <2>2
<1>3. pipe' = SubSeq(pipe, n + 1, Len(pipe)) /\ headLeft' = IF n = Len(pipe) THEN MsgSize ELSE Bytes(n + 1) - ReadSize
  BY DEF Read
<1> HIDE DEF n
<1>4. headLeft' \in 1..MsgSize
  BY <1>2, <1>3, MsgSizeAssumption
<1>5. pipe' \in Seq(Msgs) /\ Len(pipe') <= Len(pipe)
  BY <1>1, <1>2, <1>3
<1>6. Len(pipe') \in Nat
  BY <1>5
<1> QED
  BY <1>1, <1>4, <1>5, <1>6, PipeSizeAssumption

\* Closing the pipe keeps its type.
LEMMA ClosedPipe ==
  ASSUME TypeOK, NEW other, PipeClosed(other)
  PROVE  pipe' \in Seq(Msgs) /\ Len(pipe') <= PipeSize /\ headLeft' \in 1..MsgSize
<1>1. CASE other = "off"
  <2>1. pipe' = <<>> /\ headLeft' = MsgSize
    BY <1>1 DEF PipeClosed
  <2> QED
    BY <2>1, PipeSizeAssumption, MsgSizeAssumption
<1>2. CASE other # "off"
  BY <1>2 DEF TypeOK, PipeClosed
<1> QED
  BY <1>1, <1>2

\* The values that processes start with.
LEMMA Fresh ==
  /\ Idle \in [pc : {"none", "disk", "role", "loop"}, upToDate : BOOLEAN, bad : BOOLEAN, retry : 0..MaxRetry]
  /\ Idle.pc = "none" /\ Idle.bad = FALSE
  /\ "DISK_HEALTHY" \in Msgs
  /\ <<>> \in Seq(Msgs) /\ Len(<<>>) <= PipeSize /\ MsgSize \in 1..MsgSize
<1>1. 0 \in 0..MaxRetry
  BY MaxRetryAssumption
<1>2. Idle \in [pc : {"none", "disk", "role", "loop"}, upToDate : BOOLEAN, bad : BOOLEAN, retry : 0..MaxRetry]
  BY <1>1 DEF Idle
<1>3. <<>> \in Seq(Msgs) /\ Len(<<>>) <= PipeSize /\ MsgSize \in 1..MsgSize
  BY PipeSizeAssumption, MsgSizeAssumption
<1> QED
  BY <1>2, <1>3 DEF Idle, Msgs

-----------------------------------------------------------------------------
(* One step of each kind                                                     *)

\* What a read of one state may yield.
LEMMA Verdicts ==
  ASSUME TypeOK
  PROVE  ConnVerdict(drbd) \in Msgs \cup {"failed"} /\ RoleVerdict(drbd) \in Msgs
         /\ DiskVerdict(drbd) \in Msgs
<1>1. drbd.conn \in {"Connected", "Other", "Down"}
  BY DEF TypeOK, Conns
<1>2. ConnVerdict(drbd) \in {"failed", "CONN_ERROR", "DISK_HEALTHY"}
  BY <1>1 DEF ConnVerdict
<1> QED
  BY <1>2 DEF Msgs, Faults, RoleVerdict, DiskVerdict

\* The monitor: it reports a fault before it is silent about it.
LEMMA MonStep ==
  ASSUME IInv, MonStart \/ MonStop \/ ReadDrbd \/ CommandFails \/ Judge
  PROVE  IInv'
<1> USE DEF Msgs, Faults
<1>1. CheckInv'
  <2>1. UNCHANGED <<drbd, agentVars, steady>>
    BY DEF MonStart, MonStop, ReadDrbd, GetConnectedState, GetDrbdRole, GetDiskState, ReadState,
           CommandFails, Judge
  <2> QED
    BY <2>1 DEF IInv, CheckInv, InOrder, IsPrimary, LocalUpToDate
<1>2. CASE MonStart
  BY <1>1, <1>2 DEF IInv, TypeOK, SilentOnlyIfTold, MonStart
<1>3. CASE MonStop
  <2>1. PipeClosed(agent)
    BY <1>3 DEF MonStop
  <2> QED
    BY <1>1, <1>3, <2>1, ClosedPipe DEF IInv, TypeOK, SilentOnlyIfTold, MonStop
<1>4. CASE ReadDrbd
  BY <1>1, <1>4, Verdicts
     DEF IInv, TypeOK, SilentOnlyIfTold, ReadDrbd, GetConnectedState, GetDrbdRole, GetDiskState, ReadState
<1>5. CASE CommandFails
  BY <1>1, <1>5 DEF IInv, TypeOK, SilentOnlyIfTold, CommandFails
<1>6. CASE Judge
  <2>1. type' \in Msgs /\ sendMsg' \in BOOLEAN /\ told' \in {"nothing", "fault", "healthy"}
    BY <1>6 DEF IInv, TypeOK, Judge, HealthCheck
  <2>2. pipe' \in Seq(Msgs) /\ Len(pipe') <= PipeSize
    BY <1>6, <2>1, PipeSizeAssumption DEF IInv, TypeOK, Judge, HealthCheck
  <2>3. SilentOnlyIfTold'
    BY <1>6 DEF IInv, TypeOK, SilentOnlyIfTold, Judge, HealthCheck
  <2>4. TypeOK'
    BY <1>6, <2>1, <2>2 DEF IInv, TypeOK, Judge
  <2> QED
    BY <1>1, <2>3, <2>4 DEF IInv
<1> QED
  BY <1>2, <1>3, <1>4, <1>5, <1>6

\* A process of the agent that ends leaves nothing of itself behind.
LEMMA EndStep ==
  ASSUME IInv, ProcessEnds
  PROVE  IInv'
<1>1. PipeClosed(pc) /\ UNCHANGED <<drbd, monVars>>
  BY DEF ProcessEnds
<1>2. agent' = "off" /\ check' = Idle /\ loopEnded' = FALSE /\ steady' = FALSE
  BY DEF ProcessEnds
<1>3. TypeOK'
  BY <1>1, <1>2, ClosedPipe, Fresh DEF IInv, TypeOK
<1> QED
  BY <1>1, <1>2, <1>3, Fresh DEF IInv, SilentOnlyIfTold, CheckInv

\* The life of the reader, DRBD and the reset of the node.
LEMMA AgentStep ==
  ASSUME IInv, InitRoleMgr \/ NewDRBDMgr \/ StartJobsDone \/ Close \/ PClose \/ AgentEnds \/ Reset \/ Drbd
  PROVE  IInv'
<1> USE DEF CheckInv, InOrder, IsPrimary, LocalUpToDate, Conns, Roles
<1>1. CASE InitRoleMgr \/ NewDRBDMgr
  BY <1>1 DEF IInv, TypeOK, SilentOnlyIfTold, InitRoleMgr, NewDRBDMgr
<1>2. CASE StartJobsDone
  BY <1>2 DEF IInv, TypeOK, SilentOnlyIfTold, StartJobsDone
<1>3. CASE Close
  BY <1>3 DEF IInv, TypeOK, SilentOnlyIfTold, Close
<1>4. CASE PClose
  <2>1. PipeClosed(pc)
    BY <1>4 DEF PClose
  <2> QED
    BY <1>4, <2>1, ClosedPipe DEF IInv, TypeOK, SilentOnlyIfTold, PClose
<1>5. CASE Reset
  <2>1. TypeOK'
    <3>1. drbd' \in [conn : Conns, role : Roles, disk : Disks]
      BY <1>5 DEF IInv, TypeOK, Reset
    <3> QED
      BY <1>5, <3>1, Fresh DEF TypeOK, Reset
  <2> QED
    BY <1>5, <2>1 DEF IInv, SilentOnlyIfTold, Reset, Idle
<1>6. CASE Drbd
  <2>1. drbd' \in [conn : Conns, role : Roles, disk : Disks]
    BY <1>6 DEF IInv, TypeOK, Drbd
  <2>2. UNCHANGED <<monVars, pipeVars, agentVars>> /\ steady' = (steady /\ InOrder')
    BY <1>6 DEF Drbd
  <2>3. TypeOK'
    BY <2>1, <2>2 DEF IInv, TypeOK
  <2> QED
    BY <2>2, <2>3 DEF IInv, SilentOnlyIfTold
<1>7. CASE AgentEnds
  BY <1>7, EndStep DEF AgentEnds
<1> QED
  BY <1>1, <1>2, <1>3, <1>4, <1>5, <1>6, <1>7

\* The reactor thread of the agent: what it finds is so.
LEMMA HandleStep ==
  ASSUME IInv, Handle
  PROVE  IInv'
<1> USE DEF CheckInv, InOrder, IsPrimary, LocalUpToDate
<1>1. CASE Dispatch
  <2>1. pipe # <<>> /\ Read
    BY <1>1 DEF Dispatch, Listening
  <2>2. pipe' \in Seq(Msgs) /\ Len(pipe') <= PipeSize /\ headLeft' \in 1..MsgSize
    BY <2>1, ReadKeepsPipe DEF IInv
  <2> QED
    BY <1>1, <2>2 DEF IInv, TypeOK, SilentOnlyIfTold, Dispatch, Listening
<1>2. CASE DispatchTooEarly
  BY <1>2, EndStep DEF DispatchTooEarly
<1>3. CASE HealthDisk
  <2>1. /\ check.pc = "disk" /\ UNCHANGED <<drbd, monVars, pipeVars, agent, loopEnded>>
        /\ \E u \in BOOLEAN : /\ check' = [check EXCEPT !.pc = "role", !.upToDate = u]
                              /\ \/ u = LocalUpToDate /\ steady' = steady
                                 \/ steady' = FALSE
    BY <1>3 DEF HealthDisk, DiskRead, IInv, TypeOK
  <2>2. TypeOK'
    BY <2>1 DEF IInv, TypeOK
  <2> QED
    BY <2>1, <2>2 DEF IInv, TypeOK, SilentOnlyIfTold
<1>4. CASE HealthRole
  <2>1. /\ check.pc = "role" /\ UNCHANGED <<drbd, monVars, pipeVars, agent, loopEnded>>
        /\ \E b \in BOOLEAN : /\ check' = [check EXCEPT !.pc = "loop", !.bad = b]
                              /\ \/ b = ~IsPrimary /\ steady' = steady
                                 \/ steady' = FALSE
    BY <1>4 DEF HealthRole, IInv, TypeOK
  <2>2. TypeOK'
    BY <2>1 DEF IInv, TypeOK
  <2> QED
    BY <2>1, <2>2 DEF IInv, TypeOK, SilentOnlyIfTold
<1>5. CASE HealthRetry
  <2>1. check.retry + 1 \in 0..MaxRetry
    BY <1>5, MaxRetryAssumption DEF IInv, TypeOK, HealthRetry
  <2>2. /\ check.pc = "loop" /\ ~check.upToDate /\ UNCHANGED <<drbd, monVars, pipeVars, agent, loopEnded>>
        /\ \E u \in BOOLEAN : /\ check' = [check EXCEPT !.retry = check.retry + 1, !.upToDate = u]
                              /\ steady' = steady \/ steady' = FALSE
    BY <1>5 DEF HealthRetry, DiskRead, IInv, TypeOK
  <2>3. TypeOK'
    BY <2>1, <2>2 DEF IInv, TypeOK
  <2> QED
    BY <2>2, <2>3 DEF IInv, TypeOK, SilentOnlyIfTold
<1>6. CASE HealthDone
  <2>1. TypeOK'
    BY <1>6, Fresh DEF IInv, TypeOK, HealthDone
  <2>2. steady => agent' = agent
    BY <1>6 DEF IInv, HealthDone
  <2> QED
    BY <1>6, <2>1, <2>2, Fresh DEF IInv, SilentOnlyIfTold, HealthDone
<1> QED
  BY <1>1, <1>2, <1>3, <1>4, <1>5, <1>6 DEF Handle, DrbdHealth

-----------------------------------------------------------------------------
(* The theorems                                                              *)

\* The inductive invariant holds in every reachable state, for every size of
\* the pipe (healthCheck(), readMsg(), drbdHealth()).
THEOREM Inductive == Spec => []IInv
<1>1. Init => IInv
  <2> SUFFICES ASSUME Init PROVE IInv
    OBVIOUS
  <2>1. TypeOK
    BY Fresh, DisksAssumption DEF Init, TypeOK, Conns, Roles
  <2> QED
    BY <2>1, Fresh DEF Init, IInv, SilentOnlyIfTold, CheckInv
<1>2. IInv /\ [Next]_vars => IInv'
  <2> SUFFICES ASSUME IInv, [Next]_vars PROVE IInv'
    OBVIOUS
  <2>1. CASE Next
    BY <2>1, MonStep, AgentStep, HandleStep DEF Next
  <2>2. CASE UNCHANGED vars
    BY <2>2 DEF vars, IInv, TypeOK, SilentOnlyIfTold, CheckInv, InOrder, IsPrimary, LocalUpToDate
  <2> QED
    BY <2>1, <2>2
<1> QED
  BY <1>1, <1>2, PTL DEF Spec

\* The types of the state: in particular, whatever a read() cuts off, at most
\* the first of the messages in the pipe is incomplete (readMsg()).
THEOREM Types == Spec => []TypeOK
<1>1. IInv => TypeOK
  BY DEF IInv
<1> QED
  BY <1>1, Inductive, PTL

\* The daemon is silent only about a fault it has told, however many messages
\* the pipe has room for (healthCheck()).
THEOREM Silent == Spec => []SilentOnlyIfTold
<1>1. IInv => SilentOnlyIfTold
  BY DEF IInv
<1> QED
  BY <1>1, Inductive, PTL

\* The agent does not reset a node whose DRBD is in order, whatever messages it
\* finds in the pipe and wherever a read() begins (processMsg()).
THEOREM NoAlarm == Spec => []NoFalseAlarm
<1>1. IInv => NoFalseAlarm
  BY DEF IInv, CheckInv, NoFalseAlarm
<1> QED
  BY <1>1, Inductive, PTL

=============================================================================
